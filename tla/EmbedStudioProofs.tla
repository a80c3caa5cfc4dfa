------------------------- MODULE EmbedStudioProofs -------------------------
(***************************************************************************)
(* EmbedStudio keeps its type invariant, AtMostOnce, SentIsPosted,         *)
(* StoppedNeverPosts, QuotaHolds and NoBurst, and implements               *)
(* StudioPromise, for all processes, rows and bounds.                      *)
(*                                                                         *)
(* A message is sent at most once because the right to send an occurrence  *)
(* is one token that moves: from a waiting row (RowInv: it has sends left) *)
(* to the one transaction that locked it (LockInv), to the one process in  *)
(* whose hand it is, to the wire and to the channel (TokenInv: never in    *)
(* two of these places, and no token is newer than the row's last claim).  *)
(* What finish writes is true since a message stays where it is            *)
(* (ResultInv), and the quota holds because the insert that has counted    *)
(* and the rows it counted are within it together (QuotaInv).              *)
(***************************************************************************)
EXTENDS EmbedStudio, FiniteSetTheorems, TLAPS

Held(t) == t.missed \cup t.ready
Counted == {r \in Campaigns : place[r] = "counted"}

(* A row that waits has a send left; one that is not there has none behind it. *)
RowInv ==
    \A r \in Rows :
        /\ place[r] # "made" => r \notin waiting /\ count[r] = 0 /\ status[r] = "none"
        /\ r \in waiting => count[r] < Sends(r)
        /\ r \in Posts /\ status[r] \in {"cancelled", "missed"} => count[r] = 0

(* The rows of a transaction wait, and are of no other transaction. *)
LockInv ==
    \A t \in open :
        /\ Held(t) \subseteq waiting /\ t.missed \cap t.ready = {}
        /\ \A r \in t.ready : due[r] <= t.time
        /\ \A u \in open : u # t => Held(t) \cap Held(u) = {}

(* An occurrence is in one hand, on the wire or in the channel. *)
TokenInv ==
    /\ \A x \in hand :
        /\ x.occ[2] <= count[x.occ[1]]
        /\ x.step = "check" => x.occ \notin wire /\ posted[x.occ] = 0
        /\ \A y \in hand : x.occ = y.occ => x = y
    /\ \A o \in wire : o[2] <= count[o[1]] /\ posted[o] = 0
    /\ \A o \in Occurrences : posted[o] <= 1 /\ (posted[o] > 0 => o[2] <= count[o[1]])

(* Results are written of what was seen. *)
ResultInv ==
    /\ \A w \in writes : w.result = "sent" => posted[w.occ] > 0
    /\ SentIsPosted

(* One insert at a time has counted, and there is room for its row. *)
QuotaInv ==
    /\ \A r, s \in Counted : r = s
    /\ Cardinality((waiting \cap Campaigns) \cup Counted) <= Quota

(* The inductive invariant. *)
Inv == TypeOK /\ RowInv /\ LockInv /\ TokenInv /\ ResultInv /\ QuotaInv

-----------------------------------------------------------------------------
(* The bounds are natural numbers. *)
LEMMA BoundsOK ==
    ASSUME StudioAssumptions
    PROVE  /\ MaxSends \in Nat /\ MaxSends >= 1 /\ MaxTime \in Nat /\ MaxFaults \in Nat
           /\ Quota \in Nat /\ Lead \in Nat
           /\ PostWindow \in Nat /\ CampaignWindow \in Nat
<1>1. MaxSends \in Nat /\ MaxSends # 0  BY DEF StudioAssumptions
<1>2. MaxTime \in Nat /\ MaxFaults \in Nat /\ Quota \in Nat /\ Lead \in Nat
  BY DEF StudioAssumptions
<1>3. PostWindow \in Nat /\ CampaignWindow \in Nat  BY DEF StudioAssumptions
<1> QED  BY <1>1, <1>2, <1>3

(* A row has at least one send, and a post just one. *)
LEMMA SendsOK ==
    ASSUME StudioAssumptions, NEW r \in Rows
    PROVE  Sends(r) \in 1..MaxSends
<1> QED  BY BoundsOK DEF Sends

(* The clock of a campaign strikes again, later. *)
LEMMA NextFireOK ==
    ASSUME StudioAssumptions, FiresAssumption, NEW c \in Campaigns, NEW t \in 0..MaxTime
    PROVE  NextFire(c, t) \in Nat /\ NextFire(c, t) > t
<1>1. \E u \in Fires[c] : u > t /\ \A v \in Fires[c] : v > t => u <= v
  BY DEF FiresAssumption
<1>2. NextFire(c, t) \in Fires[c] /\ NextFire(c, t) > t  BY <1>1 DEF NextFire
<1>3. Fires[c] \subseteq Nat  BY DEF StudioAssumptions
<1> QED  BY <1>2, <1>3

(* Nobody waits any more for a transaction that is forsaken; its rows stay. *)
LEMMA ForsakenOK ==
    ASSUME open \subseteq Claims, NEW p \in Procs, NEW t \in Forsaken(p)
    PROVE  /\ t \in Claims
           /\ \E u \in open : /\ t.time = u.time /\ t.missed = u.missed /\ t.ready = u.ready
                              /\ t = IF u.by = p THEN [u EXCEPT !.by = None] ELSE u
<1>1. PICK u \in open : t = IF u.by = p THEN [u EXCEPT !.by = None] ELSE u
  BY DEF Forsaken
<1>2. u \in Claims  OBVIOUS
<1> QED  BY <1>1, <1>2 DEF Claims

-----------------------------------------------------------------------------
(* Types. *)

LEMMA InitTypes == ASSUME StudioAssumptions, Init PROVE TypeOK
<1> QED  BY BoundsOK, SendsOK DEF Init, TypeOK, Tables, Places, Statuses, Occurrences

(* A commit keeps the types: a row it claims has a send left. *)
LEMMA CommitTypes ==
    ASSUME StudioAssumptions, FiresAssumption, TypeOK, RowInv, LockInv,
           NEW t \in open, ClaimCommits(t)
    PROVE  TypeOK'
<1> USE DEF TypeOK
<1>1. t \in Claims /\ t.missed \subseteq Rows /\ t.ready \subseteq Rows /\ t.time \in 0..MaxTime
  BY DEF Claims
<1>2. \A r \in t.ready : r \in waiting /\ count[r] < Sends(r) /\ count[r] + 1 <= Sends(r)
  <2>1. \A r \in t.ready : r \in waiting /\ count[r] < Sends(r)
    BY <1>1 DEF LockInv, RowInv, Held
  <2> QED  BY <2>1, <1>1, SendsOK, BoundsOK
<1>3. \A r \in Rows : NextDue(t, r) \in Nat
  <2> TAKE r \in Rows
  <2>1. CASE r \in Posts \/ r \notin t.missed \cup t.ready  BY <2>1 DEF NextDue
  <2>2. CASE r \in Campaigns /\ r \in t.missed
    <3>1. NextFire(r, t.time) \in Nat  BY <2>2, <1>1, NextFireOK
    <3> QED  BY <2>2, <3>1 DEF NextDue
  <2>3. CASE r \in Campaigns /\ r \in t.ready /\ r \notin t.missed
    <3>1. due[r] \in 0..MaxTime  BY <2>3, <1>1, BoundsOK DEF LockInv
    <3>2. NextFire(r, due[r]) \in Nat  BY <2>3, <3>1, NextFireOK
    <3> QED  BY <2>3, <3>2 DEF NextDue
  <2> QED  BY <2>1, <2>2, <2>3 DEF Rows
<1>4. due' \in [Rows -> Nat]  BY <1>3 DEF ClaimCommits
<1>5. \A r \in Rows : count'[r] \in 0..MaxSends /\ count'[r] <= Sends(r)
  BY <1>1, <1>2, SendsOK, BoundsOK DEF ClaimCommits
<1>6. count' \in [Rows -> 0..MaxSends] /\ \A r \in Rows : count'[r] <= Sends(r)
  BY <1>5 DEF ClaimCommits
<1>7. status' \in [Rows -> Statuses]  BY DEF ClaimCommits, Statuses
<1>8. hand' \subseteq Tokens
  <2>1. ASSUME NEW r \in t.ready, t.by # None
        PROVE  [by |-> t.by, occ |-> <<r, count[r] + 1>>, step |-> "check"] \in Tokens
    <3>1. t.by \in Procs  BY <1>1, <2>1 DEF Claims
    <3>2. count[r] + 1 \in 1..MaxSends  BY <1>1, <1>2, SendsOK, BoundsOK
    <3> QED  BY <1>1, <3>1, <3>2 DEF Tokens, Occurrences
  <2> QED  BY <2>1 DEF ClaimCommits
<1>9. waiting' \subseteq Rows /\ open' \subseteq Claims  BY DEF ClaimCommits
<1> QED  BY <1>4, <1>6, <1>7, <1>8, <1>9 DEF ClaimCommits, Idle, discord

(* A fault stays within the bound. *)
LEMMA FaultyOK == ASSUME StudioAssumptions, TypeOK, Faulty PROVE faults' \in 0..MaxFaults
<1> QED  BY BoundsOK DEF TypeOK, Faulty

(* The other steps of the processes keep the types. *)
LEMMA LoopTypes ==
    ASSUME StudioAssumptions, TypeOK, NEW p \in Procs,
           \/ ClaimBegins(p) \/ ClaimFindsNothing(p) \/ Restart(p) \/ Crash(p)
    PROVE  TypeOK'
<1> USE DEF TypeOK, Idle, rowVars, discord, Tables, Advance
<1>1. CASE ClaimBegins(p)
  <2>1. PICK late \in Oldest(Late(p), MissBatch), ready \in Oldest(Ready(p), Batch) :
            open' = open \cup {[by |-> p, time |-> now, missed |-> late, ready |-> ready]}
    BY <1>1 DEF ClaimBegins
  <2>2. late \subseteq Rows /\ ready \subseteq Rows  BY DEF Oldest, Late, Ready, Free
  <2>3. [by |-> p, time |-> now, missed |-> late, ready |-> ready] \in Claims
    BY <2>2 DEF Claims
  <2>4. open' \subseteq Claims  BY <2>1, <2>3
  <2> QED  BY <1>1, <2>4 DEF ClaimBegins
<1>2. CASE ClaimFindsNothing(p)  BY <1>2 DEF ClaimFindsNothing
<1>3. CASE Restart(p)  BY <1>3 DEF Restart
<1>4. CASE Crash(p)
  <2>1. open' \subseteq Claims  BY <1>4, ForsakenOK DEF Crash
  <2> QED  BY <1>4, <2>1, FaultyOK DEF Crash
<1> QED  BY <1>1, <1>2, <1>3, <1>4

(* So do the claims that fail. *)
LEMMA FailureTypes ==
    ASSUME StudioAssumptions, TypeOK, NEW t \in open,
           ClaimFails(t) \/ AnswerIsLost(t) \/ RollsBack(t)
    PROVE  TypeOK'
<1> USE DEF TypeOK, Idle, rowVars, discord, Tables, Again
<1>0. faults' \in 0..MaxFaults  BY FaultyOK DEF ClaimFails, AnswerIsLost, RollsBack, TypeOK
<1>1. CASE ClaimFails(t)  BY <1>0, <1>1 DEF ClaimFails
<1>2. CASE AnswerIsLost(t)
  <2>1. t.by \in Procs  BY <1>2 DEF AnswerIsLost, Claims
  <2>2. open' \subseteq Claims  BY <1>2, <2>1, ForsakenOK DEF AnswerIsLost
  <2> QED  BY <1>0, <1>2, <2>2 DEF AnswerIsLost
<1>3. CASE RollsBack(t)  BY <1>0, <1>3 DEF RollsBack, worker
<1> QED  BY <1>1, <1>2, <1>3

(* And the steps of a dispatch, with the result it writes. *)
LEMMA DispatchTypes ==
    ASSUME StudioAssumptions, TypeOK, NEW x \in hand, Dispatch(x)
    PROVE  TypeOK'
<1> USE DEF TypeOK, Rest, rowVars, discord
<1>0. x \in Tokens /\ x.occ \in Occurrences  BY DEF Tokens
<1>1. CASE Send(x)
  <2>1. [x EXCEPT !.step = "wait"] \in Tokens  BY <1>0 DEF Tokens
  <2> QED  BY <1>0, <1>1, <2>1 DEF Send
<1>2. ASSUME NEW result \in {"sent", "failed"}, Finish(x, result)
      PROVE  hand' \subseteq Tokens /\ writes' \subseteq Results
  BY <1>0, <1>2 DEF Finish, Results
<1>3. CASE Refuse(x)  BY <1>2, <1>3 DEF Refuse
<1>4. CASE Answered(x)  BY <1>2, <1>4 DEF Answered
<1>5. CASE Rejected(x)  BY <1>2, <1>5 DEF Rejected
<1>6. CASE TimesOut(x)  BY <1>2, <1>6 DEF TimesOut
<1> QED  BY <1>1, <1>3, <1>4, <1>5, <1>6 DEF Dispatch

(* And the rows: what staff asks for, its insert, and the writes. *)
LEMMA RowTypes ==
    ASSUME StudioAssumptions, FiresAssumption, TypeOK, NEW r \in Rows, Staff(r) \/ Insert(r)
    PROVE  TypeOK'
<1> USE DEF TypeOK, Still, rowVars, worker, discord, Places, Statuses
<1>1. CASE Ask(r)
  <2>1. PICK t \in IF r \in Posts THEN {u \in now + 1 .. now + Lead : u <= MaxTime}
                                  ELSE {NextFire(r, now)} : due' = [due EXCEPT ![r] = t]
    BY <1>1 DEF Ask
  <2>2. t \in Nat
    <3>1. CASE r \in Posts  BY <3>1, <2>1, BoundsOK
    <3>2. CASE r \notin Posts
      <4>1. r \in Campaigns /\ t = NextFire(r, now)  BY <3>2, <2>1 DEF Rows
      <4> QED  BY <4>1, NextFireOK
    <3> QED  BY <3>1, <3>2
  <2> QED  BY <1>1, <2>1, <2>2 DEF Ask
<1>2. CASE Cancel(r)  BY <1>2 DEF Cancel
<1>3. CASE InsertPost(r)  BY <1>3 DEF InsertPost, Arrives
<1>4. CASE QuotaCounts(r)  BY <1>4 DEF QuotaCounts
<1>5. CASE InsertCampaign(r)  BY <1>5 DEF InsertCampaign, Arrives
<1>6. CASE InsertFails(r)  BY <1>6 DEF InsertFails
<1> QED  BY <1>1, <1>2, <1>3, <1>4, <1>5, <1>6 DEF Staff, Insert

LEMMA OtherTypes ==
    ASSUME StudioAssumptions, TypeOK,
           \/ Tick
           \/ \E o \in wire : Deliver(o)
           \/ \E w \in writes : Written(w)
           \/ UNCHANGED vars
    PROVE  TypeOK'
<1> USE DEF TypeOK, rowVars, worker, discord
<1>1. CASE Tick  BY <1>1, BoundsOK DEF Tick
<1>2. CASE \E o \in wire : Deliver(o)  BY <1>2 DEF Deliver, Rest
<1>3. ASSUME NEW w \in writes, Written(w)  PROVE TypeOK'
  <2>1. w.occ \in Occurrences /\ w.occ[1] \in Rows /\ w.occ[2] \in 1..MaxSends
        /\ w.result \in {"sent", "failed"}
    BY DEF Results, Occurrences
  <2>2. status' \in [Rows -> Statuses]  BY <1>3, <2>1 DEF Written, Statuses
  <2>3. message' \in [Rows -> 0..MaxSends]
    <3>1. 0 \in 0..MaxSends /\ w.occ[2] \in 0..MaxSends  BY <2>1, BoundsOK
    <3> QED  BY <1>3, <2>1, <3>1 DEF Written
  <2> QED  BY <1>3, <2>2, <2>3 DEF Written
<1>4. CASE UNCHANGED vars  BY <1>4 DEF vars
<1> QED  BY <1>1, <1>2, <1>3, <1>4

-----------------------------------------------------------------------------
(* The rows. *)

(* Staff and inserts keep RowInv: a row is new to the table when it arrives. *)
LEMMA RowsStaff ==
    ASSUME StudioAssumptions, TypeOK, RowInv, LockInv, NEW r \in Rows, Staff(r) \/ Insert(r)
    PROVE  RowInv'
<1> USE DEF RowInv, TypeOK, Still, rowVars
<1>0. 0 < Sends(r)  BY SendsOK, BoundsOK
<1>1. CASE Ask(r)  BY <1>1 DEF Ask
<1>2. CASE Cancel(r)
  <2>1. r \in Posts => count[r] = 0  BY <1>2, BoundsOK DEF Cancel, Sends
  <2>2. ASSUME NEW s \in Rows
        PROVE  /\ place'[s] # "made" => s \notin waiting' /\ count'[s] = 0 /\ status'[s] = "none"
               /\ s \in waiting' => count'[s] < Sends(s)
               /\ s \in Posts /\ status'[s] \in {"cancelled", "missed"} => count'[s] = 0
    <3>1. CASE s = r  BY <1>2, <2>1, <3>1 DEF Cancel
    <3>2. CASE s # r  BY <1>2, <3>2 DEF Cancel
    <3> QED  BY <3>1, <3>2
  <2> QED  BY <2>2
<1>3. CASE InsertPost(r)  BY <1>0, <1>3 DEF InsertPost, Arrives
<1>4. CASE QuotaCounts(r)  BY <1>4 DEF QuotaCounts
<1>5. CASE InsertCampaign(r)  BY <1>0, <1>5 DEF InsertCampaign, Arrives
<1>6. CASE InsertFails(r)  BY <1>6 DEF InsertFails
<1> QED  BY <1>1, <1>2, <1>3, <1>4, <1>5, <1>6 DEF Staff, Insert

(* So does a claim that commits. *)
LEMMA RowsCommit ==
    ASSUME StudioAssumptions, TypeOK, RowInv, LockInv, NEW t \in open, ClaimCommits(t)
    PROVE  RowInv'
<1>1. t.missed \subseteq waiting /\ t.ready \subseteq waiting /\ t.missed \cap t.ready = {}
  BY DEF LockInv, Held
<1>2. SUFFICES ASSUME NEW r \in Rows
      PROVE  /\ place'[r] # "made" => r \notin waiting' /\ count'[r] = 0 /\ status'[r] = "none"
             /\ r \in waiting' => count'[r] < Sends(r)
             /\ r \in Posts /\ status'[r] \in {"cancelled", "missed"} => count'[r] = 0
  BY DEF RowInv
<1>3. /\ place[r] # "made" => r \notin waiting /\ count[r] = 0 /\ status[r] = "none"
      /\ r \in waiting => count[r] < Sends(r)
      /\ r \in Posts /\ status[r] \in {"cancelled", "missed"} => count[r] = 0
  BY DEF RowInv
<1>4. count[r] \in Nat /\ Sends(r) \in Nat /\ (r \in Posts => Sends(r) = 1)
  BY SendsOK, BoundsOK DEF TypeOK, Sends
<1>5. /\ place' = place /\ waiting' \subseteq waiting
      /\ count'[r] = IF r \in t.ready THEN count[r] + 1 ELSE count[r]
      /\ status'[r] = IF r \in t.ready THEN "claimed"
                      ELSE IF r \in t.missed THEN "missed" ELSE status[r]
      /\ r \in t.ready /\ r \in waiting' => ~ (count[r] + 1 >= Sends(r))
  BY DEF ClaimCommits, Idle, IsLast
<1>6. CASE r \in t.ready
  <2>1. place[r] = "made"  BY <1>1, <1>3, <1>6
  <2> QED  BY <1>4, <1>5, <1>6, <2>1
<1>7. CASE r \in t.missed /\ r \notin t.ready
  <2>1. place[r] = "made" /\ (r \in Posts => count[r] = 0)  BY <1>1, <1>3, <1>4, <1>7
  <2> QED  BY <1>3, <1>4, <1>5, <1>7, <2>1
<1>8. CASE r \notin t.missed /\ r \notin t.ready  BY <1>3, <1>4, <1>5, <1>8
<1> QED  BY <1>6, <1>7, <1>8

(* And the write of a result, which only replaces 'claimed'. *)
LEMMA RowsWritten ==
    ASSUME TypeOK, RowInv, NEW w \in writes, Written(w)
    PROVE  RowInv'
<1>1. w.occ[1] \in Rows /\ w.result \in {"sent", "failed"}
  BY DEF TypeOK, Results, Occurrences
<1>2. UNCHANGED <<place, waiting, count>>  BY DEF Written
<1>3. \A r \in Rows :
          \/ status'[r] = status[r]
          \/ status[r] = "claimed" /\ status'[r] \in {"sent", "failed"}
  <2>1. CASE Current(w.occ)
    <3>1. status' = [status EXCEPT ![w.occ[1]] = w.result]  BY <2>1 DEF Written
    <3>2. status[w.occ[1]] = "claimed"  BY <2>1 DEF Current
    <3> QED  BY <1>1, <3>1, <3>2 DEF TypeOK
  <2>2. CASE ~ Current(w.occ)
    <3>1. status' = status  BY <2>2 DEF Written
    <3> QED  BY <3>1
  <2> QED  BY <2>1, <2>2
<1> QED  BY <1>2, <1>3 DEF RowInv

LEMMA RowsFrame == ASSUME RowInv, UNCHANGED <<place, waiting, count, status>> PROVE RowInv'
<1> QED  BY DEF RowInv

-----------------------------------------------------------------------------
(* The locks. *)

(* Staff and inserts touch no locked row. *)
LEMMA LocksStaff ==
    ASSUME TypeOK, RowInv, LockInv, NEW r \in Rows, Staff(r) \/ Insert(r)
    PROVE  LockInv'
<1> USE DEF LockInv, Held, Still, rowVars
<1>0. \A t \in open : t \in Claims /\ t.ready \subseteq Rows  BY DEF TypeOK, Claims
<1>1. CASE Ask(r)
  <2>1. r \notin waiting  BY <1>1 DEF Ask, RowInv
  <2>2. \A t \in open : r \notin t.ready  BY <2>1
  <2>3. \A s \in Rows : s # r => due'[s] = due[s]  BY <1>1 DEF Ask, TypeOK
  <2> QED  BY <1>0, <1>1, <2>2, <2>3 DEF Ask
<1>2. CASE Cancel(r)  BY <1>2 DEF Cancel, Locked
<1>3. CASE InsertPost(r)  BY <1>3 DEF InsertPost, Arrives
<1>4. CASE QuotaCounts(r)  BY <1>4 DEF QuotaCounts
<1>5. CASE InsertCampaign(r)  BY <1>5 DEF InsertCampaign, Arrives
<1>6. CASE InsertFails(r)  BY <1>6 DEF InsertFails
<1> QED  BY <1>1, <1>2, <1>3, <1>4, <1>5, <1>6 DEF Staff, Insert

(* A claim selects rows that wait and that nobody has locked. *)
LEMMA LocksBegin ==
    ASSUME StudioAssumptions, TypeOK, LockInv, NEW p \in Procs, ClaimBegins(p)
    PROVE  LockInv'
<1>1. PICK late \in Oldest(Late(p), MissBatch), ready \in Oldest(Ready(p), Batch) :
          open' = open \cup {[by |-> p, time |-> now, missed |-> late, ready |-> ready]}
  BY DEF ClaimBegins
<1> DEFINE new == [by |-> p, time |-> now, missed |-> late, ready |-> ready]
<1>2. late \subseteq Late(p) /\ ready \subseteq Ready(p)  BY DEF Oldest
<1>3. late \subseteq Free(p) /\ ready \subseteq Free(p)  BY <1>2 DEF Late, Ready
<1>4. \A r \in ready : r \in Rows /\ due[r] <= now /\ now <= due[r] + Window(r)
  BY <1>2 DEF Ready, Free, TypeOK
<1>5. \A r \in late : r \in Rows /\ due[r] + Window(r) < now
  BY <1>2 DEF Late, Free, TypeOK
<1>6. \A r \in Rows : due[r] \in Nat /\ now \in Nat /\ Window(r) \in Nat
  BY BoundsOK DEF TypeOK, Window
<1>7. late \cap ready = {}  BY <1>4, <1>5, <1>6
<1>8. \A t \in open : Held(t) \cap (late \cup ready) = {}
  BY <1>3 DEF Free, Locked, Held
<1>9. UNCHANGED <<waiting, due>>  BY DEF ClaimBegins, rowVars
<1>10. late \cup ready \subseteq waiting  BY <1>3 DEF Free
<1>11. Held(new) = late \cup ready /\ new.missed = late /\ new.ready = ready /\ new.time = now
  BY DEF Held
<1>12. \A t \in open' : t \in open \/ t = new  BY <1>1
<1> HIDE DEF new
<1>13. ASSUME NEW t \in open'
       PROVE  /\ Held(t) \subseteq waiting /\ t.missed \cap t.ready = {}
              /\ \A r \in t.ready : due[r] <= t.time
              /\ \A u \in open' : u # t => Held(t) \cap Held(u) = {}
  <2>1. CASE t = new  BY <1>4, <1>7, <1>8, <1>10, <1>11, <1>12, <2>1
  <2>2. CASE t \in open  BY <1>8, <1>11, <1>12, <2>2 DEF LockInv
  <2> QED  BY <1>12, <2>1, <2>2
<1> QED  BY <1>9, <1>13 DEF LockInv, Held

(* A commit releases its rows, and those of the others are others. *)
LEMMA LocksCommit ==
    ASSUME TypeOK, LockInv, NEW t \in open, ClaimCommits(t)
    PROVE  LockInv'
<1>1. open' = open \ {t}  BY DEF ClaimCommits
<1>2. \A r \in waiting : r \notin Held(t) => r \in waiting'  BY DEF ClaimCommits, Held
<1>3. \A r \in Rows : r \notin Held(t) => due'[r] = due[r]  BY DEF ClaimCommits, NextDue, Held
<1>4. SUFFICES ASSUME NEW u \in open'
      PROVE  /\ Held(u) \subseteq waiting' /\ u.missed \cap u.ready = {}
             /\ \A r \in u.ready : due'[r] <= u.time
             /\ \A v \in open' : v # u => Held(u) \cap Held(v) = {}
  BY DEF LockInv, Held
<1>5. u \in open /\ u # t /\ Held(u) \cap Held(t) = {}  BY <1>1 DEF LockInv
<1>6. u.ready \subseteq Rows  BY <1>5 DEF TypeOK, Claims
<1>7. Held(u) \subseteq waiting'  BY <1>2, <1>5 DEF LockInv
<1>8. \A r \in u.ready : due'[r] <= u.time  BY <1>3, <1>5, <1>6 DEF LockInv, Held
<1> QED  BY <1>1, <1>5, <1>7, <1>8 DEF LockInv

(* A transaction nobody waits for any more keeps its rows. *)
LEMMA LocksForsaken ==
    ASSUME TypeOK, LockInv, NEW p \in Procs, open' = Forsaken(p), UNCHANGED <<waiting, due>>
    PROVE  LockInv'
<1>1. \A t \in open' : \E u \in open :
          /\ t.time = u.time /\ t.missed = u.missed /\ t.ready = u.ready
          /\ t = IF u.by = p THEN [u EXCEPT !.by = None] ELSE u
  BY ForsakenOK DEF TypeOK
<1>2. SUFFICES ASSUME NEW t \in open', NEW v \in open', v # t
      PROVE  Held(t) \cap Held(v) = {}
  BY <1>1 DEF LockInv, Held
<1>3. PICK u \in open : t.missed = u.missed /\ t.ready = u.ready
                        /\ t = IF u.by = p THEN [u EXCEPT !.by = None] ELSE u
  BY <1>1
<1>4. PICK x \in open : v.missed = x.missed /\ v.ready = x.ready
                        /\ v = IF x.by = p THEN [x EXCEPT !.by = None] ELSE x
  BY <1>1
<1>5. u # x  BY <1>2, <1>3, <1>4
<1> QED  BY <1>3, <1>4, <1>5 DEF LockInv, Held

LEMMA LocksFrame ==
    ASSUME LockInv, open' \subseteq open, UNCHANGED <<waiting, due>> PROVE LockInv'
<1> QED  BY DEF LockInv, Held

-----------------------------------------------------------------------------
(* The tokens. *)

(* A commit hands out occurrences that are newer than every token. *)
LEMMA TokensCommit ==
    ASSUME StudioAssumptions, TypeOK, RowInv, LockInv, TokenInv, NEW t \in open, ClaimCommits(t)
    PROVE  TokenInv'
<1>1. t \in Claims /\ t.ready \subseteq waiting /\ t.ready \subseteq Rows
  BY DEF TypeOK, LockInv, Held, Claims
<1>2. UNCHANGED <<wire, posted>>  BY DEF ClaimCommits, Idle, discord
<1>3. \A r \in Rows : count[r] \in Nat /\ count'[r] \in Nat /\ count'[r] >= count[r]
                      /\ (r \in t.ready => count'[r] = count[r] + 1)
  BY BoundsOK DEF TypeOK, ClaimCommits
<1>4. \A r \in t.ready : count[r] + 1 \in 1..MaxSends
  BY <1>1, SendsOK, BoundsOK DEF RowInv, TypeOK
<1> DEFINE Token(r) == [by |-> t.by, occ |-> <<r, count[r] + 1>>, step |-> "check"]
<1>5. \A x \in hand' : x \in hand \/ \E r \in t.ready : x = Token(r)
  BY DEF ClaimCommits
<1>6. \A o \in Occurrences : o[1] \in Rows /\ o[2] \in Nat  BY BoundsOK DEF Occurrences
<1>7. \A x \in hand : x.occ \in Occurrences  BY DEF TypeOK, Tokens
<1>8. ASSUME NEW r \in t.ready
      PROVE  /\ \A x \in hand : x.occ # <<r, count[r] + 1>>
             /\ <<r, count[r] + 1>> \notin wire
             /\ posted[<<r, count[r] + 1>>] = 0
  <2>1. <<r, count[r] + 1>> \in Occurrences  BY <1>1, <1>4 DEF Occurrences
  <2>2. posted[<<r, count[r] + 1>>] \in Nat  BY <2>1 DEF TypeOK
  <2>3. ~ (count[r] + 1 <= count[r])  BY <1>1, <1>3
  <2>4. \A x \in hand : x.occ # <<r, count[r] + 1>>  BY <2>3 DEF TokenInv
  <2>5. <<r, count[r] + 1>> \notin wire  BY <2>3 DEF TokenInv
  <2>6. ~ (posted[<<r, count[r] + 1>>] > 0)  BY <2>1, <2>3 DEF TokenInv
  <2> QED  BY <2>2, <2>4, <2>5, <2>6
<1>9. ASSUME NEW x \in hand'
      PROVE  /\ x.occ[2] <= count'[x.occ[1]]
             /\ x.step = "check" => x.occ \notin wire' /\ posted'[x.occ] = 0
             /\ \A y \in hand' : x.occ = y.occ => x = y
  <2>1. CASE x \in hand
    <3>1. x.occ[2] <= count'[x.occ[1]]  BY <1>3, <1>6, <1>7, <2>1 DEF TokenInv
    <3>2. \A y \in hand' : x.occ = y.occ => x = y  BY <1>5, <1>8, <2>1 DEF TokenInv
    <3> QED  BY <1>2, <2>1, <3>1, <3>2 DEF TokenInv
  <2>2. ASSUME NEW r \in t.ready, x = Token(r)
        PROVE  /\ x.occ[2] <= count'[x.occ[1]]
               /\ x.step = "check" => x.occ \notin wire' /\ posted'[x.occ] = 0
               /\ \A y \in hand' : x.occ = y.occ => x = y
    <3>1. x.occ = <<r, count[r] + 1>> /\ x.occ[1] = r /\ x.occ[2] = count[r] + 1  BY <2>2
    <3>2. x.occ[2] <= count'[x.occ[1]]  BY <1>1, <1>3, <3>1
    <3>3. \A y \in hand' : x.occ = y.occ => x = y  BY <1>5, <1>8, <2>2, <3>1
    <3> QED  BY <1>2, <1>8, <3>1, <3>2, <3>3
  <2> QED  BY <1>5, <2>1, <2>2
<1>10. \A o \in wire' : o[2] <= count'[o[1]] /\ posted'[o] = 0
  BY <1>2, <1>3, <1>6 DEF TokenInv, TypeOK
<1>11. \A o \in Occurrences : posted'[o] <= 1 /\ (posted'[o] > 0 => o[2] <= count'[o[1]])
  BY <1>2, <1>3, <1>6 DEF TokenInv
<1> QED  BY <1>9, <1>10, <1>11 DEF TokenInv

(* A dispatch moves its token: from the hand to the wire, or away. *)
LEMMA TokensDispatch ==
    ASSUME TypeOK, TokenInv, NEW x \in hand, Dispatch(x)
    PROVE  TokenInv'
<1> USE DEF discord, rowVars, Rest
<1>0. x \in Tokens /\ x.occ \in Occurrences  BY DEF TypeOK, Tokens
<1>1. CASE Send(x)
  <2> DEFINE sent == [x EXCEPT !.step = "wait"]
  <2>1. sent.occ = x.occ /\ sent.step = "wait"  BY <1>0 DEF Tokens
  <2>2. hand' = (hand \ {x}) \cup {sent} /\ wire' = wire \cup {x.occ}
        /\ x.step = "check" /\ UNCHANGED <<posted, count>>
    BY <1>1 DEF Send
  <2> HIDE DEF sent
  <2>3. \A y \in hand \ {x} : y.occ # x.occ  BY DEF TokenInv
  <2>4. ASSUME NEW y \in hand'
        PROVE  /\ y.occ[2] <= count'[y.occ[1]]
               /\ y.step = "check" => y.occ \notin wire' /\ posted'[y.occ] = 0
               /\ \A z \in hand' : y.occ = z.occ => y = z
    <3>1. CASE y = sent  BY <2>1, <2>2, <2>3, <3>1 DEF TokenInv
    <3>2. CASE y \in hand \ {x}  BY <2>1, <2>2, <2>3, <3>2 DEF TokenInv
    <3> QED  BY <2>2, <3>1, <3>2
  <2>5. \A o \in wire' : o[2] <= count'[o[1]] /\ posted'[o] = 0  BY <2>2 DEF TokenInv
  <2>6. \A o \in Occurrences : posted'[o] <= 1 /\ (posted'[o] > 0 => o[2] <= count'[o[1]])
    BY <2>2 DEF TokenInv
  <2> QED  BY <2>4, <2>5, <2>6 DEF TokenInv
<1>2. CASE Refuse(x)  BY <1>2 DEF Refuse, Finish, TokenInv
<1>3. CASE Answered(x)  BY <1>3 DEF Answered, Finish, TokenInv
<1>4. CASE Rejected(x)  BY <1>4 DEF Rejected, Finish, TokenInv
<1>5. CASE TimesOut(x)  BY <1>5 DEF TimesOut, Finish, TokenInv
<1> QED  BY <1>1, <1>2, <1>3, <1>4, <1>5 DEF Dispatch

(* Discord turns what is on the wire into a message. *)
LEMMA TokensDeliver ==
    ASSUME TypeOK, TokenInv, NEW o \in wire, Deliver(o)
    PROVE  TokenInv'
<1>1. hand' = hand /\ wire' = wire \ {o} /\ count' = count
      /\ posted' = [posted EXCEPT ![o] = @ + 1]
  BY DEF Deliver, Rest, rowVars
<1>2. o \in Occurrences /\ posted[o] = 0 /\ o[2] <= count[o[1]]  BY DEF TypeOK, TokenInv
<1>3. posted'[o] = 1 /\ \A q \in Occurrences : q # o => posted'[q] = posted[q]
  BY <1>1, <1>2 DEF TypeOK
<1>4. \A x \in hand : x.occ \in Occurrences  BY DEF TypeOK, Tokens
<1>5. \A x \in hand : x.step = "check" => x.occ # o  BY DEF TokenInv
<1>6. \A q \in wire' : q \in Occurrences /\ q # o  BY <1>1 DEF TypeOK
<1>7. \A x \in hand' :
          /\ x.occ[2] <= count'[x.occ[1]]
          /\ x.step = "check" => x.occ \notin wire' /\ posted'[x.occ] = 0
          /\ \A y \in hand' : x.occ = y.occ => x = y
  BY <1>1, <1>3, <1>4, <1>5 DEF TokenInv
<1>8. \A q \in wire' : q[2] <= count'[q[1]] /\ posted'[q] = 0
  BY <1>1, <1>3, <1>6 DEF TokenInv
<1>9. \A q \in Occurrences : posted'[q] <= 1 /\ (posted'[q] > 0 => q[2] <= count'[q[1]])
  BY <1>1, <1>2, <1>3 DEF TokenInv
<1> QED  BY <1>7, <1>8, <1>9 DEF TokenInv

LEMMA TokensFrame ==
    ASSUME TokenInv, hand' \subseteq hand, UNCHANGED <<wire, posted, count>> PROVE TokenInv'
<1> QED  BY DEF TokenInv

-----------------------------------------------------------------------------
(* The results. *)

(* A new result is "sent" only when the message was seen. *)
LEMMA ResultsDispatch ==
    ASSUME TypeOK, ResultInv, NEW x \in hand, Dispatch(x)
    PROVE  ResultInv'
<1> USE DEF discord, rowVars, Rest, ResultInv, SentIsPosted, Occ
<1>1. CASE Send(x)  BY <1>1 DEF Send
<1>2. CASE Refuse(x)  BY <1>2 DEF Refuse, Finish
<1>3. CASE Answered(x)  BY <1>3 DEF Answered, Finish
<1>4. CASE Rejected(x)  BY <1>4 DEF Rejected, Finish
<1>5. CASE TimesOut(x)  BY <1>5 DEF TimesOut, Finish
<1> QED  BY <1>1, <1>2, <1>3, <1>4, <1>5 DEF Dispatch

(* Messages stay. *)
LEMMA ResultsDeliver ==
    ASSUME TypeOK, ResultInv, NEW o \in wire, Deliver(o)
    PROVE  ResultInv'
<1>1. UNCHANGED <<status, message, count, writes>> /\ posted' = [posted EXCEPT ![o] = @ + 1]
  BY DEF Deliver, Rest, rowVars
<1>2. \A q \in Occurrences : posted[q] > 0 => posted'[q] > 0  BY <1>1 DEF TypeOK
<1>3. \A w \in writes : w.occ \in Occurrences  BY DEF TypeOK, Results
<1>4. \A w \in writes' : w.result = "sent" => posted'[w.occ] > 0
  BY <1>1, <1>2, <1>3 DEF ResultInv
<1>5. \A r \in Rows : count[r] > 0 => Occ(r) \in Occurrences
  BY DEF TypeOK, Occurrences, Occ
<1>6. SentIsPosted'  BY <1>1, <1>2, <1>5 DEF ResultInv, SentIsPosted, Occ
<1> QED  BY <1>4, <1>6 DEF ResultInv

(* What is written is of the last claim. *)
LEMMA ResultsWritten ==
    ASSUME StudioAssumptions, TypeOK, ResultInv, NEW w \in writes, Written(w)
    PROVE  ResultInv'
<1> DEFINE r == w.occ[1]
<1>0. r \in Rows /\ w.occ = <<r, w.occ[2]>> /\ w.occ[2] \in Nat /\ w.occ[2] >= 1
  BY BoundsOK DEF TypeOK, Results, Occurrences
<1>1. writes' \subseteq writes /\ UNCHANGED <<count, posted>>  BY DEF Written, discord
<1>2. CASE Current(w.occ)
  <2>1. /\ status' = [status EXCEPT ![r] = w.result]
        /\ message' = [message EXCEPT ![r] = IF w.result = "sent" THEN w.occ[2] ELSE 0]
    BY <1>2 DEF Written
  <2>2. count[r] = w.occ[2]  BY <1>2 DEF Current
  <2>3. ASSUME NEW s \in Rows, status'[s] = "sent"
        PROVE  count[s] > 0 /\ message'[s] = count[s] /\ posted[<<s, count[s]>>] > 0
    <3>1. CASE s = r
      <4>1. w.result = "sent"  BY <1>0, <2>1, <2>3, <3>1 DEF TypeOK
      <4>2. posted[w.occ] > 0  BY <4>1 DEF ResultInv
      <4>3. message'[r] = w.occ[2]  BY <1>0, <2>1, <4>1 DEF TypeOK
      <4> QED  BY <1>0, <2>2, <3>1, <4>2, <4>3
    <3>2. CASE s # r
      <4>1. status'[s] = status[s] /\ message'[s] = message[s]
        BY <1>0, <2>1, <3>2 DEF TypeOK
      <4> QED  BY <2>3, <4>1 DEF ResultInv, SentIsPosted, Occ
    <3> QED  BY <3>1, <3>2
  <2> QED  BY <1>1, <2>3 DEF ResultInv, SentIsPosted, Occ
<1>3. CASE ~ Current(w.occ)
  <2>1. UNCHANGED <<status, message>>  BY <1>3 DEF Written
  <2> QED  BY <1>1, <2>1 DEF ResultInv, SentIsPosted, Occ
<1> QED  BY <1>2, <1>3

(* Other steps leave the results alone, or a row stops saying "sent". *)
LEMMA ResultsFrame ==
    ASSUME ResultInv, UNCHANGED <<writes, posted, message>>,
           \A r \in Rows : status'[r] = "sent" => status[r] = "sent" /\ count'[r] = count[r]
    PROVE  ResultInv'
<1> QED  BY DEF ResultInv, SentIsPosted, Occ

-----------------------------------------------------------------------------
(* The quota. *)

Room == (waiting \cap Campaigns) \cup Counted

LEMMA RoomFinite ==
    ASSUME StudioAssumptions
    PROVE  IsFiniteSet(Room) /\ Cardinality(Room) \in Nat
           /\ IsFiniteSet(waiting \cap Campaigns) /\ Cardinality(waiting \cap Campaigns) \in Nat
<1>1. Room \subseteq Campaigns /\ waiting \cap Campaigns \subseteq Campaigns
  BY DEF Room, Counted
<1>2. IsFiniteSet(Campaigns)  BY DEF StudioAssumptions
<1> QED  BY <1>1, <1>2, FS_Subset, FS_CardinalityType

(* A step after which no more rows need room. *)
LEMMA QuotaFrame ==
    ASSUME StudioAssumptions, QuotaInv, Room' \subseteq Room, Counted' \subseteq Counted
    PROVE  QuotaInv'
<1>1. Cardinality(Room') <= Cardinality(Room) /\ Cardinality(Room') \in Nat
  BY RoomFinite, FS_Subset, FS_CardinalityType
<1>2. Cardinality(Room) <= Quota /\ \A r, s \in Counted : r = s  BY DEF QuotaInv, Room
<1>3. Cardinality(Room') <= Quota  BY <1>1, <1>2, RoomFinite, BoundsOK
<1> QED  BY <1>2, <1>3 DEF QuotaInv, Room

(* Staff and inserts: the row that counts is alone, and is counted itself. *)
LEMMA QuotaStaff ==
    ASSUME StudioAssumptions, TypeOK, QuotaInv, NEW r \in Rows, Staff(r) \/ Insert(r)
    PROVE  QuotaInv'
<1> USE DEF TypeOK, rowVars
<1>1. CASE Ask(r)
  <2>1. waiting' = waiting /\ Counted' = Counted  BY <1>1 DEF Ask, Counted
  <2> QED  BY <2>1, QuotaFrame DEF Room
<1>2. CASE Cancel(r)
  <2>1. waiting' \subseteq waiting /\ Counted' = Counted  BY <1>2 DEF Cancel, Counted
  <2> QED  BY <2>1, QuotaFrame DEF Room
<1>3. CASE InsertPost(r)
  <2>1. r \notin Campaigns  BY <1>3 DEF InsertPost, StudioAssumptions
  <2>2. waiting' = waiting \cup {r} /\ Counted' = Counted
    BY <1>3, <2>1 DEF InsertPost, Arrives, Counted
  <2> QED  BY <2>1, <2>2, QuotaFrame DEF Room
<1>4. CASE QuotaCounts(r)
  <2>0. Counted = {} /\ r \in Campaigns /\ UNCHANGED waiting
    BY <1>4 DEF QuotaCounts, Counted
  <2>1. CASE Cardinality(waiting \cap Campaigns) < Quota
    <3>1. Counted' = {r}  BY <1>4, <2>0, <2>1 DEF QuotaCounts, Counted
    <3>2. Cardinality((waiting \cap Campaigns) \cup {r}) <= Cardinality(waiting \cap Campaigns) + 1
          /\ Cardinality((waiting \cap Campaigns) \cup {r}) \in Nat
      <4> HIDE DEF TypeOK, rowVars
      <4> DEFINE W == waiting \cap Campaigns
      <4>1. IsFiniteSet(W) /\ Cardinality(W) \in Nat  BY RoomFinite
      <4> HIDE DEF W
      <4>2. Cardinality(W \cup {r}) = IF r \in W THEN Cardinality(W) ELSE Cardinality(W) + 1
        BY <4>1, FS_AddElement
      <4>3. Cardinality(W \cup {r}) <= Cardinality(W) + 1 /\ Cardinality(W \cup {r}) \in Nat
        BY <4>1, <4>2
      <4> QED  BY <4>3 DEF W
    <3>3. Cardinality((waiting \cap Campaigns) \cup {r}) <= Quota
      BY <2>1, <3>2, RoomFinite, BoundsOK
    <3> QED  BY <2>0, <3>1, <3>3 DEF QuotaInv
  <2>2. CASE ~ (Cardinality(waiting \cap Campaigns) < Quota)
    <3>1. Counted' = {}  BY <1>4, <2>0, <2>2 DEF QuotaCounts, Counted
    <3> QED  BY <2>0, <3>1, QuotaFrame DEF Room
  <2> QED  BY <2>1, <2>2
<1>5. CASE InsertCampaign(r)
  <2>1. place[r] = "counted" /\ place' = [place EXCEPT ![r] = "made"]
        /\ waiting' = waiting \cup {r}
    BY <1>5 DEF InsertCampaign, Arrives
  <2>2. Counted' \subseteq Counted /\ (r \in Campaigns => r \in Counted)
    BY <2>1 DEF Counted
  <2> QED  BY <2>1, <2>2, QuotaFrame DEF Room
<1>6. CASE InsertFails(r)
  <2>1. waiting' = waiting /\ Counted' \subseteq Counted  BY <1>6 DEF InsertFails, Counted
  <2> QED  BY <2>1, QuotaFrame DEF Room
<1> QED  BY <1>1, <1>2, <1>3, <1>4, <1>5, <1>6 DEF Staff, Insert

LEMMA QuotaRest ==
    ASSUME StudioAssumptions, QuotaInv, waiting' \subseteq waiting, UNCHANGED place
    PROVE  QuotaInv'
<1>1. Counted' = Counted  BY DEF Counted
<1> QED  BY <1>1, QuotaFrame DEF Room

-----------------------------------------------------------------------------
(* The invariant holds initially. *)
LEMMA InitInv == ASSUME StudioAssumptions, Init PROVE Inv
<1>1. TypeOK  BY InitTypes
<1>2. \A r \in Rows : 0 < Sends(r)  BY SendsOK, BoundsOK
<1>3. RowInv  BY <1>2 DEF Init, RowInv
<1>4. LockInv  BY DEF Init, LockInv
<1>5. TokenInv  BY DEF Init, TokenInv
<1>6. ResultInv  BY DEF Init, ResultInv, SentIsPosted
<1>7. QuotaInv
  <2>1. Counted = {} /\ waiting \cap Campaigns = {}  BY DEF Init, Counted, Rows
  <2>2. (waiting \cap Campaigns) \cup Counted = {}  BY <2>1
  <2> QED  BY <2>1, <2>2, FS_EmptySet, BoundsOK DEF QuotaInv
<1> QED  BY <1>1, <1>3, <1>4, <1>5, <1>6, <1>7 DEF Inv

(* Every step keeps it. *)
LEMMA NextInv == ASSUME StudioAssumptions, FiresAssumption, Inv, [Next]_vars PROVE Inv'
<1> USE DEF Inv
<1> USE DEF rowVars, worker, discord
<1>1. ASSUME NEW r \in Rows, Staff(r) \/ Insert(r)  PROVE Inv'
  <2>1. TypeOK' /\ RowInv' /\ LockInv' /\ QuotaInv'
    BY <1>1, RowTypes, RowsStaff, LocksStaff, QuotaStaff
  <2>2. UNCHANGED <<hand, wire, posted, writes, count, message>>
    BY <1>1 DEF Staff, Insert, Still, Ask, Cancel, InsertPost, InsertCampaign, Arrives,
                QuotaCounts, InsertFails
  <2>3. \A s \in Rows : status'[s] = "sent" => status[s] = "sent"
    BY <1>1 DEF Staff, Insert, Ask, Cancel, InsertPost, InsertCampaign, Arrives,
                QuotaCounts, InsertFails, TypeOK
  <2>4. TokenInv'  BY <2>2, TokensFrame
  <2>5. ResultInv'  BY <2>2, <2>3, ResultsFrame
  <2> QED  BY <2>1, <2>4, <2>5
<1>2. ASSUME NEW t \in open, ClaimCommits(t)  PROVE Inv'
  <2>1. TypeOK' /\ RowInv' /\ LockInv' /\ TokenInv'
    BY <1>2, CommitTypes, RowsCommit, LocksCommit, TokensCommit
  <2>2. QuotaInv'  BY <1>2, QuotaRest DEF ClaimCommits, Idle
  <2>3. \A s \in Rows : status'[s] = "sent" => status[s] = "sent" /\ count'[s] = count[s]
    BY <1>2 DEF ClaimCommits
  <2>4. ResultInv'  BY <1>2, <2>3, ResultsFrame DEF ClaimCommits, Idle
  <2> QED  BY <2>1, <2>2, <2>4
<1>3. ASSUME TypeOK', LockInv', hand' \subseteq hand,
             UNCHANGED <<place, rowVars, wire, posted, writes>>
      PROVE  Inv'
  <2>1. RowInv' /\ TokenInv' /\ QuotaInv'  BY <1>3, RowsFrame, TokensFrame, QuotaRest
  <2>2. ResultInv'  BY <1>3, ResultsFrame
  <2> QED  BY <1>3, <2>1, <2>2
<1>4. ASSUME NEW t \in open, ClaimFails(t) \/ AnswerIsLost(t) \/ RollsBack(t)  PROVE Inv'
  <2>1. TypeOK'  BY <1>4, FailureTypes
  <2>2. UNCHANGED <<place, rowVars, hand, wire, posted, writes>>
    BY <1>4 DEF ClaimFails, AnswerIsLost, RollsBack, Again, Idle
  <2>3. LockInv'
    <3>1. CASE ClaimFails(t) \/ RollsBack(t)
      BY <2>2, <3>1, LocksFrame DEF ClaimFails, RollsBack
    <3>2. CASE AnswerIsLost(t)
      <4>1. t.by \in Procs /\ open' = Forsaken(t.by)
        BY <3>2 DEF AnswerIsLost, TypeOK, Claims
      <4> QED  BY <2>2, <4>1, LocksForsaken
    <3> QED  BY <1>4, <3>1, <3>2
  <2> QED  BY <1>3, <2>1, <2>2, <2>3
<1>5. ASSUME NEW p \in Procs, Loop(p) \/ Crash(p)  PROVE Inv'
  <2>1. TypeOK'  BY <1>5, LoopTypes DEF Loop
  <2>2. hand' \subseteq hand /\ UNCHANGED <<place, rowVars, wire, posted, writes>>
    BY <1>5 DEF Loop, ClaimBegins, ClaimFindsNothing, Restart, Crash, Idle
  <2>3. LockInv'
    <3>1. CASE ClaimBegins(p)  BY <3>1, LocksBegin
    <3>2. CASE ClaimFindsNothing(p) \/ Restart(p)
      BY <2>2, <3>2, LocksFrame DEF ClaimFindsNothing, Restart
    <3>3. CASE Crash(p)  BY <2>2, <3>3, LocksForsaken DEF Crash
    <3> QED  BY <1>5, <3>1, <3>2, <3>3 DEF Loop
  <2> QED  BY <1>3, <2>1, <2>2, <2>3
<1>6. ASSUME NEW x \in hand, Dispatch(x)  PROVE Inv'
  <2>1. TypeOK' /\ TokenInv' /\ ResultInv'
    BY <1>6, DispatchTypes, TokensDispatch, ResultsDispatch
  <2>2. UNCHANGED <<place, rowVars, open>>
    BY <1>6 DEF Dispatch, Refuse, Send, Answered, Rejected, TimesOut, Rest
  <2>3. RowInv' /\ LockInv' /\ QuotaInv'  BY <2>2, RowsFrame, LocksFrame, QuotaRest
  <2> QED  BY <2>1, <2>3
<1>7. ASSUME NEW o \in wire, Deliver(o)  PROVE Inv'
  <2>1. TypeOK' /\ TokenInv' /\ ResultInv'
    BY <1>7, OtherTypes, TokensDeliver, ResultsDeliver
  <2>2. UNCHANGED <<place, rowVars, open>>  BY <1>7 DEF Deliver, Rest
  <2>3. RowInv' /\ LockInv' /\ QuotaInv'  BY <2>2, RowsFrame, LocksFrame, QuotaRest
  <2> QED  BY <2>1, <2>3
<1>8. ASSUME NEW w \in writes, Written(w)  PROVE Inv'
  <2>1. TypeOK' /\ RowInv' /\ ResultInv'
    BY <1>8, OtherTypes, RowsWritten, ResultsWritten
  <2>2. UNCHANGED <<place, waiting, due, count, open, hand, wire, posted>>
    BY <1>8 DEF Written
  <2>3. LockInv' /\ TokenInv' /\ QuotaInv'  BY <2>2, LocksFrame, TokensFrame, QuotaRest
  <2> QED  BY <2>1, <2>3
<1>9. CASE Tick \/ UNCHANGED vars
  <2>1. TypeOK'  BY <1>9, OtherTypes
  <2>2. UNCHANGED <<place, rowVars, open, hand, wire, posted, writes>>
    BY <1>9 DEF Tick, vars
  <2>3. LockInv'  BY <2>2, LocksFrame
  <2> QED  BY <1>3, <2>1, <2>2, <2>3
<1> QED
  BY <1>1, <1>2, <1>4, <1>5, <1>6, <1>7, <1>8, <1>9 DEF Next, Claim

(* Inv is an invariant of the specification. *)
THEOREM Invariance == ASSUME StudioAssumptions, FiresAssumption PROVE Spec => []Inv
<1>1. Init => Inv  BY InitInv
<1>2. Inv /\ [Next]_vars => Inv'  BY NextInv
<1> QED  BY <1>1, <1>2, PTL DEF Spec

-----------------------------------------------------------------------------
(* The tables and the workers keep their types, and no row is claimed more often
   than it has sends (claimed_count <= max_occurrences). *)
THEOREM TypeCorrect == ASSUME StudioAssumptions, FiresAssumption PROVE Spec => []TypeOK
<1>1. Inv => TypeOK  BY DEF Inv
<1> QED  BY <1>1, Invariance, PTL

(* No occurrence is posted twice, and no row more often than it has sends, for
   any number of processes, lost answers, timeouts and restarts. *)
THEOREM PostedAtMostOnce ==
    ASSUME StudioAssumptions, FiresAssumption PROVE Spec => []AtMostOnce
<1>1. ASSUME Inv  PROVE AtMostOnce
  <2> USE DEF Inv
  <2>1. SUFFICES ASSUME NEW o \in Occurrences
        PROVE  posted[o] <= 1 /\ (o[2] > Sends(o[1]) => posted[o] = 0)
    BY DEF AtMostOnce
  <2>2. o[1] \in Rows /\ o[2] \in Nat /\ posted[o] \in Nat
    BY <1>1, BoundsOK DEF TypeOK, Occurrences
  <2>3. posted[o] <= 1 /\ (posted[o] > 0 => o[2] <= count[o[1]])  BY <1>1 DEF TokenInv
  <2>4. count[o[1]] \in Nat /\ count[o[1]] <= Sends(o[1]) /\ Sends(o[1]) \in Nat
    BY <1>1, <2>2, SendsOK, BoundsOK DEF TypeOK
  <2> QED  BY <2>2, <2>3, <2>4
<1> QED  BY <1>1, Invariance, PTL

(* A row that says 'sent' names a message that is in the channel, of its last claim. *)
THEOREM ResultsAreTrue ==
    ASSUME StudioAssumptions, FiresAssumption PROVE Spec => []SentIsPosted
<1>1. Inv => SentIsPosted  BY DEF Inv, ResultInv
<1> QED  BY <1>1, Invariance, PTL

(* A post that was cancelled or given up never reaches the channel. *)
THEOREM StoppedStaysOut ==
    ASSUME StudioAssumptions, FiresAssumption PROVE Spec => []StoppedNeverPosts
<1>1. ASSUME Inv  PROVE StoppedNeverPosts
  <2> USE DEF Inv
  <2>1. SUFFICES ASSUME NEW r \in Posts, status[r] \in {"cancelled", "missed"}
        PROVE  posted[<<r, 1>>] = 0 /\ <<r, 1>> \notin wire
    BY DEF StoppedNeverPosts
  <2>2. count[r] = 0 /\ ~ (1 <= count[r])  BY <1>1, <2>1 DEF RowInv, Rows
  <2>3. <<r, 1>> \in Occurrences  BY <2>1, BoundsOK DEF Occurrences, Rows
  <2>4. posted[<<r, 1>>] \in Nat  BY <1>1, <2>3 DEF TypeOK
  <2>5. ~ (posted[<<r, 1>>] > 0)  BY <1>1, <2>2, <2>3 DEF TokenInv
  <2>6. <<r, 1>> \notin wire  BY <1>1, <2>2 DEF TokenInv
  <2> QED  BY <2>4, <2>5, <2>6
<1> QED  BY <1>1, Invariance, PTL

(* No guild has more campaigns enabled than its quota, whoever inserts at once. *)
THEOREM QuotaKept == ASSUME StudioAssumptions, FiresAssumption PROVE Spec => []QuotaHolds
<1>1. ASSUME Inv  PROVE QuotaHolds
  <2>1. Cardinality(Room) <= Quota  BY <1>1 DEF Inv, QuotaInv, Room
  <2>2. Cardinality(waiting \cap Campaigns) <= Cardinality(Room)
    BY RoomFinite, FS_Subset DEF Room
  <2> QED  BY <2>1, <2>2, RoomFinite, BoundsOK DEF QuotaHolds
<1> QED  BY <1>1, Invariance, PTL

-----------------------------------------------------------------------------
(* No catch-up bursts.  A transaction selected its rows within their windows, or
   found them too late, and their times are still the same when it commits: nobody
   else moves a row that it locked. *)

Timely(t) ==
    /\ \A r \in Held(t) : due[r] <= t.time
    /\ \A r \in t.missed : due[r] + Window(r) < t.time
    /\ \A r \in t.ready : t.time <= due[r] + Window(r)

ClockInv ==
    /\ \A r \in Campaigns : place[r] # "new" => due[r] \in Fires[r]
    /\ \A t \in open : t.time <= now /\ Timely(t)

(* The next time is a later strike. *)
LEMMA NextFireIsNext ==
    ASSUME StudioAssumptions, FiresAssumption, NEW c \in Campaigns, NEW t \in 0..MaxTime
    PROVE  NextFire(c, t) \in Fires[c] /\ NextFire(c, t) > t
<1>1. \E u \in Fires[c] : u > t /\ \A v \in Fires[c] : v > t => u <= v
  BY DEF FiresAssumption
<1> QED  BY <1>1 DEF NextFire

(* A step that leaves the campaigns' times alone. *)
LEMMA ClockFrame ==
    ASSUME TypeOK, ClockInv, UNCHANGED due, now' \in Nat, now <= now', now \in Nat,
           \A r \in Campaigns : place'[r] # "new" => place[r] # "new",
           \A t \in open' : \E u \in open :
               t.time = u.time /\ t.missed = u.missed /\ t.ready = u.ready,
           \A u \in open : u.time \in Nat
    PROVE  ClockInv'
<1>1. \A r \in Campaigns : place'[r] # "new" => due'[r] \in Fires[r]  BY DEF ClockInv
<1>2. \A t \in open' : t.time <= now' /\ Timely(t)'
  BY DEF ClockInv, Timely, Held, Window
<1> QED  BY <1>1, <1>2 DEF ClockInv

(* A campaign is asked for, for a strike of its clock, and no claim has selected it. *)
LEMMA ClockAsk ==
    ASSUME StudioAssumptions, FiresAssumption, TypeOK, RowInv, LockInv, ClockInv,
           NEW r \in Rows, Ask(r)
    PROVE  ClockInv'
<1>1. now \in 0..MaxTime /\ now \in Nat  BY BoundsOK DEF TypeOK
<1>2. /\ UNCHANGED <<waiting, count, open, now>>
      /\ place[r] = "new" /\ \A s \in Rows \ {r} : place'[s] = place[s] /\ due'[s] = due[s]
  BY DEF Ask, Still, TypeOK
<1>3. ASSUME NEW s \in Campaigns, place'[s] # "new"
      PROVE  due'[s] \in Fires[s]
  <2>1. CASE s # r  BY <1>2, <1>3, <2>1 DEF ClockInv, Rows
  <2>2. CASE s = r
    <3>1. due'[s] = NextFire(s, now)  BY <2>2 DEF Ask, TypeOK, StudioAssumptions
    <3> QED  BY <1>1, <3>1, NextFireIsNext
  <2> QED  BY <2>1, <2>2
<1>4. ASSUME NEW t \in open'  PROVE t.time <= now' /\ Timely(t)'
  <2>1. t \in open /\ Held(t) \subseteq waiting  BY <1>2, <1>4 DEF LockInv
  <2>2. r \notin waiting  BY <1>2 DEF RowInv
  <2>3. \A s \in Held(t) : due'[s] = due[s]  BY <1>2, <2>1, <2>2 DEF TypeOK
  <2> QED  BY <1>2, <2>1, <2>3 DEF ClockInv, Timely, Held, Window
<1> QED  BY <1>3, <1>4 DEF ClockInv

(* What a claim selects is due, and what it selects to be sent is not too late. *)
LEMMA ClockBegin ==
    ASSUME StudioAssumptions, TypeOK, ClockInv, NEW p \in Procs, ClaimBegins(p)
    PROVE  ClockInv'
<1>1. PICK late \in Oldest(Late(p), MissBatch), ready \in Oldest(Ready(p), Batch) :
          open' = open \cup {[by |-> p, time |-> now, missed |-> late, ready |-> ready]}
  BY DEF ClaimBegins
<1> DEFINE new == [by |-> p, time |-> now, missed |-> late, ready |-> ready]
<1>2. late \subseteq Late(p) /\ ready \subseteq Ready(p)  BY DEF Oldest
<1>3. \A r \in ready : due[r] <= now /\ now <= due[r] + Window(r)  BY <1>2 DEF Ready
<1>4. \A r \in late : r \in Rows /\ due[r] + Window(r) < now
  BY <1>2 DEF Late, Free, TypeOK
<1>5. now \in Nat /\ \A r \in Rows : due[r] \in Nat /\ Window(r) \in Nat
  BY BoundsOK DEF TypeOK, Window
<1>6. \A r \in late : due[r] <= now  BY <1>4, <1>5
<1>7. UNCHANGED <<now, place, due, count>>  BY DEF ClaimBegins, rowVars, Idle
<1>8. new.missed = late /\ new.ready = ready /\ new.time = now  OBVIOUS
<1>9. \A t \in open' : t \in open \/ t = new  BY <1>1
<1> HIDE DEF new
<1>10. Timely(new)  BY <1>3, <1>4, <1>6, <1>8 DEF Timely, Held
<1>11. \A t \in open' : t.time <= now /\ Timely(t)
  BY <1>5, <1>8, <1>9, <1>10 DEF ClockInv
<1> QED  BY <1>7, <1>11 DEF ClockInv, Timely, Held, Window

(* A commit takes each campaign it selected, and no other, once from a time within its
   window to the next strike, or from a time that is past to one after the claim. *)
LEMMA CommitOnTime ==
    ASSUME StudioAssumptions, FiresAssumption, Inv, ClockInv,
           NEW t \in open, ClaimCommits(t), NEW r \in Campaigns, place[r] = "made"
    PROVE  OnTime(r) /\ due'[r] \in Fires[r]
<1>1. /\ open' = open \ {t} /\ t \in open \ open'
      /\ due'[r] = NextDue(t, r)
      /\ count'[r] = IF r \in t.ready THEN count[r] + 1 ELSE count[r]
  BY DEF ClaimCommits, Rows
<1>2. /\ r \in Rows /\ r \notin Posts /\ Window(r) = CampaignWindow
      /\ due[r] \in Fires[r] /\ Fires[r] \subseteq Nat /\ CampaignWindow \in Nat
  BY BoundsOK DEF ClockInv, Rows, Window, StudioAssumptions
<1>3. /\ now \in Nat /\ now <= MaxTime /\ MaxTime \in Nat /\ t.time \in Nat /\ t.time <= now
      /\ t.missed \cap t.ready = {} /\ Timely(t) /\ count[r] \in Nat
  BY <1>2, BoundsOK DEF Inv, TypeOK, Claims, LockInv, ClockInv
<1>4. CASE r \notin Held(t)
  <2>1. due'[r] = due[r] /\ count'[r] = count[r]  BY <1>1, <1>4 DEF NextDue, Held
  <2> QED  BY <1>2, <2>1 DEF OnTime
<1>5. CASE r \in t.missed
  <2>1. due[r] <= t.time /\ count'[r] = count[r] /\ due'[r] = NextFire(r, t.time)
    BY <1>1, <1>2, <1>3, <1>5 DEF NextDue, Held, Timely
  <2>2. due'[r] \in Fires[r] /\ due'[r] > t.time  BY <1>3, <2>1, NextFireIsNext
  <2>3. due'[r] > due[r]  BY <1>2, <1>3, <2>1, <2>2
  <2> QED  BY <1>1, <1>2, <1>5, <2>1, <2>2, <2>3 DEF OnTime
<1>6. CASE r \in t.ready
  <2>1. /\ due[r] <= t.time /\ t.time <= due[r] + CampaignWindow
        /\ count'[r] = count[r] + 1 /\ due'[r] = NextFire(r, due[r])
    BY <1>1, <1>2, <1>3, <1>6 DEF NextDue, Held, Timely
  <2>2. due[r] \in 0..MaxTime  BY <1>2, <1>3, <2>1
  <2>3. due'[r] \in Fires[r] /\ due'[r] > due[r]  BY <2>1, <2>2, NextFireIsNext
  <2> QED  BY <1>1, <1>2, <1>6, <2>1, <2>3 DEF OnTime
<1> QED  BY <1>4, <1>5, <1>6 DEF Held

LEMMA ClockCommit ==
    ASSUME StudioAssumptions, FiresAssumption, Inv, ClockInv,
           NEW t \in open, ClaimCommits(t)
    PROVE  ClockInv'
<1> USE DEF Inv
<1>1. /\ UNCHANGED <<now, place>> /\ open' = open \ {t}
      /\ \A r \in Rows : due'[r] = NextDue(t, r)
  BY DEF ClaimCommits, Idle
<1>2. ASSUME NEW r \in Campaigns, place'[r] # "new"  PROVE due'[r] \in Fires[r]
  <2>1. due[r] \in Fires[r] /\ r \in Rows  BY <1>1, <1>2 DEF ClockInv, Rows
  <2>2. CASE r \notin Held(t)  BY <1>1, <2>1, <2>2 DEF NextDue, Held
  <2>3. CASE r \in Held(t)
    <3>1. place[r] = "made"  BY <2>1, <2>3 DEF LockInv, RowInv
    <3> QED  BY <3>1, CommitOnTime
  <2> QED  BY <2>2, <2>3
<1>3. ASSUME NEW u \in open'  PROVE u.time <= now' /\ Timely(u)'
  <2>1. u \in open /\ u # t /\ Held(u) \cap Held(t) = {} /\ Held(u) \subseteq Rows
    BY <1>1, <1>3 DEF LockInv, TypeOK
  <2>2. \A r \in Held(u) : due'[r] = due[r]  BY <1>1, <2>1 DEF NextDue, Held
  <2> QED  BY <1>1, <2>1, <2>2 DEF ClockInv, Timely, Held, Window
<1> QED  BY <1>2, <1>3 DEF ClockInv

LEMMA ClockStep ==
    ASSUME StudioAssumptions, FiresAssumption, Inv, ClockInv, [Next]_vars
    PROVE  ClockInv'
<1> USE DEF Inv
<1>1. now \in Nat /\ now <= now /\ \A t \in open : t.time \in Nat  BY BoundsOK DEF TypeOK, Claims
<1>2. ASSUME NEW r \in Rows, Ask(r)  PROVE ClockInv'  BY <1>2, ClockAsk
<1>3. ASSUME NEW p \in Procs, ClaimBegins(p)  PROVE ClockInv'  BY <1>3, ClockBegin
<1>4. ASSUME NEW t \in open, ClaimCommits(t)  PROVE ClockInv'  BY <1>4, ClockCommit
<1>5. ASSUME NEW r \in Rows, Cancel(r) \/ Insert(r)  PROVE ClockInv'
  <2>1. UNCHANGED <<now, due, count, open>>
    BY <1>5 DEF Cancel, Insert, InsertPost, QuotaCounts, InsertCampaign, InsertFails, Arrives,
                Still, rowVars
  <2>2. \A s \in Campaigns : place'[s] # "new" => place[s] # "new"
    BY <1>5 DEF Cancel, Insert, InsertPost, QuotaCounts, InsertCampaign, InsertFails, Arrives,
                TypeOK, Rows
  <2> QED  BY <1>1, <2>1, <2>2, ClockFrame
<1>6. ASSUME UNCHANGED <<now, place, due, count>>, open' \subseteq open  PROVE ClockInv'
  BY <1>1, <1>6, ClockFrame
<1>7. ASSUME NEW p \in Procs, open' = Forsaken(p), UNCHANGED <<now, place, due, count>>
      PROVE  ClockInv'
  <2>1. \A t \in open' : \E u \in open :
            t.time = u.time /\ t.missed = u.missed /\ t.ready = u.ready
    BY <1>7, ForsakenOK DEF TypeOK
  <2> QED  BY <1>1, <1>7, <2>1, ClockFrame
<1>8. ASSUME NEW t \in open, ClaimFails(t) \/ AnswerIsLost(t) \/ RollsBack(t)  PROVE ClockInv'
  <2>1. UNCHANGED <<now, place, due, count>>
    BY <1>8 DEF ClaimFails, AnswerIsLost, RollsBack, Again, Idle, rowVars
  <2>2. CASE ClaimFails(t) \/ RollsBack(t)  BY <1>6, <2>1, <2>2 DEF ClaimFails, RollsBack
  <2>3. CASE AnswerIsLost(t)
    <3>1. t.by \in Procs /\ open' = Forsaken(t.by)  BY <2>3 DEF AnswerIsLost, TypeOK, Claims
    <3> QED  BY <1>7, <2>1, <3>1
  <2> QED  BY <1>8, <2>2, <2>3
<1>9. ASSUME NEW p \in Procs, ClaimFindsNothing(p) \/ Restart(p) \/ Crash(p)  PROVE ClockInv'
  <2>1. UNCHANGED <<now, place, due, count>>
    BY <1>9 DEF ClaimFindsNothing, Restart, Crash, Idle, rowVars
  <2>2. CASE ClaimFindsNothing(p) \/ Restart(p)
    BY <1>6, <2>1, <2>2 DEF ClaimFindsNothing, Restart
  <2>3. CASE Crash(p)  BY <1>7, <2>1, <2>3 DEF Crash
  <2> QED  BY <1>9, <2>2, <2>3
<1>10. ASSUME NEW x \in hand, Dispatch(x)  PROVE ClockInv'
  BY <1>6, <1>10 DEF Dispatch, Refuse, Send, Answered, Rejected, TimesOut, Rest, rowVars
<1>11. ASSUME NEW o \in wire, Deliver(o)  PROVE ClockInv'
  BY <1>6, <1>11 DEF Deliver, Rest, rowVars
<1>12. ASSUME NEW w \in writes, Written(w)  PROVE ClockInv'
  BY <1>6, <1>12 DEF Written
<1>13. CASE Tick
  <2>1. now' = now + 1 /\ UNCHANGED <<place, due, count, open>>  BY <1>13 DEF Tick, rowVars
  <2> QED  BY <1>1, <2>1, ClockFrame
<1>14. CASE UNCHANGED vars  BY <1>6, <1>14 DEF vars, rowVars
<1> QED
  BY <1>2, <1>3, <1>4, <1>5, <1>8, <1>9, <1>10, <1>11, <1>12, <1>13, <1>14
     DEF Next, Staff, Loop, Claim

LEMMA ClockAlways == ASSUME StudioAssumptions, FiresAssumption PROVE Spec => []ClockInv
<1>1. Init => ClockInv  BY DEF Init, ClockInv, Rows
<1>2. Inv /\ ClockInv /\ [Next]_vars => ClockInv'  BY ClockStep
<1> QED  BY <1>1, <1>2, Invariance, PTL DEF Spec

(* A step moves no campaign, or is a commit. *)
LEMMA BurstStep ==
    ASSUME StudioAssumptions, FiresAssumption, Inv, ClockInv, [Next]_vars,
           NEW r \in Campaigns, place[r] = "made"
    PROVE  OnTime(r)
<1>1. ASSUME UNCHANGED <<due, count>>  PROVE OnTime(r)  BY <1>1 DEF OnTime
<1>2. ASSUME NEW s \in Rows, Ask(s)  PROVE OnTime(r)
  <2>1. r # s /\ due'[r] = due[r] /\ count'[r] = count[r]  BY <1>2 DEF Ask, Inv, TypeOK
  <2> QED  BY <2>1 DEF OnTime
<1>3. ASSUME NEW t \in open, ClaimCommits(t)  PROVE OnTime(r)  BY <1>3, CommitOnTime
<1>4. ASSUME NEW s \in Rows, Cancel(s) \/ Insert(s)  PROVE OnTime(r)
  BY <1>1, <1>4 DEF Cancel, Insert, InsertPost, QuotaCounts, InsertCampaign, InsertFails,
                    Arrives, rowVars
<1>5. ASSUME NEW t \in open, ClaimFails(t) \/ AnswerIsLost(t) \/ RollsBack(t)  PROVE OnTime(r)
  BY <1>1, <1>5 DEF ClaimFails, AnswerIsLost, RollsBack, Again, rowVars
<1>6. ASSUME NEW p \in Procs, Loop(p) \/ Crash(p)  PROVE OnTime(r)
  BY <1>1, <1>6 DEF Loop, ClaimBegins, ClaimFindsNothing, Restart, Crash, rowVars
<1>7. ASSUME NEW x \in hand, Dispatch(x)  PROVE OnTime(r)
  BY <1>1, <1>7 DEF Dispatch, Refuse, Send, Answered, Rejected, TimesOut, Rest, rowVars
<1>8. CASE Tick \/ (\E o \in wire : Deliver(o)) \/ (\E w \in writes : Written(w))
  BY <1>1, <1>8 DEF Tick, Deliver, Written, Rest, rowVars
<1>9. CASE UNCHANGED vars  BY <1>1, <1>9 DEF vars, rowVars
<1> QED
  BY <1>2, <1>3, <1>4, <1>5, <1>6, <1>7, <1>8, <1>9 DEF Next, Staff, Claim

(* "No catch-up bursts": no step of any claim takes one strike twice, takes one that is
   past its window, or resumes before the time of the claim that gave others up. *)
THEOREM NeverABurst == ASSUME StudioAssumptions, FiresAssumption PROVE Spec => NoBurst
<1>1. Inv /\ ClockInv /\ [Next]_vars => [\A r \in Campaigns : place[r] = "made" => OnTime(r)]_vars
  BY BurstStep
<1> QED  BY <1>1, Invariance, ClockAlways, PTL DEF Spec, NoBurst

-----------------------------------------------------------------------------
(* EmbedStudio implements StudioPromise. *)

(* What the promise allows a row in a step. *)
Moves(r) ==
    \/ Promise!Same(r) \/ Promise!Ask(r) \/ Promise!Open(r)
    \/ Promise!Stop(r) \/ Promise!Skip(r) \/ Promise!Grant(r)

promised == <<now, Stage, due, count, posted>>

LEMMA PromiseInit == ASSUME Init PROVE Promise!Init
<1>1. Stage = [r \in Rows |-> "new"]  BY DEF Init, Stage
<1> QED  BY <1>1 DEF Init, Promise!Init, Occurrences

(* A row that neither its insert nor its status touches stays where it is. *)
LEMMA StaysPut ==
    ASSUME NEW r \in Rows, r \in waiting' <=> r \in waiting, place'[r] = place[r]
    PROVE  Stage'[r] = Stage[r]
BY DEF Stage

(* A row is asked for, for a later time. *)
LEMMA MovesAsk ==
    ASSUME StudioAssumptions, FiresAssumption, Inv, NEW r \in Rows, Ask(r), NEW s \in Rows
    PROVE  Moves(s)
<1>1. /\ UNCHANGED <<waiting, count>>
      /\ place[r] = "new" /\ place' = [place EXCEPT ![r] = "asked"]
  BY DEF Ask
<1>2. r \notin waiting  BY <1>1 DEF Inv, RowInv
<1>3. PICK t \in IF r \in Posts THEN {u \in now + 1 .. now + Lead : u <= MaxTime}
                                ELSE {NextFire(r, now)} : due' = [due EXCEPT ![r] = t]
  BY DEF Ask
<1>4. t > now
  <2>1. now \in 0..MaxTime /\ now \in Nat /\ Lead \in Nat /\ MaxTime \in Nat
    BY BoundsOK DEF Inv, TypeOK
  <2>2. CASE r \in Posts  BY <1>3, <2>1, <2>2
  <2>3. CASE r \notin Posts
    <3>1. r \in Campaigns /\ t = NextFire(r, now)  BY <1>3, <2>3 DEF Rows
    <3> QED  BY <2>1, <3>1, NextFireIsNext
  <2> QED  BY <2>2, <2>3
<1>5. CASE s # r
  <2>1. place'[s] = place[s] /\ due'[s] = due[s] /\ count'[s] = count[s]
    BY <1>1, <1>3, <1>5 DEF Inv, TypeOK
  <2> QED  BY <1>1, <2>1, StaysPut DEF Moves, Promise!Same
<1>6. CASE s = r
  <2>1. place'[s] = "asked" /\ due'[s] = t /\ count'[s] = count[s]
    BY <1>1, <1>3, <1>6 DEF Inv, TypeOK
  <2>2. Stage[s] = "new" /\ Stage'[s] = "asked"  BY <1>1, <1>2, <1>6, <2>1 DEF Stage
  <2> QED  BY <1>4, <2>1, <2>2 DEF Moves, Promise!Ask
<1> QED  BY <1>5, <1>6

(* An insert arrives, waits or is refused. *)
LEMMA MovesInsert ==
    ASSUME Inv, NEW r \in Rows, Insert(r), NEW s \in Rows  PROVE Moves(s)
<1>1. UNCHANGED <<due, count>> /\ place[r] \in {"asked", "counted"}
  BY DEF Insert, InsertPost, InsertCampaign, Arrives, QuotaCounts, InsertFails, rowVars
<1>2. r \notin waiting /\ Stage[r] = "asked"  BY <1>1 DEF Inv, RowInv, Stage
<1>3. /\ \A u \in Rows \ {r} : place'[u] = place[u]
      /\ \/ place'[r] = "made" /\ waiting' = waiting \cup {r}
         \/ place'[r] \in {"counted", "refused"} /\ waiting' = waiting
  BY DEF Insert, InsertPost, InsertCampaign, Arrives, QuotaCounts, InsertFails, rowVars,
         Inv, TypeOK
<1>4. CASE s # r
  <2>1. Stage'[s] = Stage[s]  BY <1>3, <1>4, StaysPut
  <2> QED  BY <1>1, <2>1 DEF Moves, Promise!Same
<1>5. CASE s = r
  <2>1. Stage'[s] \in {"asked", "open", "over"}  BY <1>3, <1>5 DEF Stage
  <2> QED  BY <1>1, <1>2, <1>5, <2>1
           DEF Moves, Promise!Same, Promise!Open, Promise!Stop
<1> QED  BY <1>4, <1>5

(* A row that is cancelled was open. *)
LEMMA MovesCancel ==
    ASSUME Inv, NEW r \in Rows, Cancel(r), NEW s \in Rows  PROVE Moves(s)
<1>1. UNCHANGED <<place, due, count>> /\ r \in waiting /\ waiting' = waiting \ {r}
  BY DEF Cancel
<1>2. CASE s # r
  <2>1. Stage'[s] = Stage[s]  BY <1>1, <1>2, StaysPut
  <2> QED  BY <1>1, <2>1 DEF Moves, Promise!Same
<1>3. CASE s = r
  <2>1. place[s] = "made"  BY <1>1, <1>3 DEF Inv, RowInv
  <2>2. Stage[s] = "open" /\ Stage'[s] = "over"  BY <1>1, <1>3, <2>1 DEF Stage
  <2> QED  BY <1>1, <2>2 DEF Moves, Promise!Stop
<1> QED  BY <1>2, <1>3

(* The rows a transaction locked are still open when it commits, and their times have
   come or are long past. *)
LEMMA MovesCommit ==
    ASSUME StudioAssumptions, FiresAssumption, Inv, ClockInv,
           NEW t \in open, ClaimCommits(t), NEW r \in Rows
    PROVE  Moves(r)
<1>1. /\ UNCHANGED place
      /\ waiting' = waiting \ ((t.missed \cap Posts) \cup {s \in t.ready : IsLast(s)})
      /\ due'[r] = NextDue(t, r)
      /\ count'[r] = IF r \in t.ready THEN count[r] + 1 ELSE count[r]
  BY DEF ClaimCommits, Idle
<1>2. /\ now \in Nat /\ MaxTime \in Nat /\ now <= MaxTime /\ t.time \in Nat /\ t.time <= now
      /\ t.missed \cap t.ready = {} /\ Held(t) \subseteq waiting
      /\ Timely(t) /\ due[r] \in Nat /\ count[r] \in Nat /\ Window(r) \in Nat
  BY BoundsOK DEF Inv, TypeOK, Claims, LockInv, ClockInv, Window
<1>3. CASE r \notin Held(t)
  <2>1. due'[r] = due[r] /\ count'[r] = count[r]  BY <1>1, <1>3 DEF NextDue, Held
  <2>2. Stage'[r] = Stage[r]  BY <1>1, <1>3, StaysPut DEF Held
  <2> QED  BY <2>1, <2>2 DEF Moves, Promise!Same
<1>4. ASSUME r \in Held(t)
      PROVE  r \in waiting /\ place[r] = "made" /\ Stage[r] = "open"
             /\ (r \notin waiting' => Stage'[r] = "over")
             /\ (r \in waiting' => Stage'[r] = "open")
  <2>1. r \in waiting  BY <1>2, <1>4
  <2>2. place[r] = "made"  BY <2>1 DEF Inv, RowInv
  <2> QED  BY <1>1, <2>1, <2>2 DEF Stage
<1>5. ASSUME r \notin Posts, NEW u \in 0..MaxTime  PROVE NextFire(r, u) > u
  <2>1. r \in Campaigns  BY <1>5 DEF Rows
  <2> QED  BY <2>1, NextFireIsNext
<1>6. CASE r \in t.missed
  <2>1. r \in Held(t) /\ r \notin t.ready /\ due[r] + Window(r) < t.time
    BY <1>2, <1>6 DEF Held, Timely
  <2>2. count'[r] = count[r]  BY <1>1, <2>1
  <2>3. CASE r \in Posts
    <3>1. r \notin waiting' /\ due'[r] = due[r]  BY <1>1, <1>6, <2>3 DEF NextDue
    <3> QED  BY <1>4, <2>1, <2>2, <3>1 DEF Moves, Promise!Stop
  <2>4. CASE r \notin Posts
    <3>1. r \in waiting' /\ due'[r] = NextFire(r, t.time)
      BY <1>1, <1>4, <1>6, <2>1, <2>4 DEF NextDue
    <3>2. NextFire(r, t.time) > t.time  BY <1>2, <1>5, <2>4
    <3>3. NextFire(r, t.time) \in Nat
      <4>1. r \in Campaigns /\ t.time \in 0..MaxTime  BY <1>2, <2>4 DEF Rows
      <4>2. NextFire(r, t.time) \in Fires[r]  BY <4>1, NextFireIsNext
      <4> QED  BY <4>1, <4>2 DEF StudioAssumptions
    <3>4. due'[r] > due[r] /\ due[r] + Window(r) < now  BY <1>2, <2>1, <3>1, <3>2, <3>3
    <3> QED  BY <1>4, <2>1, <2>2, <3>1, <3>4 DEF Moves, Promise!Skip
  <2> QED  BY <2>3, <2>4
<1>7. CASE r \in t.ready
  <2>1. r \in Held(t) /\ r \notin t.missed /\ due[r] <= now
    <3>1. r \in Held(t) /\ r \notin t.missed  BY <1>2, <1>7 DEF Held
    <3> QED  BY <1>2, <3>1 DEF Timely
  <2>2. count'[r] = count[r] + 1 /\ count[r] < Sends(r) /\ Sends(r) \in Nat
    BY <1>1, <1>4, <1>7, <2>1, SendsOK, BoundsOK DEF Inv, RowInv
  <2>3. r \in waiting' <=> ~ (count'[r] = Sends(r))
    BY <1>1, <1>2, <1>4, <1>7, <2>1, <2>2 DEF IsLast
  <2>4. ASSUME r \in waiting'  PROVE due'[r] > due[r]
    <3>1. r \notin Posts  BY <1>2, <2>2, <2>3, <2>4 DEF Sends
    <3>2. due'[r] = NextFire(r, due[r])  BY <1>1, <1>7, <2>1, <3>1 DEF NextDue, Held
    <3> QED  BY <1>2, <1>5, <2>1, <3>1, <3>2
  <2>5. Stage'[r] = IF count'[r] = Sends(r) THEN "over" ELSE "open"
    BY <1>4, <2>1, <2>3
  <2>6. Stage'[r] = "open" => r \in waiting'  BY <1>4, <2>1
  <2> QED  BY <1>4, <2>1, <2>2, <2>4, <2>5, <2>6 DEF Moves, Promise!Grant
<1> QED  BY <1>3, <1>6, <1>7 DEF Held

(* Every step is one of the promise's, or none. *)
LEMMA PromiseStep ==
    ASSUME StudioAssumptions, FiresAssumption, Inv, ClockInv, [Next]_vars
    PROVE  [Promise!Next]_promised
<1>1. ASSUME NEW r \in Rows, Staff(r) \/ Insert(r)  PROVE Promise!Next
  <2>1. UNCHANGED <<now, posted>>
    BY <1>1 DEF Staff, Insert, Ask, Cancel, InsertPost, InsertCampaign, Arrives, QuotaCounts,
                InsertFails, Still, discord
  <2>2. \A s \in Rows : Moves(s)
    BY <1>1, MovesAsk, MovesInsert, MovesCancel DEF Staff
  <2> QED  BY <2>1, <2>2 DEF Moves, Promise!Next, Promise!Decide
<1>2. ASSUME NEW t \in open, ClaimCommits(t)  PROVE Promise!Next
  <2>1. UNCHANGED <<now, posted>>  BY <1>2 DEF ClaimCommits, Idle, discord
  <2>2. \A r \in Rows : Moves(r)  BY <1>2, MovesCommit
  <2> QED  BY <2>1, <2>2 DEF Moves, Promise!Next, Promise!Decide
<1>3. ASSUME NEW o \in wire, Deliver(o)  PROVE Promise!Next
  <2>1. PICK r \in Rows, n \in 1..MaxSends : o = <<r, n>>
    BY DEF Inv, TypeOK, Occurrences
  <2>2. n <= count[r] /\ posted[o] = 0  BY <2>1 DEF Inv, TokenInv
  <2>3. o \in Occurrences /\ posted' = [posted EXCEPT ![o] = @ + 1]
    BY <1>3 DEF Deliver, Inv, TypeOK
  <2>4. posted' = [posted EXCEPT ![<<r, n>>] = 1]
    BY <2>1, <2>2, <2>3 DEF Inv, TypeOK
  <2>5. UNCHANGED <<now, Stage, due, count>>
    BY <1>3 DEF Deliver, Rest, rowVars, Stage
  <2> QED  BY <2>1, <2>2, <2>4, <2>5 DEF Promise!Next, Promise!Post
<1>4. CASE Tick
  <2>1. now' = now + 1 /\ UNCHANGED <<Stage, due, count, posted>>
    BY <1>4 DEF Tick, rowVars, discord, Stage
  <2> QED  BY <2>1 DEF Promise!Next, Promise!Pass
<1>5. ASSUME UNCHANGED <<now, place, waiting, due, count, posted>>  PROVE UNCHANGED promised
  BY <1>5 DEF promised, Stage
<1>6. ASSUME NEW p \in Procs, Loop(p) \/ Crash(p)  PROVE UNCHANGED promised
  BY <1>5, <1>6 DEF Loop, ClaimBegins, ClaimFindsNothing, Restart, Crash, Idle, rowVars, discord
<1>7. ASSUME NEW t \in open, ClaimFails(t) \/ AnswerIsLost(t) \/ RollsBack(t)
      PROVE  UNCHANGED promised
  BY <1>5, <1>7 DEF ClaimFails, AnswerIsLost, RollsBack, Again, Idle, rowVars, discord
<1>8. ASSUME NEW x \in hand, Dispatch(x)  PROVE UNCHANGED promised
  BY <1>5, <1>8 DEF Dispatch, Refuse, Send, Answered, Rejected, TimesOut, Rest, rowVars, discord
<1>9. ASSUME NEW w \in writes, Written(w)  PROVE UNCHANGED promised
  BY <1>5, <1>9 DEF Written, discord
<1>10. CASE UNCHANGED vars
  BY <1>5, <1>10 DEF vars, rowVars, discord
<1> QED
  BY <1>1, <1>2, <1>3, <1>4, <1>6, <1>7, <1>8, <1>9, <1>10 DEF Next, Claim

(* Nothing is posted before its time or twice; a row that was cancelled or given up, or
   has had its sends, gets no more of them, whatever claim was on its way; a time is
   skipped only when it is too late. *)
THEOREM PromiseImplemented ==
    ASSUME StudioAssumptions, FiresAssumption PROVE Spec => PromiseKept
<1>1. Init => Promise!Init  BY PromiseInit
<1>2. Inv /\ ClockInv /\ [Next]_vars => [Promise!Next]_promised  BY PromiseStep
<1> QED
  BY <1>1, <1>2, Invariance, ClockAlways, PTL
     DEF Spec, PromiseKept, Promise!Spec, promised
=============================================================================
