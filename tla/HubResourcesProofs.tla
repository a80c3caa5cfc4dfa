------------------------- MODULE HubResourcesProofs -------------------------
(***************************************************************************)
(* HubResources keeps its type invariant, and CleanedLeavesNothing,        *)
(* RoomsAreFound and DeletedIsGone, for all rooms and all bounds.          *)
(*                                                                         *)
(* None of the three is inductive.  A room is safe because of who holds    *)
(* it: RowInv ties the row to the room, ProvInv says what provisioning     *)
(* still owes the room it is at, TaskInv and BootInv bind the rows the     *)
(* cleanup and the startup pass have copied to the rows as they are now    *)
(* (what was there when listed is there when used), and CleanInv says that *)
(* a cleanup without a failure has either dealt with a room or still has   *)
(* it before it, unless the room was planned after the end.                *)
(***************************************************************************)
EXTENDS HubResources, TLAPS

(* provision_session may yet plan r. *)
Ahead(r) ==
    \/ state = "none" \/ prov[1] = "panel"
    \/ prov[1] \in {"plan", "make", "keep"} /\ r \notin {prov[2], "thread"}

(* There is no row, or the room is not open to anybody. *)
Unplanned(r) == rec[r] = "none"
Settled(r) == Unplanned(r) \/ disc[r] \in {"archived", "gone"}
Cleaning == task[1] \in {"clean", "mark"}

(* The row and the room. *)
RowInv(r) ==
    /\ r \notin known => rec[r] \in {"none", "planned", "unresolved", "failed"}
    /\ Unplanned(r) => disc[r] = "absent" /\ r \notin known
    /\ r \in known => disc[r] # "absent"
    /\ rec[r] = "deleted" => disc[r] = "gone"

(* Where provision_session is tells what was done. *)
ProvInv(r) ==
    /\ Ahead(r) \/ (prov[1] = "plan" /\ prov[2] = r) => Unplanned(r)
    /\ prov[1] = "make" /\ prov[2] = r => ~ Unplanned(r) /\ disc[r] = "absent"
    /\ prov[1] = "keep" /\ prov[2] = r => ~ Unplanned(r) /\ disc[r] # "absent"

(* What the cleanup has listed, and what it is about to write. *)
TaskInv(r) ==
    /\ \A id \in Ids : <<r, id>> \in todo => ~ Unplanned(r) /\ (id = "id" => r \in known)
    /\ task[1] = "mark" /\ task[2] = r => r \in known /\ (task[3] = "deleted" => disc[r] = "gone")

(* The same of the startup pass. *)
BootInv(r) ==
    /\ \A row \in due : row[1] = r => ~ Unplanned(r) /\ (row[3] = "id" => r \in known)
    /\ boot[1] = "write" /\ boot[2] = r =>
          /\ ~ Unplanned(r)
          /\ boot[3] \in {"active", "deleted"} => r \in known
          /\ boot[3] = "found" => disc[r] # "absent"
          /\ boot[3] = "deleted" => disc[r] = "gone"

(* A cleanup without failures leaves no room behind. *)
CleanInv(r) ==
    r \notin late =>
        /\ state = "cleaned" => Settled(r)
        /\ Cleaning /\ ~ failed => Settled(r) \/ \E id \in Ids : <<r, id>> \in todo

(* The inductive invariant. *)
Inv ==
    /\ TypeOK
    /\ \A r \in Rooms : RowInv(r) /\ ProvInv(r) /\ TaskInv(r) /\ BootInv(r) /\ CleanInv(r)
    /\ Cleaning => state \in Over
    /\ state = "none" => prov[1] = "off"

-----------------------------------------------------------------------------
(* The next room of provision_session is none of those it is done with. *)
LEMMA FollowingOK ==
    ASSUME NEW done, NEW p \in Following(done)
    PROVE  p \in Provs /\ p[1] \in {"publish", "plan"} /\ (p[1] = "plan" => p[2] \in Rooms \ done)
<1>1. CASE p = Step("publish")  BY <1>1 DEF Step, Provs
<1>2. ASSUME NEW r \in Rooms \ done, p = <<"plan", r, "-">>
      PROVE  p \in Provs /\ p[1] = "plan" /\ p[2] = r
  BY <1>2 DEF Provs
<1> QED  BY <1>1, <1>2 DEF Following

(* cleanup_session_now lists every row that is not deleted, with its id. *)
LEMMA ListedOK ==
    /\ Listed \subseteq Rooms \X Ids
    /\ \A r, id : <<r, id>> \in Listed =>
          r \in Rooms /\ rec[r] \notin {"none", "deleted"} /\ (id = "id" <=> r \in known)
    /\ \A r \in Rooms : rec[r] \notin {"none", "deleted"} => \E id \in Ids : <<r, id>> \in Listed
<1>1. \A r : IdOf(r) \in Ids /\ (IdOf(r) = "id" <=> r \in known)  BY DEF IdOf, Ids
<1> QED  BY <1>1 DEF Listed

(* list_recovery_resources lists rows that exist, with their ids. *)
LEMMA DueOK ==
    /\ Due \subseteq Rooms \X Recovery \X Ids
    /\ \A row \in Due : rec[row[1]] # "none" /\ (row[3] = "id" <=> row[1] \in known)
<1>1. \A r : IdOf(r) \in Ids /\ (IdOf(r) = "id" <=> r \in known)  BY DEF IdOf, Ids
<1> QED  BY <1>1 DEF Due, Recovery

(* A failure stays within the bound. *)
LEMMA FaultOK ==
    ASSUME ResourceAssumptions, TypeOK, Fault
    PROVE  up' \in BOOLEAN /\ faults' \in 0..MaxFaults /\ crashes' \in 0..MaxCrashes
<1>1. up \in BOOLEAN /\ faults \in 0..MaxFaults /\ crashes \in 0..MaxCrashes  BY DEF TypeOK
<1>2. MaxFaults \in Nat  BY DEF ResourceAssumptions
<1> QED  BY <1>1, <1>2 DEF Fault

(* A step that leaves the rooms and the rows in hand alone, or lets go of them. *)
QuietStep ==
    /\ UNCHANGED rooms /\ todo' \subseteq todo /\ due' \subseteq due
    /\ prov' = prov \/ prov'[1] \notin {"panel", "plan", "make", "keep"}
    /\ \/ UNCHANGED runner
       \/ task'[1] \notin {"clean", "mark"}
    /\ boot' = boot \/ boot'[1] # "write"
    /\ UNCHANGED state \/ state' \notin {"none", "cleaned"}
    /\ state \in Over => state' \in Over
    /\ state' = "none" => prov'[1] = "off"

(* Such a step keeps the invariant, if it keeps the types. *)
LEMMA Quiet == ASSUME Inv, TypeOK', QuietStep PROVE Inv'
<1> USE DEF QuietStep, rooms, runner
<1>1. ASSUME NEW q \in Rooms
      PROVE  RowInv(q)' /\ ProvInv(q)' /\ TaskInv(q)' /\ BootInv(q)' /\ CleanInv(q)'
  <2>0. RowInv(q) /\ ProvInv(q) /\ TaskInv(q) /\ BootInv(q) /\ CleanInv(q)  BY DEF Inv
  <2> USE DEF Unplanned, Ahead, Settled, Cleaning
  <2>1. RowInv(q)'  BY <2>0 DEF RowInv
  <2>2. ProvInv(q)'  BY <2>0 DEF ProvInv, Inv
  <2>3. TaskInv(q)'  BY <2>0 DEF TaskInv
  <2>4. BootInv(q)'  BY <2>0 DEF BootInv
  <2>5. CleanInv(q)'  BY <2>0 DEF CleanInv
  <2> QED  BY <2>1, <2>2, <2>3, <2>4, <2>5
<1> QED  BY <1>1 DEF Inv, Cleaning

(* Create keeps the invariant. *)
LEMMA CreateKeeps == ASSUME ResourceAssumptions, Inv, Create PROVE Inv'
<1> USE DEF session, rooms, runner, starter, world, Step, Off, At, AtRoom
<1>0. TypeOK /\ rec \in [Rooms -> Recs] /\ disc \in [Rooms -> Discs]  BY DEF Inv, TypeOK
<1>1. TypeOK'
  <2>1. prov' \in Provs  BY <1>0 DEF TypeOK, Provs, Create
  <2>2. state' \in {"none", "creating", "live"} \cup Over
    BY <1>0 DEF TypeOK, Finals, Over, Endable, Create
  <2>3. present' \in BOOLEAN /\ failed' \in BOOLEAN /\ old' \in BOOLEAN
    BY <1>0 DEF TypeOK, Create
  <2> QED  BY <1>0, <2>1, <2>2, <2>3 DEF TypeOK, Create
<1>2. ASSUME NEW q \in Rooms
      PROVE  RowInv(q)' /\ ProvInv(q)' /\ TaskInv(q)' /\ BootInv(q)' /\ CleanInv(q)'
  <2>0. RowInv(q) /\ ProvInv(q) /\ TaskInv(q) /\ BootInv(q) /\ CleanInv(q)  BY DEF Inv
  <2> USE DEF Unplanned
  <2>1. RowInv(q)'  BY <1>0, <2>0 DEF RowInv, ProvInv, TaskInv, BootInv, Ahead, Recovery, Create
  <2>2. ProvInv(q)'  BY <1>0, <2>0 DEF ProvInv, RowInv, TaskInv, BootInv, Ahead, Create
  <2>3. TaskInv(q)'  BY <1>0, <2>0 DEF TaskInv, RowInv, Create
  <2>4. BootInv(q)'  BY <1>0, <2>0 DEF BootInv, RowInv, Create
  <2>5. CleanInv(q)'
    BY <1>0, <2>0 DEF CleanInv, Settled, Cleaning, RowInv, TaskInv, BootInv, Create
  <2> QED  BY <2>1, <2>2, <2>3, <2>4, <2>5
<1>3. (Cleaning => state \in Over)' /\ (state = "none" => prov[1] = "off")'
  BY <1>0 DEF Inv, Cleaning, Over, Finals, Create
<1> QED  BY <1>1, <1>2, <1>3 DEF Inv

(* SendPanel keeps the invariant. *)
LEMMA SendPanelKeeps == ASSUME ResourceAssumptions, Inv, SendPanel PROVE Inv'
<1> USE DEF session, rooms, runner, starter, world, Step, Off, At, AtRoom
<1>0. TypeOK /\ rec \in [Rooms -> Recs] /\ disc \in [Rooms -> Discs]  BY DEF Inv, TypeOK
<1>1. TypeOK'
  <2>1. prov' \in Provs  BY <1>0, FollowingOK DEF TypeOK, SendPanel
  <2> QED  BY <1>0, <2>1 DEF TypeOK, SendPanel
<1>2. ASSUME NEW q \in Rooms
      PROVE  RowInv(q)' /\ ProvInv(q)' /\ TaskInv(q)' /\ BootInv(q)' /\ CleanInv(q)'
  <2>0. RowInv(q) /\ ProvInv(q) /\ TaskInv(q) /\ BootInv(q) /\ CleanInv(q)  BY DEF Inv
  <2> USE DEF Unplanned
  <2>1. RowInv(q)'
    BY <1>0, <2>0 DEF RowInv, ProvInv, TaskInv, BootInv, Ahead, Recovery, SendPanel
  <2>2. ProvInv(q)'
    BY <1>0, <2>0, FollowingOK DEF ProvInv, RowInv, TaskInv, BootInv, Ahead, SendPanel
  <2>3. TaskInv(q)'  BY <1>0, <2>0 DEF TaskInv, RowInv, SendPanel
  <2>4. BootInv(q)'  BY <1>0, <2>0 DEF BootInv, RowInv, SendPanel
  <2>5. CleanInv(q)'
    BY <1>0, <2>0 DEF CleanInv, Settled, Cleaning, RowInv, TaskInv, BootInv, SendPanel
  <2> QED  BY <2>1, <2>2, <2>3, <2>4, <2>5
<1>3. (Cleaning => state \in Over)' /\ (state = "none" => prov[1] = "off")'
  BY <1>0, FollowingOK DEF Inv, Cleaning, Over, Finals, SendPanel
<1> QED  BY <1>1, <1>2, <1>3 DEF Inv

(* Plan keeps the invariant. *)
LEMMA PlanKeeps == ASSUME ResourceAssumptions, Inv, NEW r \in Rooms, Plan(r) PROVE Inv'
<1> USE DEF session, rooms, runner, starter, world, Step, Off, At, AtRoom
<1>0. TypeOK /\ rec \in [Rooms -> Recs] /\ disc \in [Rooms -> Discs]  BY DEF Inv, TypeOK
<1>1. TypeOK'
  <2>1. prov' \in Provs  BY <1>0 DEF TypeOK, Provs, Plan
  <2>2. rec' \in [Rooms -> Recs] /\ disc' \in [Rooms -> Discs]
    BY <1>0 DEF TypeOK, Recs, Recovery, Discs, Plan
  <2> QED  BY <1>0, <2>1, <2>2 DEF TypeOK, Plan
<1>2. ASSUME NEW q \in Rooms
      PROVE  RowInv(q)' /\ ProvInv(q)' /\ TaskInv(q)' /\ BootInv(q)' /\ CleanInv(q)'
  <2>0. RowInv(q) /\ ProvInv(q) /\ TaskInv(q) /\ BootInv(q) /\ CleanInv(q)  BY DEF Inv
  <2> USE DEF Unplanned
  <2>r. RowInv(r) /\ ProvInv(r) /\ TaskInv(r) /\ BootInv(r) /\ CleanInv(r)  BY DEF Inv
  <2>a. Unplanned(r) /\ disc[r] = "absent" /\ state # "none"
    BY <2>r DEF Plan, Inv, ProvInv, RowInv
  <2>b. rec'[q] = IF q = r THEN "planned" ELSE rec[q]  BY <1>0 DEF Plan
  <2>1. RowInv(q)'  BY <1>0, <2>0 DEF RowInv, ProvInv, TaskInv, BootInv, Ahead, Recovery, Plan
  <2>2. ProvInv(q)'  BY <1>0, <2>0, <2>a, <2>b DEF Plan, ProvInv, Ahead
  <2>3. TaskInv(q)'  BY <1>0, <2>0 DEF TaskInv, RowInv, Plan
  <2>4. BootInv(q)'  BY <1>0, <2>0 DEF BootInv, RowInv, Plan
  <2>5. CleanInv(q)'
    <3>1. CASE q = r /\ state \in Over  BY <3>1 DEF Plan, CleanInv
    <3>2. CASE q = r /\ state \notin Over
      <4>1. state' # "cleaned" /\ ~ Cleaning'  BY <3>2 DEF Plan, Inv, Over, Finals, Cleaning
      <4> QED  BY <4>1 DEF CleanInv
    <3>3. CASE q # r
      <4>1. rec'[q] = rec[q] /\ UNCHANGED <<disc, state, task, todo,
         failed>> /\ late \subseteq late'
        BY <3>3, <2>b DEF Plan
      <4> QED  BY <2>0, <4>1 DEF CleanInv, Settled, Cleaning
    <3> QED  BY <3>1, <3>2, <3>3
  <2> QED  BY <2>1, <2>2, <2>3, <2>4, <2>5
<1>3. (Cleaning => state \in Over)' /\ (state = "none" => prov[1] = "off")'
  BY <1>0 DEF Inv, Cleaning, Over, Finals, Plan
<1> QED  BY <1>1, <1>2, <1>3 DEF Inv

(* Make keeps the invariant. *)
LEMMA MakeKeeps == ASSUME ResourceAssumptions, Inv, NEW r \in Rooms, Make(r) PROVE Inv'
<1> USE DEF session, rooms, runner, starter, world, Step, Off, At, AtRoom
<1>0. TypeOK /\ rec \in [Rooms -> Recs] /\ disc \in [Rooms -> Discs]  BY DEF Inv, TypeOK
<1>1. TypeOK'
  <2>1. prov' \in Provs  BY <1>0 DEF TypeOK, Provs, Make
  <2>2. rec' \in [Rooms -> Recs] /\ disc' \in [Rooms -> Discs]
    BY <1>0 DEF TypeOK, Recs, Recovery, Discs, Make
  <2> QED  BY <1>0, <2>1, <2>2 DEF TypeOK, Make
<1>2. ASSUME NEW q \in Rooms
      PROVE  RowInv(q)' /\ ProvInv(q)' /\ TaskInv(q)' /\ BootInv(q)' /\ CleanInv(q)'
  <2>0. RowInv(q) /\ ProvInv(q) /\ TaskInv(q) /\ BootInv(q) /\ CleanInv(q)  BY DEF Inv
  <2> USE DEF Unplanned
  <2>r. RowInv(r) /\ ProvInv(r) /\ TaskInv(r) /\ BootInv(r) /\ CleanInv(r)  BY DEF Inv
  <2>a. ~ Unplanned(r) /\ disc[r] = "absent" /\ r \notin known
    BY <2>r DEF Make, ProvInv, RowInv
  <2>b. disc'[q] = IF q = r THEN "there" ELSE disc[q]  BY <1>0 DEF Make
  <2>1. RowInv(q)'  BY <1>0, <2>0 DEF RowInv, ProvInv, TaskInv, BootInv, Ahead, Recovery, Make
  <2>2. ProvInv(q)'  BY <1>0, <2>0 DEF ProvInv, RowInv, TaskInv, BootInv, Ahead, Make
  <2>3. TaskInv(q)'  BY <2>0, <2>a, <2>b DEF TaskInv, Make
  <2>4. BootInv(q)'  BY <2>0, <2>a, <2>b DEF BootInv, Make
  <2>5. CleanInv(q)'  BY <1>0, <2>0, <2>a, <2>b DEF CleanInv, Settled, Cleaning, Make
  <2> QED  BY <2>1, <2>2, <2>3, <2>4, <2>5
<1>3. (Cleaning => state \in Over)' /\ (state = "none" => prov[1] = "off")'
  BY <1>0 DEF Inv, Cleaning, Over, Finals, Make
<1> QED  BY <1>1, <1>2, <1>3 DEF Inv

(* Keep keeps the invariant. *)
LEMMA KeepKeeps == ASSUME ResourceAssumptions, Inv, NEW r \in Rooms, Keep(r) PROVE Inv'
<1> USE DEF session, rooms, runner, starter, world, Step, Off, At, AtRoom
<1>0. TypeOK /\ rec \in [Rooms -> Recs] /\ disc \in [Rooms -> Discs]  BY DEF Inv, TypeOK
<1>1. TypeOK'
  <2>1. prov' \in Provs  BY <1>0, FollowingOK DEF TypeOK, Keep
  <2>2. rec' \in [Rooms -> Recs] /\ disc' \in [Rooms -> Discs]
    BY <1>0 DEF TypeOK, Recs, Recovery, Discs, Keep
  <2> QED  BY <1>0, <2>1, <2>2 DEF TypeOK, Keep
<1>2. ASSUME NEW q \in Rooms
      PROVE  RowInv(q)' /\ ProvInv(q)' /\ TaskInv(q)' /\ BootInv(q)' /\ CleanInv(q)'
  <2>0. RowInv(q) /\ ProvInv(q) /\ TaskInv(q) /\ BootInv(q) /\ CleanInv(q)  BY DEF Inv
  <2> USE DEF Unplanned
  <2>r. RowInv(r) /\ ProvInv(r) /\ TaskInv(r) /\ BootInv(r) /\ CleanInv(r)  BY DEF Inv
  <2>a. ~ Unplanned(r)  BY <2>r DEF Keep, ProvInv
  <2>b. rec'[q] = IF q = r THEN "active" ELSE rec[q]  BY <1>0 DEF Keep
  <2>1. RowInv(q)'  BY <1>0, <2>0 DEF RowInv, ProvInv, TaskInv, BootInv, Ahead, Recovery, Keep
  <2>2. ProvInv(q)'
    <3>1. state' # "none" /\ prov[2] = r /\ prov[1] = "keep"  BY DEF Keep, Inv
    <3>2. prov'[1] \in {"publish",
       "plan"} /\ (prov'[1] = "plan" => prov'[2] = "voice" /\ r = "thread")
      <4>1. prov' \in Following({r, "thread"})  BY DEF Keep
      <4>2. /\ prov'[1] \in {"publish", "plan"}
            /\ prov'[1] = "plan" => prov'[2] \in Rooms \ {r, "thread"}
        BY <4>1, FollowingOK
      <4> QED  BY <4>2, ResourceAssumptions DEF ResourceAssumptions
    <3>3. q # "thread" => q = "voice"  BY ResourceAssumptions DEF ResourceAssumptions
    <3> QED  BY <2>0, <2>b, <3>1, <3>2, <3>3 DEF ProvInv, Ahead
  <2>3. TaskInv(q)'  BY <1>0, <2>0 DEF TaskInv, RowInv, Keep
  <2>4. BootInv(q)'  BY <1>0, <2>0 DEF BootInv, RowInv, Keep
  <2>5. CleanInv(q)'  BY <1>0, <2>0, <2>a, <2>b DEF CleanInv, Settled, Cleaning, Keep
  <2> QED  BY <2>1, <2>2, <2>3, <2>4, <2>5
<1>3. (Cleaning => state \in Over)' /\ (state = "none" => prov[1] = "off")'
  BY <1>0, FollowingOK DEF Inv, Cleaning, Over, Finals, Keep
<1> QED  BY <1>1, <1>2, <1>3 DEF Inv

(* Publish keeps the invariant. *)
LEMMA PublishKeeps == ASSUME ResourceAssumptions, Inv, Publish PROVE Inv'
<1> USE DEF session, rooms, runner, starter, world, Step, Off, At, AtRoom
<1>0. TypeOK /\ (Cleaning => state \in Over) /\ (state = "none" => prov[1] = "off")  BY DEF Inv
<1>1. TypeOK'
  <2>1. prov' \in Provs  BY <1>0 DEF TypeOK, Provs, Publish
  <2>2. state' \in {"none", "creating", "live"} \cup Over
    BY <1>0 DEF TypeOK, Finals, Over, Endable, Publish
  <2> QED  BY <1>0, <2>1, <2>2 DEF TypeOK, Publish
<1>2. /\ UNCHANGED rooms /\ todo' \subseteq todo /\ due' \subseteq due
      /\ prov' = prov \/ prov'[1] \notin {"panel", "plan", "make", "keep"}
      /\ boot' = boot \/ boot'[1] # "write"
  BY <1>0 DEF Publish
<1>3. UNCHANGED runner \/ task'[1] \notin {"clean", "mark"}  BY <1>0 DEF TypeOK, Publish
<1>4. /\ UNCHANGED state \/ state' \notin {"none", "cleaned"}
      /\ state \in Over => state' \in Over
      /\ state' = "none" => prov'[1] = "off"
  BY <1>0 DEF Publish, Cleaning, Endable, Over, Finals
<1> QED  BY <1>1, <1>2, <1>3, <1>4, Quiet DEF QuietStep

(* RoomFails keeps the invariant. *)
LEMMA RoomFailsKeeps == ASSUME ResourceAssumptions, Inv, NEW r \in Rooms, RoomFails(r) PROVE Inv'
<1> USE DEF session, rooms, runner, starter, world, Step, Off, At, AtRoom, Fault
<1>0. TypeOK /\ rec \in [Rooms -> Recs] /\ disc \in [Rooms -> Discs]  BY DEF Inv, TypeOK
<1>1. TypeOK'
  <2>1. prov' \in Provs  BY <1>0, FollowingOK DEF TypeOK, RoomFails
  <2>2. rec' \in [Rooms -> Recs] /\ disc' \in [Rooms -> Discs]
    BY <1>0 DEF TypeOK, Recs, Recovery, Discs, RoomFails
  <2>3. up' \in BOOLEAN /\ faults' \in 0..MaxFaults /\ crashes' \in 0..MaxCrashes
    BY <1>0, FaultOK DEF RoomFails
  <2> QED  BY <1>0, <2>1, <2>2, <2>3 DEF TypeOK, RoomFails
<1>2. ASSUME NEW q \in Rooms
      PROVE  RowInv(q)' /\ ProvInv(q)' /\ TaskInv(q)' /\ BootInv(q)' /\ CleanInv(q)'
  <2>0. RowInv(q) /\ ProvInv(q) /\ TaskInv(q) /\ BootInv(q) /\ CleanInv(q)  BY DEF Inv
  <2> USE DEF Unplanned
  <2>r. RowInv(r) /\ ProvInv(r) /\ TaskInv(r) /\ BootInv(r) /\ CleanInv(r)  BY DEF Inv
  <2>a. prov[1] = "make" => ~ Unplanned(r) /\ disc[r] = "absent" /\ r \notin known
    BY <2>r DEF RoomFails, ProvInv, RowInv
  <2>b. prov[1] # "make" => rec' = rec /\ disc' = disc  BY DEF RoomFails
  <2>c. ASSUME prov[1] = "make"
        PROVE  /\ q # r => rec'[q] = rec[q] /\ disc'[q] = disc[q]
               /\ rec'[r] \in {"failed", "unresolved"}
    <3>1. /\ disc' \in {disc, [disc EXCEPT ![r] = "there"]}
          /\ \E st \in {"failed", "unresolved"} : rec' = [rec EXCEPT ![r] = st]
      BY <2>c DEF RoomFails
    <3>2. q # r => disc'[q] = disc[q]  BY <1>0, <3>1
    <3>3. (q # r => rec'[q] = rec[q]) /\ rec'[r] \in {"failed", "unresolved"}  BY <1>0, <3>1
    <3> QED  BY <3>2, <3>3
  <2>d. Unplanned(q)' <=> Unplanned(q)  BY <2>a, <2>b, <2>c
  <2>e. disc'[q] = disc[q] \/ (disc[q] = "absent" /\ q \notin known /\ ~ Unplanned(q))
    <3>1. CASE prov[1] = "make" /\ q = r  BY <2>a, <3>1
    <3>2. CASE prov[1] = "make" /\ q # r  BY <2>c, <3>2
    <3>3. CASE prov[1] # "make"  BY <2>b, <3>3
    <3> QED  BY <3>1, <3>2, <3>3
  <2>1. RowInv(q)'
    BY <1>0, <2>0 DEF RowInv, ProvInv, TaskInv, BootInv, Ahead, Recovery, RoomFails
  <2>2. ProvInv(q)'
    BY <1>0, <2>0, FollowingOK DEF ProvInv, RowInv, TaskInv, BootInv, Ahead, RoomFails
  <2>3. TaskInv(q)'  BY <2>0, <2>d, <2>e DEF TaskInv, RoomFails
  <2>4. BootInv(q)'  BY <2>0, <2>d, <2>e DEF BootInv, RoomFails
  <2>5. CleanInv(q)'  BY <2>0, <2>d, <2>e DEF CleanInv, Settled, Cleaning, RoomFails
  <2> QED  BY <2>1, <2>2, <2>3, <2>4, <2>5
<1>3. (Cleaning => state \in Over)' /\ (state = "none" => prov[1] = "off")'
  BY <1>0, FollowingOK DEF Inv, Cleaning, Over, Finals, RoomFails
<1> QED  BY <1>1, <1>2, <1>3 DEF Inv

(* PanelFails keeps the invariant. *)
LEMMA PanelFailsKeeps == ASSUME ResourceAssumptions, Inv, PanelFails PROVE Inv'
<1> USE DEF session, rooms, runner, starter, world, Step, Off, At, AtRoom, Fault
<1>0. TypeOK /\ (Cleaning => state \in Over) /\ (state = "none" => prov[1] = "off")  BY DEF Inv
<1>1. TypeOK'
  <2>1. prov' \in Provs  BY <1>0 DEF TypeOK, Provs, PanelFails
  <2>2. up' \in BOOLEAN /\ faults' \in 0..MaxFaults /\ crashes' \in 0..MaxCrashes
    BY <1>0, FaultOK DEF PanelFails
  <2> QED  BY <1>0, <2>1, <2>2 DEF TypeOK, PanelFails
<1>2. /\ UNCHANGED rooms /\ todo' \subseteq todo /\ due' \subseteq due
      /\ prov' = prov \/ prov'[1] \notin {"panel", "plan", "make", "keep"}
      /\ boot' = boot \/ boot'[1] # "write"
  BY <1>0 DEF PanelFails
<1>3. UNCHANGED runner \/ task'[1] \notin {"clean", "mark"}  BY <1>0 DEF TypeOK, PanelFails
<1>4. /\ UNCHANGED state \/ state' \notin {"none", "cleaned"}
      /\ state \in Over => state' \in Over
      /\ state' = "none" => prov'[1] = "off"
  BY <1>0 DEF PanelFails, Cleaning, Endable, Over, Finals
<1> QED  BY <1>1, <1>2, <1>3, <1>4, Quiet DEF QuietStep

(* Withdraw keeps the invariant. *)
LEMMA WithdrawKeeps == ASSUME ResourceAssumptions, Inv, Withdraw PROVE Inv'
<1> USE DEF session, rooms, runner, starter, world, Step, Off, At, AtRoom
<1>0. TypeOK /\ (Cleaning => state \in Over) /\ (state = "none" => prov[1] = "off")  BY DEF Inv
<1>1. TypeOK'
  <2>1. prov' \in Provs  BY <1>0 DEF TypeOK, Provs, Withdraw
  <2>2. state' \in {"none", "creating", "live"} \cup Over
    BY <1>0 DEF TypeOK, Finals, Over, Endable, Withdraw
  <2> QED  BY <1>0, <2>1, <2>2 DEF TypeOK, Withdraw
<1>2. /\ UNCHANGED rooms /\ todo' \subseteq todo /\ due' \subseteq due
      /\ prov' = prov \/ prov'[1] \notin {"panel", "plan", "make", "keep"}
      /\ boot' = boot \/ boot'[1] # "write"
  BY <1>0 DEF Withdraw
<1>3. UNCHANGED runner \/ task'[1] \notin {"clean", "mark"}  BY <1>0 DEF TypeOK, Withdraw
<1>4. /\ UNCHANGED state \/ state' \notin {"none", "cleaned"}
      /\ state \in Over => state' \in Over
      /\ state' = "none" => prov'[1] = "off"
  BY <1>0 DEF Withdraw, Cleaning, Endable, Over, Finals
<1> QED  BY <1>1, <1>2, <1>3, <1>4, Quiet DEF QuietStep

(* FailSession keeps the invariant. *)
LEMMA FailSessionKeeps == ASSUME ResourceAssumptions, Inv, FailSession PROVE Inv'
<1> USE DEF session, rooms, runner, starter, world, Step, Off, At, AtRoom
<1>0. TypeOK /\ (Cleaning => state \in Over) /\ (state = "none" => prov[1] = "off")  BY DEF Inv
<1>1. TypeOK'
  <2>1. prov' \in Provs  BY <1>0 DEF TypeOK, Provs, FailSession
  <2>2. state' \in {"none", "creating", "live"} \cup Over
    BY <1>0 DEF TypeOK, Finals, Over, Endable, FailSession
  <2> QED  BY <1>0, <2>1, <2>2 DEF TypeOK, FailSession
<1>2. /\ UNCHANGED rooms /\ todo' \subseteq todo /\ due' \subseteq due
      /\ prov' = prov \/ prov'[1] \notin {"panel", "plan", "make", "keep"}
      /\ boot' = boot \/ boot'[1] # "write"
  BY <1>0 DEF FailSession
<1>3. UNCHANGED runner \/ task'[1] \notin {"clean", "mark"}  BY <1>0 DEF TypeOK, FailSession
<1>4. /\ UNCHANGED state \/ state' \notin {"none", "cleaned"}
      /\ state \in Over => state' \in Over
      /\ state' = "none" => prov'[1] = "off"
  BY <1>0 DEF FailSession, Cleaning, Endable, Over, Finals
<1> QED  BY <1>1, <1>2, <1>3, <1>4, Quiet DEF QuietStep

(* ProvisionStops keeps the invariant. *)
LEMMA ProvisionStopsKeeps == ASSUME ResourceAssumptions, Inv, ProvisionStops PROVE Inv'
<1> USE DEF session, rooms, runner, starter, world, Step, Off, At, AtRoom, Fault
<1>0. TypeOK /\ (Cleaning => state \in Over) /\ (state = "none" => prov[1] = "off")  BY DEF Inv
<1>1. TypeOK'
  <2>1. prov' \in Provs  BY <1>0 DEF TypeOK, Provs, ProvisionStops
  <2>2. up' \in BOOLEAN /\ faults' \in 0..MaxFaults /\ crashes' \in 0..MaxCrashes
    BY <1>0, FaultOK DEF ProvisionStops
  <2>3. lost' \in BOOLEAN  BY <1>0 DEF TypeOK, Abandons, ProvisionStops
  <2> QED  BY <1>0, <2>1, <2>2, <2>3 DEF TypeOK, ProvisionStops
<1>2. /\ UNCHANGED rooms /\ todo' \subseteq todo /\ due' \subseteq due
      /\ prov' = prov \/ prov'[1] \notin {"panel", "plan", "make", "keep"}
      /\ boot' = boot \/ boot'[1] # "write"
  BY <1>0 DEF ProvisionStops
<1>3. UNCHANGED runner \/ task'[1] \notin {"clean", "mark"}  BY <1>0 DEF TypeOK, ProvisionStops
<1>4. /\ UNCHANGED state \/ state' \notin {"none", "cleaned"}
      /\ state \in Over => state' \in Over
      /\ state' = "none" => prov'[1] = "off"
  BY <1>0 DEF ProvisionStops, Cleaning, Endable, Over, Finals
<1> QED  BY <1>1, <1>2, <1>3, <1>4, Quiet DEF QuietStep

(* End keeps the invariant. *)
LEMMA EndKeeps == ASSUME ResourceAssumptions, Inv, End PROVE Inv'
<1> USE DEF session, rooms, runner, starter, world, Step, Off, At, AtRoom
<1>0. TypeOK /\ (Cleaning => state \in Over) /\ (state = "none" => prov[1] = "off")  BY DEF Inv
<1>1. TypeOK'
  <2>1. state' \in {"none", "creating", "live"} \cup Over
    BY <1>0 DEF TypeOK, Finals, Over, Endable, End, BeginEnd, Starts
  <2>2. calls' \subseteq Calls  BY <1>0 DEF TypeOK, Calls, End, BeginEnd, Starts
  <2> QED  BY <1>0, <2>1, <2>2 DEF TypeOK, End, BeginEnd, Starts
<1>2. /\ UNCHANGED rooms /\ todo' \subseteq todo /\ due' \subseteq due
      /\ prov' = prov \/ prov'[1] \notin {"panel", "plan", "make", "keep"}
      /\ boot' = boot \/ boot'[1] # "write"
  BY <1>0 DEF End, BeginEnd, Starts
<1>3. UNCHANGED runner \/ task'[1] \notin {"clean", "mark"}
  BY <1>0 DEF TypeOK, End, BeginEnd, Starts
<1>4. /\ UNCHANGED state \/ state' \notin {"none", "cleaned"}
      /\ state \in Over => state' \in Over
      /\ state' = "none" => prov'[1] = "off"
  BY <1>0 DEF End, BeginEnd, Starts, Cleaning, Endable, Over, Finals
<1> QED  BY <1>1, <1>2, <1>3, <1>4, Quiet DEF QuietStep

(* Expire keeps the invariant. *)
LEMMA ExpireKeeps == ASSUME ResourceAssumptions, Inv, Expire PROVE Inv'
<1> USE DEF session, rooms, runner, starter, world, Step, Off, At, AtRoom
<1>0. TypeOK /\ (Cleaning => state \in Over) /\ (state = "none" => prov[1] = "off")  BY DEF Inv
<1>1. TypeOK'
  <2>1. state' \in {"none", "creating", "live"} \cup Over
    BY <1>0 DEF TypeOK, Finals, Over, Endable, Expire, BeginEnd, Starts
  <2>2. calls' \subseteq Calls  BY <1>0 DEF TypeOK, Calls, Expire, BeginEnd, Starts
  <2> QED  BY <1>0, <2>1, <2>2 DEF TypeOK, Expire, BeginEnd, Starts
<1>2. /\ UNCHANGED rooms /\ todo' \subseteq todo /\ due' \subseteq due
      /\ prov' = prov \/ prov'[1] \notin {"panel", "plan", "make", "keep"}
      /\ boot' = boot \/ boot'[1] # "write"
  BY <1>0 DEF Expire, BeginEnd, Starts
<1>3. UNCHANGED runner \/ task'[1] \notin {"clean", "mark"}
  BY <1>0 DEF TypeOK, Expire, BeginEnd, Starts
<1>4. /\ UNCHANGED state \/ state' \notin {"none", "cleaned"}
      /\ state \in Over => state' \in Over
      /\ state' = "none" => prov'[1] = "off"
  BY <1>0 DEF Expire, BeginEnd, Starts, Cleaning, Endable, Over, Finals
<1> QED  BY <1>1, <1>2, <1>3, <1>4, Quiet DEF QuietStep

(* ExpireLate keeps the invariant. *)
LEMMA ExpireLateKeeps == ASSUME ResourceAssumptions, Inv, ExpireLate PROVE Inv'
<1> USE DEF session, rooms, runner, starter, world, Step, Off, At, AtRoom
<1>0. TypeOK /\ (Cleaning => state \in Over) /\ (state = "none" => prov[1] = "off")  BY DEF Inv
<1>1. TypeOK'
  <2>1. state' \in {"none", "creating", "live"} \cup Over
    BY <1>0 DEF TypeOK, Finals, Over, Endable, ExpireLate, BeginEnd, Starts
  <2>2. calls' \subseteq Calls  BY <1>0 DEF TypeOK, Calls, ExpireLate, BeginEnd, Starts
  <2> QED  BY <1>0, <2>1, <2>2 DEF TypeOK, ExpireLate, BeginEnd, Starts
<1>2. /\ UNCHANGED rooms /\ todo' \subseteq todo /\ due' \subseteq due
      /\ prov' = prov \/ prov'[1] \notin {"panel", "plan", "make", "keep"}
      /\ boot' = boot \/ boot'[1] # "write"
  BY <1>0 DEF ExpireLate, BeginEnd, Starts
<1>3. UNCHANGED runner \/ task'[1] \notin {"clean", "mark"}
  BY <1>0 DEF TypeOK, ExpireLate, BeginEnd, Starts
<1>4. /\ UNCHANGED state \/ state' \notin {"none", "cleaned"}
      /\ state \in Over => state' \in Over
      /\ state' = "none" => prov'[1] = "off"
  BY <1>0 DEF ExpireLate, BeginEnd, Starts, Cleaning, Endable, Over, Finals
<1> QED  BY <1>1, <1>2, <1>3, <1>4, Quiet DEF QuietStep

(* Join keeps the invariant. *)
LEMMA JoinKeeps == ASSUME ResourceAssumptions, Inv, Join PROVE Inv'
<1> USE DEF session, rooms, runner, starter, world, Step, Off, At, AtRoom
<1>0. TypeOK /\ (Cleaning => state \in Over) /\ (state = "none" => prov[1] = "off")  BY DEF Inv
<1>1. TypeOK'
  <2>1. present' \in BOOLEAN /\ failed' \in BOOLEAN /\ old' \in BOOLEAN
    BY <1>0 DEF TypeOK, Join, Starts
  <2>2. calls' \subseteq Calls  BY <1>0 DEF TypeOK, Calls, Join, Starts
  <2> QED  BY <1>0, <2>1, <2>2 DEF TypeOK, Join, Starts
<1>2. /\ UNCHANGED rooms /\ todo' \subseteq todo /\ due' \subseteq due
      /\ prov' = prov \/ prov'[1] \notin {"panel", "plan", "make", "keep"}
      /\ boot' = boot \/ boot'[1] # "write"
  BY <1>0 DEF Join, Starts
<1>3. UNCHANGED runner \/ task'[1] \notin {"clean", "mark"}  BY <1>0 DEF TypeOK, Join, Starts
<1>4. /\ UNCHANGED state \/ state' \notin {"none", "cleaned"}
      /\ state \in Over => state' \in Over
      /\ state' = "none" => prov'[1] = "off"
  BY <1>0 DEF Join, Starts, Cleaning, Endable, Over, Finals
<1> QED  BY <1>1, <1>2, <1>3, <1>4, Quiet DEF QuietStep

(* Leave keeps the invariant. *)
LEMMA LeaveKeeps == ASSUME ResourceAssumptions, Inv, Leave PROVE Inv'
<1> USE DEF session, rooms, runner, starter, world, Step, Off, At, AtRoom
<1>0. TypeOK /\ (Cleaning => state \in Over) /\ (state = "none" => prov[1] = "off")  BY DEF Inv
<1>1. TypeOK'
  <2>1. state' \in {"none", "creating", "live"} \cup Over
    BY <1>0 DEF TypeOK, Finals, Over, Endable, Leave, Starts
  <2>2. present' \in BOOLEAN /\ failed' \in BOOLEAN /\ old' \in BOOLEAN
    BY <1>0 DEF TypeOK, Leave, Starts
  <2>3. calls' \subseteq Calls  BY <1>0 DEF TypeOK, Calls, Leave, Starts
  <2> QED  BY <1>0, <2>1, <2>2, <2>3 DEF TypeOK, Leave, Starts
<1>2. /\ UNCHANGED rooms /\ todo' \subseteq todo /\ due' \subseteq due
      /\ prov' = prov \/ prov'[1] \notin {"panel", "plan", "make", "keep"}
      /\ boot' = boot \/ boot'[1] # "write"
  BY <1>0 DEF Leave, Starts
<1>3. UNCHANGED runner \/ task'[1] \notin {"clean", "mark"}  BY <1>0 DEF TypeOK, Leave, Starts
<1>4. /\ UNCHANGED state \/ state' \notin {"none", "cleaned"}
      /\ state \in Over => state' \in Over
      /\ state' = "none" => prov'[1] = "off"
  BY <1>0 DEF Leave, Starts, Cleaning, Endable, Over, Finals
<1> QED  BY <1>1, <1>2, <1>3, <1>4, Quiet DEF QuietStep

(* VoiceEmpties keeps the invariant. *)
LEMMA VoiceEmptiesKeeps == ASSUME ResourceAssumptions, Inv, VoiceEmpties PROVE Inv'
<1> USE DEF session, rooms, runner, starter, world, Step, Off, At, AtRoom
<1>0. TypeOK /\ (Cleaning => state \in Over) /\ (state = "none" => prov[1] = "off")  BY DEF Inv
<1>1. TypeOK'
  <2>1. calls' \subseteq Calls  BY <1>0 DEF TypeOK, Calls, VoiceEmpties, Starts
  <2> QED  BY <1>0, <2>1 DEF TypeOK, VoiceEmpties, Starts
<1>2. /\ UNCHANGED rooms /\ todo' \subseteq todo /\ due' \subseteq due
      /\ prov' = prov \/ prov'[1] \notin {"panel", "plan", "make", "keep"}
      /\ boot' = boot \/ boot'[1] # "write"
  BY <1>0 DEF VoiceEmpties, Starts
<1>3. UNCHANGED runner \/ task'[1] \notin {"clean", "mark"}
  BY <1>0 DEF TypeOK, VoiceEmpties, Starts
<1>4. /\ UNCHANGED state \/ state' \notin {"none", "cleaned"}
      /\ state \in Over => state' \in Over
      /\ state' = "none" => prov'[1] = "off"
  BY <1>0 DEF VoiceEmpties, Starts, Cleaning, Endable, Over, Finals
<1> QED  BY <1>1, <1>2, <1>3, <1>4, Quiet DEF QuietStep

(* FollowUp keeps the invariant. *)
LEMMA FollowUpKeeps ==
    ASSUME ResourceAssumptions, Inv, NEW call \in Calls, FollowUp(call) PROVE Inv'
<1> USE DEF session, rooms, runner, starter, world, Step, Off, At, AtRoom
<1>0. TypeOK /\ (Cleaning => state \in Over) /\ (state = "none" => prov[1] = "off")  BY DEF Inv
<1>1. TypeOK'
  <2>1. task' \in Tasks  BY <1>0 DEF TypeOK, Tasks, FollowUp, Schedule
  <2>2. calls' \subseteq Calls  BY <1>0 DEF TypeOK, Calls, FollowUp, Schedule
  <2> QED  BY <1>0, <2>1, <2>2 DEF TypeOK, FollowUp, Schedule
<1>2. /\ UNCHANGED rooms /\ todo' \subseteq todo /\ due' \subseteq due
      /\ prov' = prov \/ prov'[1] \notin {"panel", "plan", "make", "keep"}
      /\ boot' = boot \/ boot'[1] # "write"
  BY <1>0 DEF FollowUp, Schedule
<1>3. UNCHANGED runner \/ task'[1] \notin {"clean", "mark"}
  BY <1>0 DEF TypeOK, FollowUp, Schedule
<1>4. /\ UNCHANGED state \/ state' \notin {"none", "cleaned"}
      /\ state \in Over => state' \in Over
      /\ state' = "none" => prov'[1] = "off"
  BY <1>0 DEF FollowUp, Schedule, Cleaning, Endable, Over, Finals
<1> QED  BY <1>1, <1>2, <1>3, <1>4, Quiet DEF QuietStep

(* CallFails keeps the invariant. *)
LEMMA CallFailsKeeps ==
    ASSUME ResourceAssumptions, Inv, NEW call \in Calls, CallFails(call) PROVE Inv'
<1> USE DEF session, rooms, runner, starter, world, Step, Off, At, AtRoom, Fault
<1>0. TypeOK /\ (Cleaning => state \in Over) /\ (state = "none" => prov[1] = "off")  BY DEF Inv
<1>1. TypeOK'
  <2>1. up' \in BOOLEAN /\ faults' \in 0..MaxFaults /\ crashes' \in 0..MaxCrashes
    BY <1>0, FaultOK DEF CallFails
  <2>2. lost' \in BOOLEAN  BY <1>0 DEF TypeOK, Abandons, CallFails
  <2>3. calls' \subseteq Calls  BY <1>0 DEF TypeOK, Calls, CallFails
  <2> QED  BY <1>0, <2>1, <2>2, <2>3 DEF TypeOK, CallFails
<1>2. /\ UNCHANGED rooms /\ todo' \subseteq todo /\ due' \subseteq due
      /\ prov' = prov \/ prov'[1] \notin {"panel", "plan", "make", "keep"}
      /\ boot' = boot \/ boot'[1] # "write"
  BY <1>0 DEF CallFails
<1>3. UNCHANGED runner \/ task'[1] \notin {"clean", "mark"}  BY <1>0 DEF TypeOK, CallFails
<1>4. /\ UNCHANGED state \/ state' \notin {"none", "cleaned"}
      /\ state \in Over => state' \in Over
      /\ state' = "none" => prov'[1] = "off"
  BY <1>0 DEF CallFails, Cleaning, Endable, Over, Finals
<1> QED  BY <1>1, <1>2, <1>3, <1>4, Quiet DEF QuietStep

(* CheckMembers keeps the invariant. *)
LEMMA CheckMembersKeeps == ASSUME ResourceAssumptions, Inv, CheckMembers PROVE Inv'
<1> USE DEF session, rooms, runner, starter, world, Step, Off, At, AtRoom
<1>0. TypeOK /\ (Cleaning => state \in Over) /\ (state = "none" => prov[1] = "off")  BY DEF Inv
<1>1. TypeOK'
  <2>1. task' \in Tasks  BY <1>0 DEF TypeOK, Tasks, CheckMembers, Leaves
  <2>2. lost' \in BOOLEAN  BY <1>0 DEF TypeOK, Abandons, CheckMembers, Leaves
  <2>3. present' \in BOOLEAN /\ failed' \in BOOLEAN /\ old' \in BOOLEAN
    BY <1>0 DEF TypeOK, CheckMembers, Leaves
  <2> QED  BY <1>0, <2>1, <2>2, <2>3 DEF TypeOK, CheckMembers, Leaves
<1>2. /\ UNCHANGED rooms /\ todo' \subseteq todo /\ due' \subseteq due
      /\ prov' = prov \/ prov'[1] \notin {"panel", "plan", "make", "keep"}
      /\ boot' = boot \/ boot'[1] # "write"
  BY <1>0 DEF CheckMembers, Leaves
<1>3. UNCHANGED runner \/ task'[1] \notin {"clean", "mark"}
  BY <1>0 DEF TypeOK, CheckMembers, Leaves
<1>4. /\ UNCHANGED state \/ state' \notin {"none", "cleaned"}
      /\ state \in Over => state' \in Over
      /\ state' = "none" => prov'[1] = "off"
  BY <1>0 DEF CheckMembers, Leaves, Cleaning, Endable, Over, Finals
<1> QED  BY <1>1, <1>2, <1>3, <1>4, Quiet DEF QuietStep

(* CheckState keeps the invariant. *)
LEMMA CheckStateKeeps == ASSUME ResourceAssumptions, Inv, CheckState PROVE Inv'
<1> USE DEF session, rooms, runner, starter, world, Step, Off, At, AtRoom
<1>0. TypeOK /\ (Cleaning => state \in Over) /\ (state = "none" => prov[1] = "off")  BY DEF Inv
<1>1. TypeOK'
  <2>1. task' \in Tasks  BY <1>0 DEF TypeOK, Tasks, CheckState, Leaves
  <2> QED  BY <1>0, <2>1 DEF TypeOK, CheckState, Leaves
<1>2. /\ UNCHANGED rooms /\ todo' \subseteq todo /\ due' \subseteq due
      /\ prov' = prov \/ prov'[1] \notin {"panel", "plan", "make", "keep"}
      /\ boot' = boot \/ boot'[1] # "write"
  BY <1>0 DEF CheckState, Leaves
<1>3. UNCHANGED runner \/ task'[1] \notin {"clean", "mark"}
  BY <1>0 DEF TypeOK, CheckState, Leaves
<1>4. /\ UNCHANGED state \/ state' \notin {"none", "cleaned"}
      /\ state \in Over => state' \in Over
      /\ state' = "none" => prov'[1] = "off"
  BY <1>0 DEF CheckState, Leaves, Cleaning, Endable, Over, Finals
<1> QED  BY <1>1, <1>2, <1>3, <1>4, Quiet DEF QuietStep

(* CommitEnd keeps the invariant. *)
LEMMA CommitEndKeeps == ASSUME ResourceAssumptions, Inv, CommitEnd PROVE Inv'
<1> USE DEF session, rooms, runner, starter, world, Step, Off, At, AtRoom
<1>0. TypeOK /\ (Cleaning => state \in Over) /\ (state = "none" => prov[1] = "off")  BY DEF Inv
<1>1. TypeOK'
  <2>1. task' \in Tasks  BY <1>0 DEF TypeOK, Tasks, CommitEnd, Leaves
  <2>2. state' \in {"none", "creating", "live"} \cup Over
    BY <1>0 DEF TypeOK, Finals, Over, Endable, CommitEnd, Leaves
  <2>3. lost' \in BOOLEAN  BY <1>0 DEF TypeOK, Abandons, CommitEnd, Leaves
  <2> QED  BY <1>0, <2>1, <2>2, <2>3 DEF TypeOK, CommitEnd, Leaves
<1>2. /\ UNCHANGED rooms /\ todo' \subseteq todo /\ due' \subseteq due
      /\ prov' = prov \/ prov'[1] \notin {"panel", "plan", "make", "keep"}
      /\ boot' = boot \/ boot'[1] # "write"
  BY <1>0 DEF CommitEnd, Leaves
<1>3. UNCHANGED runner \/ task'[1] \notin {"clean", "mark"}  BY <1>0 DEF TypeOK, CommitEnd, Leaves
<1>4. /\ UNCHANGED state \/ state' \notin {"none", "cleaned"}
      /\ state \in Over => state' \in Over
      /\ state' = "none" => prov'[1] = "off"
  BY <1>0 DEF CommitEnd, Leaves, Cleaning, Endable, Over, Finals
<1> QED  BY <1>1, <1>2, <1>3, <1>4, Quiet DEF QuietStep

(* List keeps the invariant. *)
LEMMA ListKeeps == ASSUME ResourceAssumptions, Inv, List PROVE Inv'
<1> USE DEF session, rooms, runner, starter, world, Step, Off, At, AtRoom
<1>0. TypeOK /\ rec \in [Rooms -> Recs] /\ disc \in [Rooms -> Discs]  BY DEF Inv, TypeOK
<1>1. TypeOK'
  <2>1. task' \in Tasks  BY <1>0 DEF TypeOK, Tasks, List, Leaves
  <2>2. todo' \subseteq Rooms \X Ids /\ due' \subseteq Rooms \X Recovery \X Ids
    BY <1>0, ListedOK DEF TypeOK, List, Leaves
  <2>3. present' \in BOOLEAN /\ failed' \in BOOLEAN /\ old' \in BOOLEAN
    BY <1>0 DEF TypeOK, List, Leaves
  <2> QED  BY <1>0, <2>1, <2>2, <2>3 DEF TypeOK, List, Leaves
<1>2. ASSUME NEW q \in Rooms
      PROVE  RowInv(q)' /\ ProvInv(q)' /\ TaskInv(q)' /\ BootInv(q)' /\ CleanInv(q)'
  <2>0. RowInv(q) /\ ProvInv(q) /\ TaskInv(q) /\ BootInv(q) /\ CleanInv(q)  BY DEF Inv
  <2> USE DEF Unplanned
  <2>1. RowInv(q)'
    BY <1>0, <2>0 DEF RowInv, ProvInv, TaskInv, BootInv, Ahead, Recovery, List, Leaves
  <2>2. ProvInv(q)'  BY <1>0, <2>0 DEF ProvInv, RowInv, TaskInv, BootInv, Ahead, List, Leaves
  <2>3. TaskInv(q)'  BY <1>0, <2>0, ListedOK DEF TaskInv, RowInv, List, Leaves
  <2>4. BootInv(q)'  BY <1>0, <2>0 DEF BootInv, RowInv, List, Leaves
  <2>5. CleanInv(q)'
    BY <1>0, <2>0, ListedOK DEF CleanInv, Settled, Cleaning, RowInv, TaskInv, BootInv, List,
       Leaves
  <2> QED  BY <2>1, <2>2, <2>3, <2>4, <2>5
<1>3. (Cleaning => state \in Over)' /\ (state = "none" => prov[1] = "off")'
  BY <1>0 DEF Inv, Cleaning, Over, Finals, List, Leaves
<1> QED  BY <1>1, <1>2, <1>3 DEF Inv

(* SkipUnproven keeps the invariant. *)
LEMMA SkipUnprovenKeeps ==
    ASSUME ResourceAssumptions, Inv, NEW r \in Rooms, SkipUnproven(r) PROVE Inv'
<1> USE DEF session, rooms, runner, starter, world, Step, Off, At, AtRoom
<1>0. TypeOK /\ rec \in [Rooms -> Recs] /\ disc \in [Rooms -> Discs]  BY DEF Inv, TypeOK
<1>1. TypeOK'
  <2>1. task' \in Tasks  BY <1>0 DEF TypeOK, Tasks, SkipUnproven, Unproven
  <2>2. rec' \in [Rooms -> Recs] /\ disc' \in [Rooms -> Discs]
    BY <1>0 DEF TypeOK, Recs, Recovery, Discs, SkipUnproven, Unproven
  <2>3. present' \in BOOLEAN /\ failed' \in BOOLEAN /\ old' \in BOOLEAN
    BY <1>0 DEF TypeOK, SkipUnproven, Unproven
  <2> QED  BY <1>0, <2>1, <2>2, <2>3 DEF TypeOK, SkipUnproven, Unproven
<1>2. ASSUME NEW q \in Rooms
      PROVE  RowInv(q)' /\ ProvInv(q)' /\ TaskInv(q)' /\ BootInv(q)' /\ CleanInv(q)'
  <2>0. RowInv(q) /\ ProvInv(q) /\ TaskInv(q) /\ BootInv(q) /\ CleanInv(q)  BY DEF Inv
  <2> USE DEF Unplanned
  <2>r. RowInv(r) /\ ProvInv(r) /\ TaskInv(r) /\ BootInv(r) /\ CleanInv(r)  BY DEF Inv
  <2>a. ~ Unplanned(r)  BY <2>r DEF SkipUnproven, TaskInv, Ids
  <2>b. rec'[q] = IF q = r THEN "unresolved" ELSE rec[q]  BY <1>0 DEF SkipUnproven, Unproven
  <2>1. RowInv(q)'
    BY <1>0, <2>0 DEF RowInv, ProvInv, TaskInv, BootInv, Ahead, Recovery, SkipUnproven, Unproven
  <2>c. Unplanned(q)' <=> Unplanned(q)  BY <2>a, <2>b
  <2>2. ProvInv(q)'  BY <2>0, <2>c DEF ProvInv, Ahead, SkipUnproven
  <2>3. TaskInv(q)'  BY <1>0, <2>0 DEF TaskInv, RowInv, SkipUnproven, Unproven
  <2>4. BootInv(q)'  BY <1>0, <2>0 DEF BootInv, RowInv, SkipUnproven, Unproven
  <2>5. CleanInv(q)'  BY <1>0, <2>0, <2>a, <2>b DEF CleanInv, Settled, Cleaning, SkipUnproven
  <2> QED  BY <2>1, <2>2, <2>3, <2>4, <2>5
<1>3. (Cleaning => state \in Over)' /\ (state = "none" => prov[1] = "off")'
  BY <1>0 DEF Inv, Cleaning, Over, Finals, SkipUnproven, Unproven
<1> QED  BY <1>1, <1>2, <1>3 DEF Inv

(* RemoveRoom keeps the invariant. *)
LEMMA RemoveRoomKeeps ==
    ASSUME ResourceAssumptions, Inv, NEW r \in Rooms, RemoveRoom(r) PROVE Inv'
<1> USE DEF session, rooms, runner, starter, world, Step, Off, At, AtRoom
<1>0. TypeOK /\ rec \in [Rooms -> Recs] /\ disc \in [Rooms -> Discs]  BY DEF Inv, TypeOK
<1>1. TypeOK'
  <2>1. task' \in Tasks  BY <1>0 DEF TypeOK, Tasks, RemoveRoom
  <2>2. rec' \in [Rooms -> Recs] /\ disc' \in [Rooms -> Discs]
    BY <1>0 DEF TypeOK, Recs, Recovery, Discs, RemoveRoom
  <2> QED  BY <1>0, <2>1, <2>2 DEF TypeOK, RemoveRoom
<1>2. ASSUME NEW q \in Rooms
      PROVE  RowInv(q)' /\ ProvInv(q)' /\ TaskInv(q)' /\ BootInv(q)' /\ CleanInv(q)'
  <2>0. RowInv(q) /\ ProvInv(q) /\ TaskInv(q) /\ BootInv(q) /\ CleanInv(q)  BY DEF Inv
  <2> USE DEF Unplanned
  <2>r. RowInv(r) /\ ProvInv(r) /\ TaskInv(r) /\ BootInv(r) /\ CleanInv(r)  BY DEF Inv
  <2>a. r \in known /\ disc[r] # "absent" /\ ~ Unplanned(r)
    BY <2>r DEF RemoveRoom, TaskInv, RowInv, Ids
  <2>b. /\ disc'[q] = "absent" <=> disc[q] = "absent"
        /\ disc[q] = "gone" => disc'[q] = "gone"
    BY <1>0, <2>a DEF RemoveRoom
  <2>c. /\ todo' \subseteq todo /\ task'[1] = "mark" /\ task'[2] = r
        /\ task'[3] = "deleted" => disc'[r] = "gone"
    BY <1>0 DEF RemoveRoom
  <2>1. RowInv(q)'  BY <2>0, <2>b DEF RowInv, RemoveRoom
  <2>2. ProvInv(q)'  BY <2>0, <2>b DEF ProvInv, Ahead, RemoveRoom
  <2>3. TaskInv(q)'  BY <2>0, <2>a, <2>c DEF TaskInv, RemoveRoom
  <2>4. BootInv(q)'  BY <1>0, <2>0 DEF BootInv, RowInv, RemoveRoom
  <2>5. CleanInv(q)'
    BY <1>0, <2>0 DEF CleanInv, Settled, Cleaning, RowInv, TaskInv, BootInv, RemoveRoom
  <2> QED  BY <2>1, <2>2, <2>3, <2>4, <2>5
<1>3. (Cleaning => state \in Over)' /\ (state = "none" => prov[1] = "off")'
  BY <1>0 DEF Inv, Cleaning, Over, Finals, RemoveRoom
<1> QED  BY <1>1, <1>2, <1>3 DEF Inv

(* RemoveFails keeps the invariant. *)
LEMMA RemoveFailsKeeps ==
    ASSUME ResourceAssumptions, Inv, NEW r \in Rooms, RemoveFails(r) PROVE Inv'
<1> USE DEF session, rooms, runner, starter, world, Step, Off, At, AtRoom, Fault
<1>0. TypeOK /\ rec \in [Rooms -> Recs] /\ disc \in [Rooms -> Discs]  BY DEF Inv, TypeOK
<1>1. TypeOK'
  <2>1. task' \in Tasks  BY <1>0 DEF TypeOK, Tasks, RemoveFails
  <2>2. rec' \in [Rooms -> Recs] /\ disc' \in [Rooms -> Discs]
    BY <1>0 DEF TypeOK, Recs, Recovery, Discs, RemoveFails
  <2>3. up' \in BOOLEAN /\ faults' \in 0..MaxFaults /\ crashes' \in 0..MaxCrashes
    BY <1>0, FaultOK DEF RemoveFails
  <2> QED  BY <1>0, <2>1, <2>2, <2>3 DEF TypeOK, RemoveFails
<1>2. ASSUME NEW q \in Rooms
      PROVE  RowInv(q)' /\ ProvInv(q)' /\ TaskInv(q)' /\ BootInv(q)' /\ CleanInv(q)'
  <2>0. RowInv(q) /\ ProvInv(q) /\ TaskInv(q) /\ BootInv(q) /\ CleanInv(q)  BY DEF Inv
  <2> USE DEF Unplanned
  <2>r. RowInv(r) /\ ProvInv(r) /\ TaskInv(r) /\ BootInv(r) /\ CleanInv(r)  BY DEF Inv
  <2>a. r \in known /\ disc[r] # "absent" /\ ~ Unplanned(r)
    BY <2>r DEF RemoveFails, TaskInv, RowInv, Ids
  <2>b. /\ disc'[q] = "absent" <=> disc[q] = "absent"
        /\ disc[q] = "gone" => disc'[q] = "gone"
    BY <1>0, <2>a DEF RemoveFails
  <2>c. /\ todo' \subseteq todo /\ task'[1] = "mark" /\ task'[2] = r
        /\ task'[3] = "deleted" => disc'[r] = "gone"
    BY <1>0 DEF RemoveFails
  <2>1. RowInv(q)'  BY <2>0, <2>b DEF RowInv, RemoveFails
  <2>2. ProvInv(q)'  BY <2>0, <2>b DEF ProvInv, Ahead, RemoveFails
  <2>3. TaskInv(q)'  BY <2>0, <2>a, <2>c DEF TaskInv, RemoveFails
  <2>4. BootInv(q)'  BY <1>0, <2>0 DEF BootInv, RowInv, RemoveFails
  <2>5. CleanInv(q)'
    BY <1>0, <2>0 DEF CleanInv, Settled, Cleaning, RowInv, TaskInv, BootInv, RemoveFails
  <2> QED  BY <2>1, <2>2, <2>3, <2>4, <2>5
<1>3. (Cleaning => state \in Over)' /\ (state = "none" => prov[1] = "off")'
  BY <1>0 DEF Inv, Cleaning, Over, Finals, RemoveFails
<1> QED  BY <1>1, <1>2, <1>3 DEF Inv

(* MarkRoom keeps the invariant. *)
LEMMA MarkRoomKeeps == ASSUME ResourceAssumptions, Inv, NEW r \in Rooms, MarkRoom(r) PROVE Inv'
<1> USE DEF session, rooms, runner, starter, world, Step, Off, At, AtRoom
<1>0. TypeOK /\ rec \in [Rooms -> Recs] /\ disc \in [Rooms -> Discs]  BY DEF Inv, TypeOK
<1>1. TypeOK'
  <2>1. task' \in Tasks  BY <1>0 DEF TypeOK, Tasks, MarkRoom
  <2>2. rec' \in [Rooms -> Recs] /\ disc' \in [Rooms -> Discs]
    BY <1>0 DEF TypeOK, Tasks, Recs, Recovery, Discs, MarkRoom
  <2> QED  BY <1>0, <2>1, <2>2 DEF TypeOK, MarkRoom
<1>2. ASSUME NEW q \in Rooms
      PROVE  RowInv(q)' /\ ProvInv(q)' /\ TaskInv(q)' /\ BootInv(q)' /\ CleanInv(q)'
  <2>0. RowInv(q) /\ ProvInv(q) /\ TaskInv(q) /\ BootInv(q) /\ CleanInv(q)  BY DEF Inv
  <2> USE DEF Unplanned
  <2>r. RowInv(r) /\ ProvInv(r) /\ TaskInv(r) /\ BootInv(r) /\ CleanInv(r)  BY DEF Inv
  <2>a. /\ r \in known /\ ~ Unplanned(r) /\ (task[3] = "deleted" => disc[r] = "gone")
        /\ task[3] \in {"deleted", "archived", "failed"}
    BY <1>0, <2>r DEF MarkRoom, TaskInv, RowInv, TypeOK, Tasks
  <2>b. rec'[q] = IF q = r THEN task[3] ELSE rec[q]  BY <1>0 DEF MarkRoom
  <2>c. Unplanned(q)' <=> Unplanned(q)  BY <2>a, <2>b
  <2>1. RowInv(q)'  BY <2>0, <2>a, <2>b DEF RowInv, MarkRoom
  <2>2. ProvInv(q)'  BY <2>0, <2>c DEF ProvInv, Ahead, MarkRoom
  <2>3. TaskInv(q)'  BY <2>0, <2>c DEF TaskInv, MarkRoom
  <2>4. BootInv(q)'  BY <2>0, <2>c DEF BootInv, MarkRoom
  <2>5. CleanInv(q)'
    BY <1>0, <2>0 DEF CleanInv, Settled, Cleaning, RowInv, TaskInv, BootInv, MarkRoom
  <2> QED  BY <2>1, <2>2, <2>3, <2>4, <2>5
<1>3. (Cleaning => state \in Over)' /\ (state = "none" => prov[1] = "off")'
  BY <1>0 DEF Inv, Cleaning, Over, Finals, MarkRoom
<1> QED  BY <1>1, <1>2, <1>3 DEF Inv

(* Finalize keeps the invariant. *)
LEMMA FinalizeKeeps == ASSUME ResourceAssumptions, Inv, Finalize PROVE Inv'
<1> USE DEF session, rooms, runner, starter, world, Step, Off, At, AtRoom
<1>0. TypeOK /\ rec \in [Rooms -> Recs] /\ disc \in [Rooms -> Discs]  BY DEF Inv, TypeOK
<1>1. TypeOK'
  <2>1. task' \in Tasks  BY <1>0 DEF TypeOK, Tasks, Finalize, Leaves
  <2>2. state' \in {"none", "creating", "live"} \cup Over
    BY <1>0 DEF TypeOK, Finals, Over, Endable, Finalize, Leaves
  <2> QED  BY <1>0, <2>1, <2>2 DEF TypeOK, Finalize, Leaves
<1>2. ASSUME NEW q \in Rooms
      PROVE  RowInv(q)' /\ ProvInv(q)' /\ TaskInv(q)' /\ BootInv(q)' /\ CleanInv(q)'
  <2>0. RowInv(q) /\ ProvInv(q) /\ TaskInv(q) /\ BootInv(q) /\ CleanInv(q)  BY DEF Inv
  <2> USE DEF Unplanned
  <2>1. RowInv(q)'
    BY <1>0, <2>0 DEF RowInv, ProvInv, TaskInv, BootInv, Ahead, Recovery, Finalize, Leaves
  <2>2. ProvInv(q)'  BY <1>0, <2>0 DEF ProvInv, RowInv, TaskInv, BootInv, Ahead, Finalize, Leaves
  <2>3. TaskInv(q)'  BY <1>0, <2>0 DEF TaskInv, RowInv, Finalize, Leaves
  <2>4. BootInv(q)'  BY <1>0, <2>0 DEF BootInv, RowInv, Finalize, Leaves
  <2>5. CleanInv(q)'
    BY <1>0, <2>0 DEF CleanInv, Settled, Cleaning, RowInv, TaskInv, BootInv, Finalize, Leaves
  <2> QED  BY <2>1, <2>2, <2>3, <2>4, <2>5
<1>3. (Cleaning => state \in Over)' /\ (state = "none" => prov[1] = "off")'
  BY <1>0 DEF Inv, Cleaning, Over, Finals, Finalize, Leaves
<1> QED  BY <1>1, <1>2, <1>3 DEF Inv

(* TaskFails keeps the invariant. *)
LEMMA TaskFailsKeeps == ASSUME ResourceAssumptions, Inv, TaskFails PROVE Inv'
<1> USE DEF session, rooms, runner, starter, world, Step, Off, At, AtRoom, Fault
<1>0. TypeOK /\ (Cleaning => state \in Over) /\ (state = "none" => prov[1] = "off")  BY DEF Inv
<1>1. TypeOK'
  <2>1. task' \in Tasks  BY <1>0 DEF TypeOK, Tasks, TaskFails, Leaves
  <2>2. up' \in BOOLEAN /\ faults' \in 0..MaxFaults /\ crashes' \in 0..MaxCrashes
    BY <1>0, FaultOK DEF TaskFails
  <2>3. lost' \in BOOLEAN  BY <1>0 DEF TypeOK, Abandons, TaskFails, Leaves
  <2> QED  BY <1>0, <2>1, <2>2, <2>3 DEF TypeOK, TaskFails, Leaves
<1>2. /\ UNCHANGED rooms /\ todo' \subseteq todo /\ due' \subseteq due
      /\ prov' = prov \/ prov'[1] \notin {"panel", "plan", "make", "keep"}
      /\ boot' = boot \/ boot'[1] # "write"
  BY <1>0 DEF TaskFails, Leaves
<1>3. UNCHANGED runner \/ task'[1] \notin {"clean", "mark"}  BY <1>0 DEF TypeOK, TaskFails, Leaves
<1>4. /\ UNCHANGED state \/ state' \notin {"none", "cleaned"}
      /\ state \in Over => state' \in Over
      /\ state' = "none" => prov'[1] = "off"
  BY <1>0 DEF TaskFails, Leaves, Cleaning, Endable, Over, Finals
<1> QED  BY <1>1, <1>2, <1>3, <1>4, Quiet DEF QuietStep

(* TaskCancelled keeps the invariant. *)
LEMMA TaskCancelledKeeps == ASSUME ResourceAssumptions, Inv, TaskCancelled PROVE Inv'
<1> USE DEF session, rooms, runner, starter, world, Step, Off, At, AtRoom
<1>0. TypeOK /\ (Cleaning => state \in Over) /\ (state = "none" => prov[1] = "off")  BY DEF Inv
<1>1. TypeOK'
  <2>1. task' \in Tasks  BY <1>0 DEF TypeOK, Tasks, TaskCancelled, Leaves
  <2>2. lost' \in BOOLEAN  BY <1>0 DEF TypeOK, Abandons, TaskCancelled, Leaves
  <2> QED  BY <1>0, <2>1, <2>2 DEF TypeOK, TaskCancelled, Leaves
<1>2. /\ UNCHANGED rooms /\ todo' \subseteq todo /\ due' \subseteq due
      /\ prov' = prov \/ prov'[1] \notin {"panel", "plan", "make", "keep"}
      /\ boot' = boot \/ boot'[1] # "write"
  BY <1>0 DEF TaskCancelled, Leaves
<1>3. UNCHANGED runner \/ task'[1] \notin {"clean", "mark"}
  BY <1>0 DEF TypeOK, TaskCancelled, Leaves
<1>4. /\ UNCHANGED state \/ state' \notin {"none", "cleaned"}
      /\ state \in Over => state' \in Over
      /\ state' = "none" => prov'[1] = "off"
  BY <1>0 DEF TaskCancelled, Leaves, Cleaning, Endable, Over, Finals
<1> QED  BY <1>1, <1>2, <1>3, <1>4, Quiet DEF QuietStep

(* Crash keeps the invariant. *)
LEMMA CrashKeeps == ASSUME ResourceAssumptions, Inv, Crash PROVE Inv'
<1> USE DEF session, rooms, runner, starter, world, Step, Off, At, AtRoom
<1>0. TypeOK /\ (Cleaning => state \in Over) /\ (state = "none" => prov[1] = "off")  BY DEF Inv
<1>1. TypeOK'
  <2>1. task' \in Tasks  BY <1>0 DEF TypeOK, Tasks, Crash, Leaves
  <2>2. boot' \in Boots  BY <1>0 DEF TypeOK, Boots, Recovery, Crash, Leaves
  <2>3. prov' \in Provs  BY <1>0 DEF TypeOK, Provs, Crash, Leaves
  <2>4. up' \in BOOLEAN /\ faults' \in 0..MaxFaults /\ crashes' \in 0..MaxCrashes
    <3>1. crashes \in 0..MaxCrashes /\ faults \in 0..MaxFaults  BY <1>0 DEF TypeOK
    <3>2. MaxCrashes \in Nat /\ MaxFaults \in Nat  BY DEF ResourceAssumptions
    <3>3. faults' = faults /\ crashes < MaxCrashes /\ crashes' = crashes + 1
      BY DEF Crash
    <3>4. up' \in BOOLEAN  BY DEF Crash
    <3>5. faults' \in 0..MaxFaults /\ crashes' \in 0..MaxCrashes  BY <3>1, <3>2, <3>3
    <3> QED  BY <3>4, <3>5
  <2>5. present' \in BOOLEAN /\ failed' \in BOOLEAN /\ old' \in BOOLEAN
    BY <1>0 DEF TypeOK, Crash, Leaves
  <2>6. calls' \subseteq Calls  BY <1>0 DEF TypeOK, Calls, Crash, Leaves
  <2> QED  BY <1>0, <2>1, <2>2, <2>3, <2>4, <2>5, <2>6 DEF TypeOK, Crash, Leaves
<1>2. /\ UNCHANGED rooms /\ todo' \subseteq todo /\ due' \subseteq due
      /\ prov' = prov \/ prov'[1] \notin {"panel", "plan", "make", "keep"}
      /\ boot' = boot \/ boot'[1] # "write"
  BY <1>0 DEF Crash, Leaves
<1>3. UNCHANGED runner \/ task'[1] \notin {"clean", "mark"}  BY <1>0 DEF TypeOK, Crash, Leaves
<1>4. /\ UNCHANGED state \/ state' \notin {"none", "cleaned"}
      /\ state \in Over => state' \in Over
      /\ state' = "none" => prov'[1] = "off"
  BY <1>0 DEF Crash, Leaves, Cleaning, Endable, Over, Finals
<1> QED  BY <1>1, <1>2, <1>3, <1>4, Quiet DEF QuietStep

(* Boot keeps the invariant. *)
LEMMA BootKeeps == ASSUME ResourceAssumptions, Inv, Boot PROVE Inv'
<1> USE DEF session, rooms, runner, starter, world, Step, Off, At, AtRoom
<1>0. TypeOK /\ (Cleaning => state \in Over) /\ (state = "none" => prov[1] = "off")  BY DEF Inv
<1>1. TypeOK'
  <2>1. boot' \in Boots  BY <1>0 DEF TypeOK, Boots, Recovery, Boot
  <2> QED  BY <1>0, <2>1 DEF TypeOK, Boot
<1>2. /\ UNCHANGED rooms /\ todo' \subseteq todo /\ due' \subseteq due
      /\ prov' = prov \/ prov'[1] \notin {"panel", "plan", "make", "keep"}
      /\ boot' = boot \/ boot'[1] # "write"
  BY <1>0 DEF Boot
<1>3. UNCHANGED runner \/ task'[1] \notin {"clean", "mark"}  BY <1>0 DEF TypeOK, Boot
<1>4. /\ UNCHANGED state \/ state' \notin {"none", "cleaned"}
      /\ state \in Over => state' \in Over
      /\ state' = "none" => prov'[1] = "off"
  BY <1>0 DEF Boot, Cleaning, Endable, Over, Finals
<1> QED  BY <1>1, <1>2, <1>3, <1>4, Quiet DEF QuietStep

(* ListDue keeps the invariant. *)
LEMMA ListDueKeeps == ASSUME ResourceAssumptions, Inv, ListDue PROVE Inv'
<1> USE DEF session, rooms, runner, starter, world, Step, Off, At, AtRoom
<1>0. TypeOK /\ rec \in [Rooms -> Recs] /\ disc \in [Rooms -> Discs]  BY DEF Inv, TypeOK
<1>1. TypeOK'
  <2>1. boot' \in Boots  BY <1>0 DEF TypeOK, Boots, Recovery, ListDue
  <2>2. todo' \subseteq Rooms \X Ids /\ due' \subseteq Rooms \X Recovery \X Ids
    BY <1>0, DueOK DEF TypeOK, ListDue
  <2> QED  BY <1>0, <2>1, <2>2 DEF TypeOK, ListDue
<1>2. ASSUME NEW q \in Rooms
      PROVE  RowInv(q)' /\ ProvInv(q)' /\ TaskInv(q)' /\ BootInv(q)' /\ CleanInv(q)'
  <2>0. RowInv(q) /\ ProvInv(q) /\ TaskInv(q) /\ BootInv(q) /\ CleanInv(q)  BY DEF Inv
  <2> USE DEF Unplanned
  <2>1. RowInv(q)'  BY <1>0, <2>0 DEF RowInv, ProvInv, TaskInv, BootInv, Ahead, Recovery, ListDue
  <2>2. ProvInv(q)'  BY <1>0, <2>0 DEF ProvInv, RowInv, TaskInv, BootInv, Ahead, ListDue
  <2>3. TaskInv(q)'  BY <1>0, <2>0 DEF TaskInv, RowInv, ListDue
  <2>4. BootInv(q)'  BY <1>0, <2>0, DueOK DEF BootInv, RowInv, ListDue
  <2>5. CleanInv(q)'
    BY <1>0, <2>0 DEF CleanInv, Settled, Cleaning, RowInv, TaskInv, BootInv, ListDue
  <2> QED  BY <2>1, <2>2, <2>3, <2>4, <2>5
<1>3. (Cleaning => state \in Over)' /\ (state = "none" => prov[1] = "off")'
  BY <1>0 DEF Inv, Cleaning, Over, Finals, ListDue
<1> QED  BY <1>1, <1>2, <1>3 DEF Inv

(* Reconcile keeps the invariant. *)
LEMMA ReconcileKeeps == ASSUME ResourceAssumptions, Inv, NEW r \in Rooms, Reconcile(r) PROVE Inv'
<1> USE DEF session, rooms, runner, starter, world, Step, Off, At, AtRoom
<1>0. TypeOK /\ rec \in [Rooms -> Recs] /\ disc \in [Rooms -> Discs]  BY DEF Inv, TypeOK
<1>1. TypeOK'
  <2>1. boot' \in Boots  BY <1>0 DEF TypeOK, Boots, Recovery, Reconcile, FindKnown, FindUnknown
  <2> QED  BY <1>0, <2>1 DEF TypeOK, Reconcile, FindKnown, FindUnknown
<1>2. ASSUME NEW q \in Rooms
      PROVE  RowInv(q)' /\ ProvInv(q)' /\ TaskInv(q)' /\ BootInv(q)' /\ CleanInv(q)'
  <2>0. RowInv(q) /\ ProvInv(q) /\ TaskInv(q) /\ BootInv(q) /\ CleanInv(q)  BY DEF Inv
  <2> USE DEF Unplanned
  <2>1. RowInv(q)'
    BY <1>0, <2>0 DEF RowInv, ProvInv, TaskInv, BootInv, Ahead, Recovery, Reconcile, FindKnown,
       FindUnknown
  <2>2. ProvInv(q)'
    BY <1>0, <2>0 DEF ProvInv, RowInv, TaskInv, BootInv, Ahead, Reconcile, FindKnown, FindUnknown
  <2>3. TaskInv(q)'  BY <1>0, <2>0 DEF TaskInv, RowInv, Reconcile, FindKnown, FindUnknown
  <2>4. BootInv(q)'  BY <1>0, <2>0 DEF BootInv, RowInv, Reconcile, FindKnown, FindUnknown
  <2>5. CleanInv(q)'
    BY <1>0, <2>0 DEF CleanInv, Settled, Cleaning, RowInv, TaskInv, BootInv, Reconcile,
       FindKnown, FindUnknown
  <2> QED  BY <2>1, <2>2, <2>3, <2>4, <2>5
<1>3. (Cleaning => state \in Over)' /\ (state = "none" => prov[1] = "off")'
  BY <1>0 DEF Inv, Cleaning, Over, Finals, Reconcile, FindKnown, FindUnknown
<1> QED  BY <1>1, <1>2, <1>3 DEF Inv

(* WriteFound keeps the invariant. *)
LEMMA WriteFoundKeeps ==
    ASSUME ResourceAssumptions, Inv, NEW r \in Rooms, WriteFound(r) PROVE Inv'
<1> USE DEF session, rooms, runner, starter, world, Step, Off, At, AtRoom
<1>0. TypeOK /\ rec \in [Rooms -> Recs] /\ disc \in [Rooms -> Discs]  BY DEF Inv, TypeOK
<1>1. TypeOK'
  <2>1. boot' \in Boots  BY <1>0 DEF TypeOK, Boots, Recovery, WriteFound, Written
  <2>2. rec' \in [Rooms -> Recs] /\ disc' \in [Rooms -> Discs]
    BY <1>0 DEF TypeOK, Boots, Recs, Recovery, Discs, WriteFound, Written
  <2> QED  BY <1>0, <2>1, <2>2 DEF TypeOK, WriteFound, Written
<1>2. ASSUME NEW q \in Rooms
      PROVE  RowInv(q)' /\ ProvInv(q)' /\ TaskInv(q)' /\ BootInv(q)' /\ CleanInv(q)'
  <2>0. RowInv(q) /\ ProvInv(q) /\ TaskInv(q) /\ BootInv(q) /\ CleanInv(q)  BY DEF Inv
  <2> USE DEF Unplanned
  <2>r. RowInv(r) /\ ProvInv(r) /\ TaskInv(r) /\ BootInv(r) /\ CleanInv(r)  BY DEF Inv
  <2>a. /\ ~ Unplanned(r) /\ boot[3] \in {"active", "deleted", "unresolved", "found"}
        /\ boot[3] \in {"active", "deleted"} => r \in known
        /\ boot[3] = "found" => disc[r] # "absent"
        /\ boot[3] = "deleted" => disc[r] = "gone"
    BY <1>0, <2>r DEF WriteFound, BootInv, TypeOK, Boots
  <2>b. rec'[q] = IF q = r THEN Written(boot[3]) ELSE rec[q]  BY <1>0 DEF WriteFound
  <2>c. Unplanned(q)' <=> Unplanned(q)  BY <2>a, <2>b DEF Written
  <2>d. /\ known \subseteq known'
        /\ q \in known' => q \in known \/ (q = r /\ boot[3] = "found")
        /\ q = r /\ boot[3] = "found" => q \in known'
    <3>1. known' = IF boot[3] = "found" THEN known \cup {r} ELSE known  BY DEF WriteFound
    <3> QED  BY <3>1
  <2>1. RowInv(q)'  BY <2>0, <2>a, <2>b, <2>c, <2>d DEF RowInv, Written, WriteFound
  <2>2. ProvInv(q)'  BY <2>0, <2>c DEF ProvInv, Ahead, WriteFound
  <2>3. TaskInv(q)'  BY <2>0, <2>c, <2>d DEF TaskInv, WriteFound
  <2>4. BootInv(q)'  BY <2>0, <2>c, <2>d DEF BootInv, WriteFound
  <2>5. CleanInv(q)'
    BY <1>0, <2>0 DEF CleanInv, Settled, Cleaning, RowInv, TaskInv, BootInv, WriteFound, Written
  <2> QED  BY <2>1, <2>2, <2>3, <2>4, <2>5
<1>3. (Cleaning => state \in Over)' /\ (state = "none" => prov[1] = "off")'
  BY <1>0 DEF Inv, Cleaning, Over, Finals, WriteFound, Written
<1> QED  BY <1>1, <1>2, <1>3 DEF Inv

(* ReconcileFails keeps the invariant. *)
LEMMA ReconcileFailsKeeps ==
    ASSUME ResourceAssumptions, Inv, NEW r \in Rooms, ReconcileFails(r) PROVE Inv'
<1> USE DEF session, rooms, runner, starter, world, Step, Off, At, AtRoom, Fault
<1>0. TypeOK /\ rec \in [Rooms -> Recs] /\ disc \in [Rooms -> Discs]  BY DEF Inv, TypeOK
<1>1. TypeOK'
  <2>1. boot' \in Boots  BY <1>0 DEF TypeOK, Boots, Recovery, ReconcileFails
  <2>2. rec' \in [Rooms -> Recs] /\ disc' \in [Rooms -> Discs]
    BY <1>0 DEF TypeOK, Recs, Recovery, Discs, ReconcileFails
  <2>3. up' \in BOOLEAN /\ faults' \in 0..MaxFaults /\ crashes' \in 0..MaxCrashes
    BY <1>0, FaultOK DEF ReconcileFails
  <2> QED  BY <1>0, <2>1, <2>2, <2>3 DEF TypeOK, ReconcileFails
<1>2. ASSUME NEW q \in Rooms
      PROVE  RowInv(q)' /\ ProvInv(q)' /\ TaskInv(q)' /\ BootInv(q)' /\ CleanInv(q)'
  <2>0. RowInv(q) /\ ProvInv(q) /\ TaskInv(q) /\ BootInv(q) /\ CleanInv(q)  BY DEF Inv
  <2> USE DEF Unplanned
  <2>1. RowInv(q)'
    BY <1>0, <2>0 DEF RowInv, ProvInv, TaskInv, BootInv, Ahead, Recovery, ReconcileFails
  <2>2. ProvInv(q)'  BY <1>0, <2>0 DEF ProvInv, RowInv, TaskInv, BootInv, Ahead, ReconcileFails
  <2>3. TaskInv(q)'  BY <1>0, <2>0 DEF TaskInv, RowInv, ReconcileFails
  <2>4. BootInv(q)'  BY <1>0, <2>0 DEF BootInv, RowInv, ReconcileFails
  <2>5. CleanInv(q)'
    BY <1>0, <2>0 DEF CleanInv, Settled, Cleaning, RowInv, TaskInv, BootInv, ReconcileFails
  <2> QED  BY <2>1, <2>2, <2>3, <2>4, <2>5
<1>3. (Cleaning => state \in Over)' /\ (state = "none" => prov[1] = "off")'
  BY <1>0 DEF Inv, Cleaning, Over, Finals, ReconcileFails
<1> QED  BY <1>1, <1>2, <1>3 DEF Inv

(* ListSessions keeps the invariant. *)
LEMMA ListSessionsKeeps == ASSUME ResourceAssumptions, Inv, ListSessions PROVE Inv'
<1> USE DEF session, rooms, runner, starter, world, Step, Off, At, AtRoom
<1>0. TypeOK /\ (Cleaning => state \in Over) /\ (state = "none" => prov[1] = "off")  BY DEF Inv
<1>1. TypeOK'
  <2>1. task' \in Tasks  BY <1>0 DEF TypeOK, Tasks, ListSessions, Schedule, Resumed
  <2>2. boot' \in Boots  BY <1>0 DEF TypeOK, Boots, Recovery, ListSessions, Schedule, Resumed
  <2> QED  BY <1>0, <2>1, <2>2 DEF TypeOK, ListSessions, Schedule, Resumed
<1>2. /\ UNCHANGED rooms /\ todo' \subseteq todo /\ due' \subseteq due
      /\ prov' = prov \/ prov'[1] \notin {"panel", "plan", "make", "keep"}
      /\ boot' = boot \/ boot'[1] # "write"
  BY <1>0 DEF ListSessions, Schedule, Resumed
<1>3. UNCHANGED runner \/ task'[1] \notin {"clean", "mark"}
  BY <1>0 DEF TypeOK, ListSessions, Schedule, Resumed
<1>4. /\ UNCHANGED state \/ state' \notin {"none", "cleaned"}
      /\ state \in Over => state' \in Over
      /\ state' = "none" => prov'[1] = "off"
  BY <1>0 DEF ListSessions, Schedule, Resumed, Cleaning, Endable, Over, Finals
<1> QED  BY <1>1, <1>2, <1>3, <1>4, Quiet DEF QuietStep

(* EndOrphan keeps the invariant. *)
LEMMA EndOrphanKeeps == ASSUME ResourceAssumptions, Inv, EndOrphan PROVE Inv'
<1> USE DEF session, rooms, runner, starter, world, Step, Off, At, AtRoom
<1>0. TypeOK /\ (Cleaning => state \in Over) /\ (state = "none" => prov[1] = "off")  BY DEF Inv
<1>1. TypeOK'
  <2>1. task' \in Tasks  BY <1>0 DEF TypeOK, Tasks, EndOrphan, BeginEnd, Starts
  <2>2. boot' \in Boots  BY <1>0 DEF TypeOK, Boots, Recovery, EndOrphan, BeginEnd, Starts
  <2>3. state' \in {"none", "creating", "live"} \cup Over
    BY <1>0 DEF TypeOK, Finals, Over, Endable, EndOrphan, BeginEnd, Starts
  <2>4. calls' \subseteq Calls  BY <1>0 DEF TypeOK, Calls, EndOrphan, BeginEnd, Starts
  <2> QED  BY <1>0, <2>1, <2>2, <2>3, <2>4 DEF TypeOK, EndOrphan, BeginEnd, Starts
<1>2. /\ UNCHANGED rooms /\ todo' \subseteq todo /\ due' \subseteq due
      /\ prov' = prov \/ prov'[1] \notin {"panel", "plan", "make", "keep"}
      /\ boot' = boot \/ boot'[1] # "write"
  BY <1>0 DEF EndOrphan, BeginEnd, Starts
<1>3. UNCHANGED runner \/ task'[1] \notin {"clean", "mark"}
  BY <1>0 DEF TypeOK, EndOrphan, BeginEnd, Starts
<1>4. /\ UNCHANGED state \/ state' \notin {"none", "cleaned"}
      /\ state \in Over => state' \in Over
      /\ state' = "none" => prov'[1] = "off"
  BY <1>0 DEF EndOrphan, BeginEnd, Starts, Cleaning, Endable, Over, Finals
<1> QED  BY <1>1, <1>2, <1>3, <1>4, Quiet DEF QuietStep

(* StartupFails keeps the invariant. *)
LEMMA StartupFailsKeeps == ASSUME ResourceAssumptions, Inv, StartupFails PROVE Inv'
<1> USE DEF session, rooms, runner, starter, world, Step, Off, At, AtRoom, Fault
<1>0. TypeOK /\ (Cleaning => state \in Over) /\ (state = "none" => prov[1] = "off")  BY DEF Inv
<1>1. TypeOK'
  <2>1. boot' \in Boots  BY <1>0 DEF TypeOK, Boots, Recovery, StartupFails
  <2>2. up' \in BOOLEAN /\ faults' \in 0..MaxFaults /\ crashes' \in 0..MaxCrashes
    BY <1>0, FaultOK DEF StartupFails
  <2>3. lost' \in BOOLEAN  BY <1>0 DEF TypeOK, Abandons, StartupFails
  <2> QED  BY <1>0, <2>1, <2>2, <2>3 DEF TypeOK, StartupFails
<1>2. /\ UNCHANGED rooms /\ todo' \subseteq todo /\ due' \subseteq due
      /\ prov' = prov \/ prov'[1] \notin {"panel", "plan", "make", "keep"}
      /\ boot' = boot \/ boot'[1] # "write"
  BY <1>0 DEF StartupFails
<1>3. UNCHANGED runner \/ task'[1] \notin {"clean", "mark"}  BY <1>0 DEF TypeOK, StartupFails
<1>4. /\ UNCHANGED state \/ state' \notin {"none", "cleaned"}
      /\ state \in Over => state' \in Over
      /\ state' = "none" => prov'[1] = "off"
  BY <1>0 DEF StartupFails, Cleaning, Endable, Over, Finals
<1> QED  BY <1>1, <1>2, <1>3, <1>4, Quiet DEF QuietStep

(* AdminDeletes keeps the invariant. *)
LEMMA AdminDeletesKeeps ==
    ASSUME ResourceAssumptions, Inv, NEW r \in Rooms, AdminDeletes(r) PROVE Inv'
<1> USE DEF session, rooms, runner, starter, world, Step, Off, At, AtRoom, Fault
<1>0. TypeOK /\ rec \in [Rooms -> Recs] /\ disc \in [Rooms -> Discs]  BY DEF Inv, TypeOK
<1>1. TypeOK'
  <2>1. rec' \in [Rooms -> Recs] /\ disc' \in [Rooms -> Discs]
    BY <1>0 DEF TypeOK, Recs, Recovery, Discs, AdminDeletes
  <2>2. up' \in BOOLEAN /\ faults' \in 0..MaxFaults /\ crashes' \in 0..MaxCrashes
    BY <1>0, FaultOK DEF AdminDeletes
  <2> QED  BY <1>0, <2>1, <2>2 DEF TypeOK, AdminDeletes
<1>2. ASSUME NEW q \in Rooms
      PROVE  RowInv(q)' /\ ProvInv(q)' /\ TaskInv(q)' /\ BootInv(q)' /\ CleanInv(q)'
  <2>0. RowInv(q) /\ ProvInv(q) /\ TaskInv(q) /\ BootInv(q) /\ CleanInv(q)  BY DEF Inv
  <2> USE DEF Unplanned
  <2>1. RowInv(q)'
    BY <1>0, <2>0 DEF RowInv, ProvInv, TaskInv, BootInv, Ahead, Recovery, AdminDeletes
  <2>2. ProvInv(q)'  BY <1>0, <2>0 DEF ProvInv, RowInv, TaskInv, BootInv, Ahead, AdminDeletes
  <2>3. TaskInv(q)'  BY <1>0, <2>0 DEF TaskInv, RowInv, AdminDeletes
  <2>4. BootInv(q)'  BY <1>0, <2>0 DEF BootInv, RowInv, AdminDeletes
  <2>5. CleanInv(q)'
    BY <1>0, <2>0 DEF CleanInv, Settled, Cleaning, RowInv, TaskInv, BootInv, AdminDeletes
  <2> QED  BY <2>1, <2>2, <2>3, <2>4, <2>5
<1>3. (Cleaning => state \in Over)' /\ (state = "none" => prov[1] = "off")'
  BY <1>0 DEF Inv, Cleaning, Over, Finals, AdminDeletes
<1> QED  BY <1>1, <1>2, <1>3 DEF Inv


-----------------------------------------------------------------------------
(* The session starts without rooms. *)
LEMMA InitInv == ASSUME ResourceAssumptions, Init PROVE Inv
<1>1. TypeOK
  <2>1. faults = 0 /\ crashes = 0 /\ MaxFaults \in Nat /\ MaxCrashes \in Nat
    BY DEF Init, ResourceAssumptions
  <2>2. faults \in 0..MaxFaults /\ crashes \in 0..MaxCrashes  BY <2>1
  <2>3. prov \in Provs /\ task \in Tasks /\ boot \in Boots
    BY DEF Init, Step, Off, Provs, Tasks, Boots
  <2>4. rec \in [Rooms -> Recs] /\ disc \in [Rooms -> Discs]  BY DEF Init, Recs, Discs
  <2> QED  BY <2>2, <2>3, <2>4 DEF Init, TypeOK
<1> QED
  BY <1>1 DEF Init, Inv, RowInv, ProvInv, TaskInv, BootInv, CleanInv, Ahead, Unplanned,
              Settled, Cleaning, Step, Off

(* Every step of the system keeps the invariant. *)
LEMMA NextKeeps == ASSUME ResourceAssumptions, Inv, [Next]_vars PROVE Inv'
<1>1. CASE Request
  BY <1>1, CreateKeeps, EndKeeps, JoinKeeps, LeaveKeeps, VoiceEmptiesKeeps
  DEF Request
<1>2. CASE ProvisionStep
  BY <1>2, SendPanelKeeps, PublishKeeps, WithdrawKeeps, FailSessionKeeps, PlanKeeps,
     MakeKeeps, KeepKeeps
  DEF ProvisionStep
<1>3. CASE TaskStep
  BY <1>3, CheckMembersKeeps, CheckStateKeeps, CommitEndKeeps, ListKeeps, FinalizeKeeps,
     TaskCancelledKeeps, SkipUnprovenKeeps, RemoveRoomKeeps, MarkRoomKeeps
  DEF TaskStep
<1>4. CASE StartStep
  BY <1>4, ListDueKeeps, ListSessionsKeeps, EndOrphanKeeps, ReconcileKeeps, WriteFoundKeeps
  DEF StartStep
<1>5. CASE Failure
  BY <1>5, PanelFailsKeeps, ProvisionStopsKeeps, TaskFailsKeeps, StartupFailsKeeps,
     RoomFailsKeeps, RemoveFailsKeeps, ReconcileFailsKeeps, AdminDeletesKeeps,
     CallFailsKeeps
  DEF Failure
<1>6. CASE Expire \/ ExpireLate \/ Crash \/ Boot
  BY <1>6, ExpireKeeps, ExpireLateKeeps, CrashKeeps, BootKeeps
<1>7. CASE \E call \in Calls : FollowUp(call)  BY <1>7, FollowUpKeeps
<1>8. CASE UNCHANGED vars
  <2>1. TypeOK'  BY <1>8 DEF Inv, TypeOK, vars, session, rooms, runner, starter, world
  <2>2. QuietStep  BY <1>8 DEF QuietStep, Inv, vars, session, rooms, runner, starter, world
  <2> QED  BY <2>1, <2>2, Quiet
<1> QED  BY <1>1, <1>2, <1>3, <1>4, <1>5, <1>6, <1>7, <1>8 DEF Next

(* The invariant holds in every behaviour. *)
LEMMA SpecInv == Spec => []Inv
<1>1. Init => Inv  BY InitInv, ResourceAssumptions
<1>2. Inv /\ [Next]_vars => Inv'  BY NextKeeps, ResourceAssumptions
<1> QED  BY <1>1, <1>2, PTL DEF Spec

(* Rows, rooms and program counters keep their types. *)
THEOREM TypesOK == Spec => []TypeOK
<1>1. Inv => TypeOK  BY DEF Inv
<1> QED  BY <1>1, SpecInv, PTL

(* finalize_end_session writes "cleaned" only over rooms that are not open, but
   for those planned after the session had ended. *)
THEOREM CleanedIsClean == Spec => []CleanedLeavesNothing
<1>1. Inv => CleanedLeavesNothing
  BY DEF Inv, CleanInv, RowInv, Settled, Unplanned, CleanedLeavesNothing
<1> QED  BY <1>1, SpecInv, PTL

(* Whatever call fails and whenever the process dies, a room that is open has its
   id in its row or a row the next start will look into. *)
THEOREM NothingIsForgotten == Spec => []RoomsAreFound
<1>1. Inv => RoomsAreFound
  <2> SUFFICES ASSUME Inv, NEW r \in Rooms, disc[r] = "there", r \notin known
               PROVE  rec[r] \in Recovery \ {"active"}
    BY DEF RoomsAreFound
  <2>1. RowInv(r)  BY DEF Inv
  <2> QED  BY <2>1 DEF RowInv, Unplanned, Recovery
<1> QED  BY <1>1, SpecInv, PTL

(* The cleanup and the startup pass mark a room deleted only when it is gone. *)
THEOREM DeletedRoomsAreGone == Spec => []DeletedIsGone
<1>1. Inv => DeletedIsGone  BY DEF Inv, RowInv, DeletedIsGone
<1> QED  BY <1>1, SpecInv, PTL
=============================================================================
