----------------------------- MODULE HubRoster -----------------------------
(***************************************************************************)
(* Who is in which Community Hub session, and in what state the session    *)
(* is: the stored functions of 202610200016_dankshield_community_hub.sql.  *)
(*                                                                         *)
(* Each function is one transaction that locks the session's row (and the  *)
(* guild's, where it counts sessions) before it reads, so it is one action *)
(* here (clear_stale_ready is one statement, which locks members' rows     *)
(* first); a function that raises changes nothing and is no action at all. *)
(* The hourly and cooldown limits of session creation, maintenance mode    *)
(* and the availability table only refuse, so any call they would let      *)
(* through may be made.  joined_at only orders candidates: here any of     *)
(* them may be the first.                                                  *)
(***************************************************************************)
EXTENDS Naturals, FiniteSets

CONSTANTS
    Users,
    Nobody,         \* null
    Sessions,       \* sessions, each with its idempotency key
    GameOf,         \* [Sessions -> games]
    CapacityOf,     \* [Sessions -> seats]
    Blocks,         \* pairs of users one of whom blocks the other
    MaxActive,      \* max_active_sessions
    MaxPerMember,   \* max_active_sessions_per_member
    MinPlayers,     \* minimum_players_to_start
    ReadyToStart,   \* require_ready_to_start
    StaffOverride   \* the bot or a moderator may act, too

ASSUME RosterAssumptions ==
    /\ IsFiniteSet(Users) /\ Nobody \notin Users
    /\ CapacityOf \in [Sessions -> Nat] /\ \A s \in Sessions : CapacityOf[s] >= 2
    /\ MinPlayers \in Nat /\ MinPlayers >= 1
    /\ MaxActive \in Nat /\ MaxPerMember \in Nat
    /\ ReadyToStart \in BOOLEAN /\ StaffOverride \in BOOLEAN

VARIABLES
    state,      \* [Sessions -> States], "none": no such row yet
    locked,     \* sessions whose privacy is 'locked'; the bot makes them 'public'
    host,       \* [Sessions -> host_id]
    role,       \* [Sessions -> [Users -> Roles]], "none": no row, or left_at is set
    ready       \* [Sessions -> users whose row says ready]

vars == <<state, locked, host, role, ready>>

Roles     == {"none", "host", "cohost", "member", "waitlist"}
Seated    == {"host", "cohost", "member"}
Gathering == {"open", "forming", "ready"}
Playing   == Gathering \cup {"active", "paused"}
Active    == Playing \cup {"creating", "ending"}
Finals    == {"ended", "archived", "cleaned", "failed"}
Over      == Finals \cup {"ending"}
States    == Active \cup Finals \cup {"none"}

Participants(s) == {u \in Users : role[s][u] \in Seated}
Waiting(s)      == {u \in Users : role[s][u] = "waitlist"}
Authority(s, roles) == StaffOverride \/ \E u \in Users : role[s][u] \in roles
BlockedBy(s, u) == \E v \in Participants(s) : {u, v} \in Blocks

(* The sessions that count against a member's limit. *)
Seats(u) == {s \in Sessions : state[s] \in Active /\ role[s][u] \in Seated}

With(f, s, v) == [f EXCEPT ![s] = v]

Init ==
    /\ state = [s \in Sessions |-> "none"]
    /\ locked = {}
    /\ host = [s \in Sessions |-> Nobody]
    /\ role = [s \in Sessions |-> [u \in Users |-> "none"]]
    /\ ready = [s \in Sessions |-> {}]

-----------------------------------------------------------------------------
(* Creation *)

Creatable(s, u) ==
    /\ state[s] = "none"
    /\ Cardinality({r \in Sessions : state[r] \in Active}) < MaxActive
    /\ Cardinality(Seats(u)) < MaxPerMember

(* The new session's rows: its host, and whoever Quick Match puts beside it. *)
Found(s, u, others) ==
    /\ state' = With(state, s, "creating")
    /\ host' = With(host, s, u)
    /\ role' = With(role, s, [v \in Users |-> IF v = u THEN "host"
                                              ELSE IF v \in others THEN "member" ELSE "none"])
    /\ ready' = With(ready, s, {u})
    /\ UNCHANGED locked

Create(s, u) == Creatable(s, u) /\ Found(s, u, {})

(* "Play Again": only the last host, with the old session's settings. *)
Restart(s, old, u) ==
    /\ Creatable(s, u)
    /\ state[old] \in {"ended", "archived", "cleaned"} /\ host[old] = u
    /\ GameOf[s] = GameOf[old] /\ CapacityOf[s] = CapacityOf[old]
    /\ Found(s, u, {})

-----------------------------------------------------------------------------
(* Joining and leaving *)

(* Mutant: whoever finds the session empty is a member like any other. *)
Seat_NoHost(s) ==
    IF Cardinality(Participants(s)) >= CapacityOf[s] THEN "waitlist" ELSE "member"

Seat(s) ==
    CASE Participants(s) = {} -> "host"
      [] Cardinality(Participants(s)) >= CapacityOf[s] -> "waitlist"
      [] OTHER -> "member"

Join(s, u) ==
    /\ state[s] \in Gathering \cup {"active"} /\ s \notin locked
    /\ role[s][u] = "none" /\ ~ BlockedBy(s, u)
    /\ Cardinality(Seats(u)) < MaxPerMember
    /\ role' = [role EXCEPT ![s][u] = Seat(s)]
    /\ ready' = IF Seat(s) = "host" THEN With(ready, s, ready[s] \cup {u})
                                    ELSE With(ready, s, ready[s] \ {u})
    /\ host' = IF Seat(s) = "host" THEN With(host, s, u) ELSE host
    /\ state' = IF state[s] = "open" /\ Participants(s) # {}
                THEN With(state, s, "forming") ELSE state
    /\ UNCHANGED locked

(* Quick Match prefers a public session of the game that has room ... *)
QuickMatchJoin(s, u) ==
    /\ Cardinality(Participants(s)) < CapacityOf[s]
    /\ Join(s, u)

(* ... and otherwise claims a member who offered to play, if it is in no session
   of the game.  The session is of the smaller of six and the maximal size. *)
QuickMatchClaim(s, u, c) ==
    /\ Creatable(s, u)
    /\ c # u /\ {u, c} \notin Blocks
    /\ \A r \in Seats(c) : GameOf[r] # GameOf[s]
    /\ Found(s, u, {c})

(* Who follows a host that leaves: a co-host before a member. *)
Heirs(s, u) ==
    LET cohosts == {v \in Users \ {u} : role[s][v] = "cohost"}
        members == {v \in Users \ {u} : role[s][v] = "member"}
        first   == IF cohosts # {} THEN cohosts ELSE members
    IN  IF role[s][u] = "host" /\ first # {} THEN first ELSE {Nobody}

(* Mutant: nobody is promoted from the waitlist. *)
Promoted_Never(s, u) == {Nobody}

(* "Promote one waitlisted member if a capacity slot opened." *)
Promoted(s, u) == IF Waiting(s) \ {u} = {} THEN {Nobody} ELSE Waiting(s) \ {u}

(* Mutant: a session left before it was published keeps its state. *)
Emptied_NotCreating == {"forming", "ready", "active", "paused"}

(* The states a session falls back to "open" from when its last participant goes. *)
Emptied == {"creating", "forming", "ready", "active", "paused"}

(* Mutants: the leaving member's mark is forgotten; the mark of no heir is set. *)
Marks_Kept(s, u, heir) == ready[s] \cup ({heir} \ {Nobody})
Marks_Null(s, u, heir) == (ready[s] \ {u}) \cup {heir}

Marks(s, u, heir) == (ready[s] \ {u}) \cup ({heir} \ {Nobody})

Leave(s, u) ==
    /\ role[s][u] # "none"
    /\ \E heir \in Heirs(s, u), next \in Promoted(s, u) :
          /\ role' = With(role, s, [v \in Users |->
                        CASE v = u -> "none"
                          [] v = heir -> "host"
                          [] v = next -> "member"
                          [] OTHER -> role[s][v]])
          /\ host' = IF heir = Nobody THEN host ELSE With(host, s, heir)
          /\ ready' = With(ready, s, Marks(s, u, heir))
          /\ state' = IF state[s] \in Emptied /\ Participants(s) \subseteq {u} /\ next = Nobody
                      THEN With(state, s, "open") ELSE state
    /\ UNCHANGED locked

-----------------------------------------------------------------------------
(* Ready checks *)

Gathered(s, readies) ==
    CASE Cardinality(Participants(s)) < 2 -> "open"
      [] Participants(s) \subseteq readies -> "ready"
      [] OTHER -> "forming"

(* Mutant: a ready check in any state. *)
SetReady_AnyState(s, u, yes) ==
    /\ u \in Participants(s)
    /\ ready' = With(ready, s, IF yes THEN ready[s] \cup {u} ELSE ready[s] \ {u})
    /\ state' = With(state, s, Gathered(s, ready'[s]))
    /\ UNCHANGED <<locked, host, role>>

SetReady(s, u, yes) ==
    /\ state[s] \in Gathering /\ u \in Participants(s)
    /\ ready' = With(ready, s, IF yes THEN ready[s] \cup {u} ELSE ready[s] \ {u})
    /\ state' = With(state, s, Gathered(s, ready'[s]))
    /\ UNCHANGED <<locked, host, role>>

(* The maintenance loop drops ready marks that are too old, in any state.  Its
   one statement treats every session of the guild by itself. *)
ClearStaleReady(s) ==
    /\ \E old \in SUBSET ready[s] \ {{}} : ready' = With(ready, s, ready[s] \ old)
    /\ state' = IF state[s] = "ready" THEN With(state, s, "forming") ELSE state
    /\ UNCHANGED <<locked, host, role>>

-----------------------------------------------------------------------------
(* community_hub_transition_session *)

Moves ==
    {<<"publish", "creating", "open">>, <<"pause", "active", "paused">>,
     <<"resume", "paused", "active">>}
    \cup {"start"} \X Gathering \X {"active"}
    \cup {<<a, st, st>> : a \in {"lock", "unlock", "extend"}, st \in Playing}
    \cup {"begin_end"} \X (Playing \cup {"creating", "failed"}) \X {"ending"}

Actions == {m[1] : m \in Moves}

MayStart(s) ==
    /\ Cardinality(Participants(s)) >= MinPlayers
    /\ ReadyToStart => Participants(s) \subseteq ready[s]

Transition(s, action) ==
    /\ Authority(s, {"host", "cohost"})
    /\ action = "start" => MayStart(s)
    /\ \E to \in States : <<action, state[s], to>> \in Moves /\ state' = With(state, s, to)
    /\ locked' = CASE action = "lock" -> locked \cup {s}
                   [] action = "unlock" -> locked \ {s}
                   [] OTHER -> locked
    /\ UNCHANGED <<host, role, ready>>

AssignRole(s, target, new) ==
    /\ state[s] \in Active \ {"ending"} /\ Authority(s, {"host"})
    /\ target \in Participants(s)
    /\ \/ /\ new = "host"
          /\ role' = With(role, s, [v \in Users |->
                        CASE v = target -> "host"
                          [] v # target /\ role[s][v] = "host" -> "member"
                          [] OTHER -> role[s][v]])
          /\ ready' = With(ready, s, ready[s] \cup {target})
          /\ host' = With(host, s, target)
       \/ /\ new \in {"cohost", "member"} /\ role[s][target] # "host"
          /\ role' = [role EXCEPT ![s][target] = new]
          /\ UNCHANGED <<host, ready>>
    /\ UNCHANGED <<state, locked>>

(* After publication: Quick Match has filled a session that is still "open". *)
NormalizeFormation(s) ==
    /\ state[s] = "open" /\ Cardinality(Participants(s)) >= 2
    /\ state' = With(state, s, "forming")
    /\ UNCHANGED <<locked, host, role, ready>>

FinalizeEnd(s, final) ==
    /\ state[s] \in Over \ {"cleaned"}
    /\ state' = With(state, s, final)
    /\ UNCHANGED <<locked, host, role, ready>>

(* Retention: members' rows go, and whatever names a user. *)
Prune(s) ==
    /\ state[s] \in Finals /\ host[s] # Nobody
    /\ host' = With(host, s, Nobody)
    /\ role' = With(role, s, [u \in Users |-> "none"])
    /\ ready' = With(ready, s, {})
    /\ UNCHANGED <<state, locked>>

-----------------------------------------------------------------------------
Membership(s, u) ==
    \/ Create(s, u) \/ Join(s, u) \/ QuickMatchJoin(s, u) \/ Leave(s, u)
    \/ \E old \in Sessions : Restart(s, old, u)
    \/ \E c \in Users : QuickMatchClaim(s, u, c)
    \/ \E yes \in BOOLEAN : SetReady(s, u, yes)

Control(s) ==
    \/ \E action \in Actions : Transition(s, action)
    \/ \E u \in Users, new \in Seated : AssignRole(s, u, new)

Upkeep(s) ==
    \/ ClearStaleReady(s) \/ NormalizeFormation(s) \/ Prune(s)
    \/ \E final \in Finals : FinalizeEnd(s, final)

Next ==
    \E s \in Sessions :
        \/ \E u \in Users : Membership(s, u)
        \/ Control(s)
        \/ Upkeep(s)

Spec == Init /\ [][Next]_vars

-----------------------------------------------------------------------------
(* Every column stays in its domain. *)
TypeOK ==
    /\ state \in [Sessions -> States] /\ locked \in SUBSET Sessions
    /\ host \in [Sessions -> Users \cup {Nobody}]
    /\ role \in [Sessions -> [Users -> Roles]]
    /\ ready \in [Sessions -> SUBSET Users]

(* Only a participant is ready, whoever left, was promoted or took the host's seat
   since: "start" compares the number of marks with that of the participants. *)
ReadyArePresent == \A s \in Sessions : ready[s] \subseteq Participants(s)

(* A session with participants has exactly one host, and host_id names it,
   however hosts leave, transfer and come back: host_id decides who may play
   again and role who may end or lock the session. *)
OneHost ==
    \A s \in Sessions :
        Participants(s) # {} => {u \in Users : role[s][u] = "host"} = {host[s]}

(* Nobody waits while a seat is free: each leave hands its seat on. *)
NobodyWaitsForNothing ==
    \A s \in Sessions :
        Waiting(s) # {} => Cardinality(Participants(s)) >= CapacityOf[s]

(* A session whose last participant left is back in the state in which sessions
   start: it never stays ready, active or paused, or unpublished, with nobody in
   it.  Its privacy is as it was left, so a locked session stays locked. *)
EmptyIsOpen ==
    \A s \in Sessions :
        Participants(s) = {} => state[s] \in {"none", "open"} \cup Over

(* A session that is ending never comes back to life, whatever its members still
   do to it, and a cleaned one stays cleaned. *)
OverStaysOver ==
    [][\A s \in Sessions :
          /\ state[s] \in Over => state'[s] \in Over
          /\ state[s] = "cleaned" => state'[s] = "cleaned"]_state

(* What the table's capacity column and the comment in leave_session promise. *)
WithinCapacity ==
    \A s \in Sessions : Cardinality(Participants(s)) <= CapacityOf[s]

(* "member active-session limit": max_active_sessions_per_member. *)
WithinMemberLimit ==
    \A u \in Users : Cardinality(Seats(u)) <= MaxPerMember

(* "match safety exclusion": two users one of whom blocks the other do not play
   in one session. *)
NoBlockedPair ==
    \A s \in Sessions : \A u, v \in Participants(s) : {u, v} \notin Blocks
=============================================================================
