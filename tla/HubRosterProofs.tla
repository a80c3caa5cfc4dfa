-------------------------- MODULE HubRosterProofs --------------------------
(***************************************************************************)
(* The invariants of HubRoster and OverStaysOver, for any users, sessions  *)
(* and limits.                                                             *)
(*                                                                         *)
(* The four invariants are inductive together, session by session: that a  *)
(* leaving host has an heir follows from NobodyWaitsForNothing (with       *)
(* somebody on the waitlist at least two are seated), and that the seat    *)
(* it leaves is handed on keeps NobodyWaitsForNothing.                     *)
(***************************************************************************)
EXTENDS HubRoster, FiniteSetTheorems, TLAPS

Hosts(s) == {u \in Users : role[s][u] = "host"}

Good(s) ==
    /\ ready[s] \subseteq Participants(s)
    /\ Participants(s) # {} => Hosts(s) = {host[s]}
    /\ Waiting(s) # {} => Cardinality(Participants(s)) >= CapacityOf[s]
    /\ Participants(s) = {} => state[s] \in {"none", "open"} \cup Over

Inv == TypeOK /\ \A s \in Sessions : Good(s)

(* Everything about a session that an operation on another one leaves alone. *)
Same(r) ==
    state'[r] = state[r] /\ host'[r] = host[r] /\ role'[r] = role[r] /\ ready'[r] = ready[r]

-----------------------------------------------------------------------------
(* An operation keeps Inv if it leaves the other sessions alone and its own good. *)
LEMMA OneSession ==
    ASSUME Inv, TypeOK', NEW s \in Sessions, \A r \in Sessions \ {s} : Same(r), Good(s)'
    PROVE  Inv'
<1>1. ASSUME NEW r \in Sessions PROVE Good(r)'
  <2>1. CASE r = s  BY <2>1
  <2>2. CASE r # s
    <3>1. Same(r)  BY <2>2
    <3>2. Good(r)  BY DEF Inv
    <3> QED  BY <3>1, <3>2 DEF Good, Same, Participants, Waiting, Hosts
  <2> QED  BY <2>1, <2>2
<1> QED  BY <1>1 DEF Inv

(* Participants and waiting members are finitely many. *)
LEMMA FewMembers ==
    ASSUME RosterAssumptions, NEW s \in Sessions
    PROVE  /\ IsFiniteSet(Participants(s)) /\ Cardinality(Participants(s)) \in Nat
           /\ Cardinality(Participants(s)) = 0 <=> Participants(s) = {}
<1>1. IsFiniteSet(Participants(s))
  BY FS_Subset DEF RosterAssumptions, Participants
<1> QED  BY <1>1, FS_CardinalityType, FS_EmptySet

(* With somebody on the waitlist at least two are seated. *)
LEMMA TwoSeated ==
    ASSUME RosterAssumptions, NEW s \in Sessions, Good(s), Waiting(s) # {}, NEW u
    PROVE  ~ (Participants(s) \subseteq {u})
<1>1. Cardinality(Participants(s)) >= 2
  BY FewMembers DEF Good, RosterAssumptions
<1>2. ASSUME Participants(s) \subseteq {u} PROVE FALSE
  <2>1. Cardinality({u}) = 1 /\ IsFiniteSet({u})  BY FS_Singleton
  <2>2. Cardinality(Participants(s)) <= 1  BY <1>2, <2>1, FS_Subset
  <2> QED  BY <1>1, <2>2, FewMembers
<1> QED  BY <1>2

-----------------------------------------------------------------------------
LEMMA InitInv == Init => Inv
  BY DEF Init, Inv, TypeOK, Good, Participants, Waiting, Hosts, States, Roles, Seated

LEMMA FoundInv ==
    ASSUME RosterAssumptions, Inv, NEW s \in Sessions, NEW u \in Users,
           NEW others \in SUBSET Users, u \notin others, Found(s, u, others)
    PROVE  Inv'
<1>1. TypeOK'
  BY DEF Inv, TypeOK, Found, With, States, Roles, Active, Playing, Gathering
<1>2. \A r \in Sessions \ {s} : Same(r)
  BY DEF Inv, TypeOK, Found, With, Same
<1>3. /\ role'[s] = [v \in Users |-> IF v = u THEN "host"
                                    ELSE IF v \in others THEN "member" ELSE "none"]
      /\ host'[s] = u /\ ready'[s] = {u}
  BY DEF Inv, TypeOK, Found, With
<1>4. Participants(s)' = {u} \cup others /\ Waiting(s)' = {} /\ Hosts(s)' = {u}
  BY <1>3 DEF Participants, Waiting, Hosts, Seated
<1>5. Good(s)'  BY <1>3, <1>4 DEF Good
<1> QED  BY <1>1, <1>2, <1>5, OneSession

LEMMA JoinInv ==
    ASSUME RosterAssumptions, Inv, NEW s \in Sessions, NEW u \in Users, Join(s, u)
    PROVE  Inv'
<1>0. TypeOK /\ Good(s)  BY DEF Inv
<1>1. Seat(s) \in {"host", "waitlist", "member"}  BY DEF Seat
<1>2. TypeOK'
  BY <1>0, <1>1 DEF TypeOK, Join, With, States, Roles, Active, Playing, Gathering
<1>3. \A r \in Sessions \ {s} : Same(r)
  BY <1>0 DEF TypeOK, Join, With, Same
<1>4. role'[s] = [role[s] EXCEPT ![u] = Seat(s)] /\ role[s][u] = "none"
  BY <1>0 DEF TypeOK, Join
<1>5. role[s] \in [Users -> Roles]  BY <1>0 DEF TypeOK
<1>6. CASE Seat(s) = "host"
  <2>1. Participants(s) = {}
    BY <1>6 DEF Seat
  <2>2. Waiting(s) = {}
    BY <2>1, <1>0, TwoSeated
  <2>3. Participants(s)' = {u} /\ Hosts(s)' = {u} /\ Waiting(s)' = {}
    BY <1>4, <1>5, <1>6, <2>1, <2>2 DEF Participants, Hosts, Waiting, Seated
  <2>4. host'[s] = u /\ ready'[s] = ready[s] \cup {u}
    BY <1>0, <1>6 DEF Join, TypeOK, With
  <2>5. Good(s)'  BY <1>0, <2>1, <2>3, <2>4 DEF Good
  <2> QED  BY <1>2, <1>3, <2>5, OneSession
<1>7. CASE Seat(s) # "host"
  <2>1. Participants(s) # {}
    <3>1. Participants(s) = {} => ~ (Cardinality(Participants(s)) >= CapacityOf[s])
      BY FewMembers DEF RosterAssumptions
    <3> QED  BY <1>7, <3>1 DEF Seat
  <2>2. host'[s] = host[s] /\ ready'[s] = ready[s] \ {u}
    BY <1>0, <1>7 DEF Join, TypeOK, With
  <2>3. Hosts(s)' = Hosts(s)
    BY <1>4, <1>5, <1>7 DEF Hosts
  <2>4. CASE Seat(s) = "waitlist"
    <3>1. Participants(s)' = Participants(s)
      BY <1>4, <1>5, <2>4 DEF Participants, Seated
    <3>2. Cardinality(Participants(s)) >= CapacityOf[s]
      BY <2>1, <2>4 DEF Seat
    <3>3. Good(s)'  BY <1>0, <2>1, <2>2, <2>3, <3>1, <3>2 DEF Good
    <3> QED  BY <1>2, <1>3, <3>3, OneSession
  <2>5. CASE Seat(s) = "member"
    <3>1. /\ Participants(s)' = Participants(s) \cup {u} /\ u \notin Participants(s)
          /\ Waiting(s)' = Waiting(s)
      BY <1>4, <1>5, <2>5 DEF Participants, Waiting, Seated
    <3>2. ~ (Cardinality(Participants(s)) >= CapacityOf[s])
      BY <2>5 DEF Seat
    <3>3. Good(s)'  BY <1>0, <2>1, <2>2, <2>3, <3>1, <3>2 DEF Good
    <3> QED  BY <1>2, <1>3, <3>3, OneSession
  <2> QED  BY <1>1, <1>7, <2>4, <2>5
<1> QED  BY <1>6, <1>7
(* The leaving member's seat goes to the waitlist, the host's role to an heir. *)
LEMMA LeaveInv ==
    ASSUME RosterAssumptions, Inv, NEW s \in Sessions, NEW u \in Users, Leave(s, u)
    PROVE  Inv'
<1>0. TypeOK /\ Good(s) /\ role[s] \in [Users -> Roles]  BY DEF Inv, TypeOK
<1> PICK heir \in Heirs(s, u), next \in Promoted(s, u) :
          /\ role' = With(role, s, [v \in Users |->
                        CASE v = u -> "none"
                          [] v = heir -> "host"
                          [] v = next -> "member"
                          [] OTHER -> role[s][v]])
          /\ host' = IF heir = Nobody THEN host ELSE With(host, s, heir)
          /\ ready' = With(ready, s, Marks(s, u, heir))
          /\ state' = IF state[s] \in Emptied /\ Participants(s) \subseteq {u} /\ next = Nobody
                      THEN With(state, s, "open") ELSE state
  BY DEF Leave
<1>1. /\ heir # Nobody => /\ heir \in Users \ {u} /\ role[s][heir] \in {"cohost", "member"}
                          /\ role[s][u] = "host"
      /\ heir = Nobody /\ role[s][u] = "host" => Participants(s) \ {u} \subseteq Hosts(s)
  BY <1>0 DEF Heirs, Participants, Seated, Hosts, RosterAssumptions
<1>2. /\ next # Nobody => next \in Waiting(s) \ {u}
      /\ next = Nobody => Waiting(s) \subseteq {u}
  BY DEF Promoted, Waiting, RosterAssumptions
<1>3. next # Nobody => next \in Users /\ next # u /\ next # heir /\ role[s][next] = "waitlist"
  BY <1>1, <1>2 DEF Waiting
<1> DEFINE new == [v \in Users |-> IF v = u THEN "none" ELSE IF v = heir THEN "host"
                                  ELSE IF v = next THEN "member" ELSE role[s][v]]
<1>4. role' = With(role, s, new)
  BY <1>1, <1>3
<1>5. new \in [Users -> Roles]
  BY <1>0 DEF Roles
<1>6. role'[s] = new
  BY <1>0, <1>4 DEF TypeOK, With
<1>7. TypeOK'
  <2>1. role' \in [Sessions -> [Users -> Roles]]  BY <1>0, <1>4, <1>5 DEF TypeOK, With
  <2>2. host' \in [Sessions -> Users \cup {Nobody}]  BY <1>0, <1>1 DEF TypeOK, With
  <2>3. ready' \in [Sessions -> SUBSET Users]
    BY <1>0, <1>1 DEF TypeOK, With, Marks
  <2>4. state' \in [Sessions -> States]
    BY <1>0 DEF TypeOK, With, States, Active, Playing, Gathering
  <2> QED  BY <1>0, <2>1, <2>2, <2>3, <2>4 DEF TypeOK, Leave
<1>8. \A r \in Sessions \ {s} : Same(r)
  BY <1>0 DEF TypeOK, With, Same
<1>9. /\ Participants(s)' = (Participants(s) \ {u}) \cup ({next} \ {Nobody})
      /\ Waiting(s)' = (Waiting(s) \ {u}) \ {next}
      /\ Hosts(s)' = (Hosts(s) \ {u}) \cup ({heir} \ {Nobody})
  <2>1. Nobody \notin Users  BY DEF RosterAssumptions
  <2>2. Participants(s)' = (Participants(s) \ {u}) \cup ({next} \ {Nobody})
    BY <1>1, <1>3, <1>6, <2>1 DEF Participants, Seated
  <2>3. Waiting(s)' = (Waiting(s) \ {u}) \ {next}
    BY <1>1, <1>3, <1>6, <2>1 DEF Waiting
  <2>4. Hosts(s)' = (Hosts(s) \ {u}) \cup ({heir} \ {Nobody})
    BY <1>1, <1>3, <1>6, <2>1 DEF Hosts
  <2> QED  BY <2>2, <2>3, <2>4
<1>10. (ready[s] \subseteq Participants(s))'
  <2>1. ready'[s] = Marks(s, u, heir)  BY <1>0 DEF TypeOK, With
  <2>2. heir # Nobody => heir \in Participants(s) \ {u}
    BY <1>1 DEF Participants, Seated
  <2> QED  BY <1>0, <1>9, <2>1, <2>2 DEF Good, Marks
<1>11. (Waiting(s) # {} => Cardinality(Participants(s)) >= CapacityOf[s])'
  <2> SUFFICES ASSUME Waiting(s)' # {} PROVE Cardinality(Participants(s)') >= CapacityOf[s]
    OBVIOUS
  <2>1. next # Nobody  BY <1>2, <1>9
  <2>2. Waiting(s) # {} /\ next \notin Participants(s) /\ next # u
    BY <1>9, <1>3, <2>1 DEF Participants, Seated
  <2>3. Cardinality(Participants(s)) >= CapacityOf[s]  BY <1>0, <2>2 DEF Good
  <2>4. IsFiniteSet(Participants(s) \ {u}) /\ IsFiniteSet(Participants(s))
    BY FewMembers, FS_RemoveElement
  <2>5. Cardinality(Participants(s) \ {u}) >= Cardinality(Participants(s)) - 1
    <3>1. \/ Cardinality(Participants(s) \ {u}) = Cardinality(Participants(s)) - 1
          \/ Cardinality(Participants(s) \ {u}) = Cardinality(Participants(s))
      BY <2>4, FS_RemoveElement
    <3> QED  BY <3>1, FewMembers
  <2>6. Cardinality((Participants(s) \ {u}) \cup {next}) = Cardinality(Participants(s) \ {u}) + 1
    BY <2>2, <2>4, FS_AddElement
  <2>7. Participants(s)' = (Participants(s) \ {u}) \cup {next}  BY <1>9, <2>1
  <2>8. Cardinality(Participants(s) \ {u}) \in Nat /\ CapacityOf[s] \in Nat
    BY <2>4, FS_CardinalityType DEF RosterAssumptions
  <2> QED  BY <2>3, <2>5, <2>6, <2>7, <2>8, FewMembers
<1>12. (Participants(s) # {} => Hosts(s) = {host[s]})'
  <2> SUFFICES ASSUME Participants(s)' # {} PROVE Hosts(s)' = {host'[s]}
    OBVIOUS
  <2>1. Participants(s) # {}
    <3>1. CASE next = Nobody  BY <1>9, <3>1
    <3>2. CASE next # Nobody  BY <1>2, <3>2, <1>0, TwoSeated
    <3> QED  BY <3>1, <3>2
  <2>2. Hosts(s) = {host[s]}  BY <1>0, <2>1 DEF Good
  <2>3. CASE heir = Nobody
    <3>1. host'[s] = host[s]  BY <2>3
    <3>2. role[s][u] # "host"
      <4>1. SUFFICES ASSUME role[s][u] = "host" PROVE FALSE
        OBVIOUS
      <4>2. Hosts(s) = {u}  BY <2>2, <4>1 DEF Hosts
      <4>3. Participants(s) \subseteq {u}  BY <1>1, <2>3, <4>1, <4>2
      <4>4. Waiting(s) = {}  BY <4>3, <1>0, TwoSeated
      <4> QED  BY <4>3, <4>4, <1>9, <1>2
    <3> QED  BY <1>9, <2>2, <2>3, <3>1, <3>2 DEF Hosts
  <2>4. CASE heir # Nobody
    <3>1. host'[s] = heir  BY <1>0, <2>4 DEF TypeOK, With
    <3>2. Hosts(s) = {u}  BY <1>1, <2>2, <2>4 DEF Hosts
    <3> QED  BY <1>9, <2>4, <3>1, <3>2
  <2> QED  BY <2>3, <2>4
<1>13. (Participants(s) = {} => state[s] \in {"none", "open"} \cup Over)'
  <2> SUFFICES ASSUME Participants(s)' = {} PROVE state'[s] \in {"none", "open"} \cup Over
    BY DEF Over, Finals
  <2>1. next = Nobody /\ Participants(s) \subseteq {u}  BY <1>9, <1>2
  <2>2. CASE state[s] \in Emptied
    BY <1>0, <2>1, <2>2 DEF TypeOK, With
  <2>3. CASE state[s] \notin Emptied
    <3>1. state'[s] = state[s] /\ state[s] \in States  BY <1>0, <2>3 DEF TypeOK
    <3> QED  BY <2>3, <3>1 DEF Emptied, States, Active, Playing, Gathering, Over
  <2> QED  BY <2>2, <2>3
<1>14. Good(s)'  BY <1>10, <1>11, <1>12, <1>13 DEF Good, Over
<1> QED  BY <1>7, <1>8, <1>14, OneSession

-----------------------------------------------------------------------------
(* The other operations leave the seats alone, or exchange two of them. *)
LEMMA SetReadyInv ==
    ASSUME RosterAssumptions, Inv, NEW s \in Sessions, NEW u \in Users, NEW yes \in BOOLEAN,
           SetReady(s, u, yes)
    PROVE  Inv'
<1>0. TypeOK /\ Good(s)  BY DEF Inv
<1>1. TypeOK'
  <2>1. ready' \in [Sessions -> SUBSET Users]  BY <1>0 DEF TypeOK, SetReady, With
  <2>2. state' \in [Sessions -> States]
    BY <1>0 DEF TypeOK, SetReady, With, Gathered, States, Active, Playing, Gathering
  <2> QED  BY <1>0, <2>1, <2>2 DEF TypeOK, SetReady
<1>2. \A r \in Sessions \ {s} : Same(r)
  BY <1>0 DEF TypeOK, SetReady, With, Same
<1>3. ready'[s] \subseteq ready[s] \cup {u} /\ u \in Participants(s)
  BY <1>0 DEF TypeOK, SetReady, With
<1>4. /\ Participants(s)' = Participants(s) /\ Waiting(s)' = Waiting(s)
      /\ Hosts(s)' = Hosts(s) /\ host'[s] = host[s]
  BY DEF SetReady, Participants, Waiting, Hosts
<1>5. Good(s)'  BY <1>0, <1>3, <1>4 DEF Good
<1> QED  BY <1>1, <1>2, <1>5, OneSession

LEMMA TransitionInv ==
    ASSUME RosterAssumptions, Inv, NEW s \in Sessions, NEW action \in Actions,
           Transition(s, action)
    PROVE  Inv'
<1>0. TypeOK /\ Good(s)  BY DEF Inv
<1> PICK to \in States : <<action, state[s], to>> \in Moves /\ state' = With(state, s, to)
  BY DEF Transition
<1>1. TypeOK' /\ state'[s] = to
  BY <1>0 DEF TypeOK, Transition, With
<1>2. \A r \in Sessions \ {s} : Same(r)
  BY <1>0 DEF TypeOK, Transition, With, Same
<1>3. /\ Participants(s)' = Participants(s) /\ Waiting(s)' = Waiting(s)
      /\ Hosts(s)' = Hosts(s) /\ host'[s] = host[s] /\ ready'[s] = ready[s]
  BY DEF Transition, Participants, Waiting, Hosts
<1>4. Participants(s) = {} => to \in {"open", "ending"}
  <2> SUFFICES ASSUME Participants(s) = {} PROVE to \in {"open", "ending"}
    OBVIOUS
  <2>1. state[s] \in {"none", "open"} \cup Over  BY <1>0 DEF Good
  <2>2. action # "start"
    <3>1. Cardinality(Participants(s)) = 0  BY FewMembers
    <3>2. ~ MayStart(s)  BY <3>1 DEF MayStart, RosterAssumptions
    <3> QED  BY <3>2 DEF Transition
  <2> QED  BY <2>1, <2>2 DEF Moves, Over, Finals, Playing, Gathering
<1>5. Good(s)'  BY <1>0, <1>1, <1>3, <1>4 DEF Good, Over
<1> QED  BY <1>1, <1>2, <1>5, OneSession

LEMMA AssignRoleInv ==
    ASSUME RosterAssumptions, Inv, NEW s \in Sessions, NEW target \in Users, NEW new \in Seated,
           AssignRole(s, target, new)
    PROVE  Inv'
<1>0. TypeOK /\ Good(s) /\ role[s] \in [Users -> Roles]  BY DEF Inv, TypeOK
<1>1. target \in Participants(s)  BY DEF AssignRole
<1>2. TypeOK'
  <2>1. role' \in [Sessions -> [Users -> Roles]]
    <3>1. CASE new = "host"
      <4> DEFINE moved == [v \in Users |-> CASE v = target -> "host"
                                         [] v # target /\ role[s][v] = "host" -> "member"
                                         [] OTHER -> role[s][v]]
      <4>1. moved \in [Users -> Roles]  BY <1>0 DEF Roles
      <4>2. role' = With(role, s, moved)  BY <3>1 DEF AssignRole
      <4> QED  BY <1>0, <4>1, <4>2 DEF TypeOK, With
    <3>2. CASE new # "host"
      <4>1. role' = [role EXCEPT ![s][target] = new]  BY <3>2 DEF AssignRole
      <4>2. new \in Roles /\ target \in Users  BY <1>1 DEF Roles, Seated, Participants
      <4>3. role \in [Sessions -> [Users -> Roles]]  BY <1>0 DEF TypeOK
      <4> QED  BY <4>1, <4>2, <4>3
    <3> QED  BY <3>1, <3>2
  <2>2. /\ UNCHANGED <<state, locked>> /\ ready' \in [Sessions -> SUBSET Users]
        /\ host' \in [Sessions -> Users \cup {Nobody}]
    <3>1. CASE new = "host"
      BY <1>0, <3>1 DEF TypeOK, AssignRole, With
    <3>2. CASE new # "host"
      <4>1. UNCHANGED <<state, locked, host, ready>>  BY <3>2 DEF AssignRole
      <4> QED  BY <1>0, <4>1 DEF TypeOK
    <3> QED  BY <3>1, <3>2
  <2> QED  BY <1>0, <2>1, <2>2 DEF TypeOK
<1>3. \A r \in Sessions \ {s} : Same(r)
  BY <1>0 DEF TypeOK, AssignRole, With, Same
<1>4. Participants(s)' = Participants(s) /\ Waiting(s)' = Waiting(s)
  <2>1. CASE new = "host"
    <3>1. \A v \in Users : /\ role'[s][v] \in Seated <=> role[s][v] \in Seated
                           /\ role'[s][v] = "waitlist" <=> role[s][v] = "waitlist"
      BY <1>0, <1>1, <2>1 DEF TypeOK, AssignRole, With, Seated, Participants
    <3>2. Participants(s)' = Participants(s)  BY <3>1 DEF Participants
    <3>3. Waiting(s)' = Waiting(s)  BY <3>1 DEF Waiting
    <3> QED  BY <3>2, <3>3
  <2>2. CASE new # "host"
    <3>1. \A v \in Users : /\ role'[s][v] \in Seated <=> role[s][v] \in Seated
                           /\ role'[s][v] = "waitlist" <=> role[s][v] = "waitlist"
      BY <1>0, <1>1, <2>2 DEF TypeOK, AssignRole, With, Seated, Participants
    <3>2. Participants(s)' = Participants(s)  BY <3>1 DEF Participants
    <3>3. Waiting(s)' = Waiting(s)  BY <3>1 DEF Waiting
    <3> QED  BY <3>2, <3>3
  <2> QED  BY <2>1, <2>2
<1>5. Hosts(s)' = {host'[s]} /\ ready'[s] \subseteq ready[s] \cup {target}
  <2>0. Hosts(s) = {host[s]}  BY <1>0, <1>1 DEF Good
  <2>1. CASE new = "host"
    BY <1>0, <1>1, <2>1 DEF TypeOK, AssignRole, With, Hosts, Seated
  <2>2. CASE new # "host"
    BY <1>0, <1>1, <2>0, <2>2 DEF TypeOK, AssignRole, With, Hosts, Seated
  <2> QED  BY <2>1, <2>2
<1>6. Good(s)'  BY <1>0, <1>1, <1>4, <1>5 DEF Good
<1> QED  BY <1>2, <1>3, <1>6, OneSession

LEMMA UpkeepInv ==
    ASSUME RosterAssumptions, Inv, NEW s \in Sessions, Upkeep(s)
    PROVE  Inv'
<1>0. TypeOK /\ Good(s)  BY DEF Inv
<1>1. CASE Prune(s)
  <2>1. TypeOK'
    BY <1>0, <1>1 DEF TypeOK, Prune, With, Roles
  <2>2. \A r \in Sessions \ {s} : Same(r)
    BY <1>0, <1>1 DEF TypeOK, Prune, With, Same
  <2>3. role'[s] = [u \in Users |-> "none"] /\ ready'[s] = {} /\ state'[s] \in Over
    BY <1>0, <1>1 DEF TypeOK, Prune, With, Over
  <2>4. Participants(s)' = {} /\ Waiting(s)' = {}
    BY <2>3 DEF Participants, Waiting, Seated
  <2>5. Good(s)'  BY <2>3, <2>4 DEF Good, Over
  <2> QED  BY <2>1, <2>2, <2>5, OneSession
<1>2. CASE ClearStaleReady(s) \/ NormalizeFormation(s) \/ \E final \in Finals : FinalizeEnd(s, final)
  <2>1. TypeOK'
    <3>1. state' \in [Sessions -> States] /\ UNCHANGED <<locked, host, role>>
      BY <1>0, <1>2 DEF TypeOK, ClearStaleReady, NormalizeFormation, FinalizeEnd, With, States,
                        Active, Playing, Gathering
    <3>2. ready' \in [Sessions -> SUBSET Users]
      BY <1>0, <1>2 DEF TypeOK, ClearStaleReady, NormalizeFormation, FinalizeEnd, With
    <3> QED  BY <1>0, <3>1, <3>2 DEF TypeOK
  <2>2. \A r \in Sessions \ {s} : Same(r)
    BY <1>0, <1>2 DEF TypeOK, ClearStaleReady, NormalizeFormation, FinalizeEnd, With, Same
  <2>3. /\ Participants(s)' = Participants(s) /\ Waiting(s)' = Waiting(s)
        /\ Hosts(s)' = Hosts(s) /\ host'[s] = host[s] /\ ready'[s] \subseteq ready[s]
    BY <1>0, <1>2 DEF TypeOK, ClearStaleReady, NormalizeFormation, FinalizeEnd, With,
                      Participants, Waiting, Hosts
  <2>4. ASSUME Participants(s) = {} PROVE state'[s] \in {"none", "open"} \cup Over
    <3>1. state[s] \in {"none", "open"} \cup Over  BY <1>0, <2>4 DEF Good
    <3>2. CASE ClearStaleReady(s)
      BY <1>0, <3>1, <3>2 DEF TypeOK, ClearStaleReady, With, Over, Finals
    <3>3. CASE NormalizeFormation(s)
      <4>1. Cardinality(Participants(s)) = 0  BY <2>4, FewMembers
      <4> QED  BY <4>1, <3>3 DEF NormalizeFormation
    <3>4. CASE \E final \in Finals : FinalizeEnd(s, final)
      BY <1>0, <3>4 DEF TypeOK, FinalizeEnd, With, Over
    <3> QED  BY <1>2, <3>2, <3>3, <3>4
  <2>5. Good(s)'  BY <1>0, <2>3, <2>4 DEF Good, Over
  <2> QED  BY <2>1, <2>2, <2>5, OneSession
<1> QED  BY <1>1, <1>2 DEF Upkeep

-----------------------------------------------------------------------------
LEMMA NextInv == RosterAssumptions /\ Inv /\ [Next]_vars => Inv'
<1> SUFFICES ASSUME RosterAssumptions, Inv, [Next]_vars PROVE Inv'
  OBVIOUS
<1>1. CASE UNCHANGED vars
  <2>1. TypeOK'  BY <1>1 DEF vars, Inv, TypeOK
  <2>2. ASSUME NEW s \in Sessions PROVE Good(s)'
    <3>1. Good(s)  BY DEF Inv
    <3>2. /\ Participants(s)' = Participants(s) /\ Waiting(s)' = Waiting(s)
          /\ Hosts(s)' = Hosts(s)
      BY <1>1 DEF vars, Participants, Waiting, Hosts
    <3> QED  BY <1>1, <3>1, <3>2 DEF vars, Good
  <2> QED  BY <2>1, <2>2 DEF Inv
<1>2. ASSUME NEW s \in Sessions, NEW u \in Users, Membership(s, u) PROVE Inv'
  <2>1. CASE Create(s, u)
    BY <2>1, FoundInv DEF Create
  <2>2. CASE Join(s, u) \/ QuickMatchJoin(s, u)
    BY <2>2, JoinInv DEF QuickMatchJoin
  <2>3. CASE Leave(s, u)
    BY <2>3, LeaveInv
  <2>4. CASE \E old \in Sessions : Restart(s, old, u)
    BY <2>4, FoundInv DEF Restart
  <2>5. CASE \E c \in Users : QuickMatchClaim(s, u, c)
    BY <2>5, FoundInv DEF QuickMatchClaim
  <2>6. CASE \E yes \in BOOLEAN : SetReady(s, u, yes)
    BY <2>6, SetReadyInv
  <2> QED  BY <1>2, <2>1, <2>2, <2>3, <2>4, <2>5, <2>6 DEF Membership
<1>3. ASSUME NEW s \in Sessions, Control(s) PROVE Inv'
  BY <1>3, TransitionInv, AssignRoleInv DEF Control
<1>4. ASSUME NEW s \in Sessions, Upkeep(s) PROVE Inv'
  BY <1>4, UpkeepInv
<1> QED  BY <1>1, <1>2, <1>3, <1>4 DEF Next

LEMMA SpecInv == Spec => []Inv
  BY RosterAssumptions, InitInv, NextInv, PTL DEF Spec

(* Every column stays in its domain, and only a participant is ready. *)
THEOREM TypesOK == Spec => []TypeOK
<1>1. Inv => TypeOK  BY DEF Inv
<1> QED  BY <1>1, SpecInv, PTL

THEOREM ReadyPresent == Spec => []ReadyArePresent
<1>1. Inv => ReadyArePresent  BY DEF Inv, Good, ReadyArePresent
<1> QED  BY <1>1, SpecInv, PTL

(* A session with participants has exactly one host, the one host_id names. *)
THEOREM OneHostEach == Spec => []OneHost
<1>1. Inv => OneHost  BY DEF Inv, Good, OneHost, Hosts
<1> QED  BY <1>1, SpecInv, PTL

(* Nobody waits while a seat is free. *)
THEOREM NobodyWaits == Spec => []NobodyWaitsForNothing
<1>1. Inv => NobodyWaitsForNothing  BY DEF Inv, Good, NobodyWaitsForNothing
<1> QED  BY <1>1, SpecInv, PTL

(* A session without participants is in the state in which sessions start, whatever
   its privacy, or is over: never ready, active, paused or unpublished. *)
THEOREM EmptySessionsAreOpen == Spec => []EmptyIsOpen
<1>1. Inv => EmptyIsOpen  BY DEF Inv, Good, EmptyIsOpen
<1> QED  BY <1>1, SpecInv, PTL

-----------------------------------------------------------------------------
(* No operation takes a session out of Over, or a cleaned one out of "cleaned". *)
LEMMA OverStep ==
    ASSUME TypeOK, Next, NEW r \in Sessions
    PROVE  /\ state[r] \in Over => state'[r] \in Over
           /\ state[r] = "cleaned" => state'[r] = "cleaned"
<1> DEFINE Q == /\ state[r] \in Over => state'[r] \in Over
                /\ state[r] = "cleaned" => state'[r] = "cleaned"
<1> USE DEF TypeOK, With, Over, Finals
<1>1. ASSUME NEW s \in Sessions, NEW u \in Users, Membership(s, u) PROVE Q
  <2>1. ASSUME NEW others, Found(s, u, others), state[s] = "none" PROVE Q
    BY <2>1 DEF Found
  <2>2. ASSUME Join(s, u) PROVE Q
    BY <2>2 DEF Join, Gathering
  <2>3. ASSUME Leave(s, u) PROVE Q
    BY <2>3 DEF Leave, Emptied
  <2>4. ASSUME NEW yes \in BOOLEAN, SetReady(s, u, yes) PROVE Q
    BY <2>4 DEF SetReady, Gathering
  <2> QED  BY <1>1, <2>1, <2>2, <2>3, <2>4
           DEF Membership, Create, Creatable, Restart, QuickMatchClaim, QuickMatchJoin
<1>2. ASSUME NEW s \in Sessions, NEW action \in Actions, Transition(s, action) PROVE Q
  <2> PICK to \in States : <<action, state[s], to>> \in Moves /\ state' = With(state, s, to)
    BY <1>2 DEF Transition
  <2>1. state[s] \in Over => to = "ending" /\ state[s] = "failed"
    BY DEF Moves, Playing, Gathering
  <2> QED  BY <2>1
<1>3. ASSUME NEW s \in Sessions, NEW u \in Users, NEW new \in Seated, AssignRole(s, u, new) PROVE Q
  BY <1>3 DEF AssignRole
<1>4. ASSUME NEW s \in Sessions, Upkeep(s) PROVE Q
  BY <1>4 DEF Upkeep, ClearStaleReady, NormalizeFormation, Prune, FinalizeEnd
<1>5. ASSUME NEW s \in Sessions, Control(s) PROVE Q
  BY <1>2, <1>3, <1>5 DEF Control
<1>6. Q
  <2> HIDE DEF Q
  <2> QED  BY <1>1, <1>4, <1>5 DEF Next
<1> QED  BY <1>6

(* A session that is ending stays over, and a cleaned one cleaned. *)
THEOREM OverIsOver == Spec => OverStaysOver
<1>1. Inv /\ [Next]_vars =>
        [\A s \in Sessions :
            /\ state[s] \in Over => state'[s] \in Over
            /\ state[s] = "cleaned" => state'[s] = "cleaned"]_state
  BY OverStep DEF Inv, vars
<1> QED  BY <1>1, SpecInv, PTL DEF Spec, OverStaysOver
=============================================================================
