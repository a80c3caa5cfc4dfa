---------------------------- MODULE MCHubRoster ----------------------------
(* HubRoster with two sessions of two seats, of one game or of two. *)
EXTENDS HubRoster, TLC

CONSTANTS u1, u2, u3, u4, s1, s2

OneGame  == [s \in Sessions |-> "game"]
TwoGames == (s1 :> "game") @@ (s2 :> "other")
TwoSeats == [s \in Sessions |-> 2]
OnePair  == {{u1, u3}}
Alike    == Permutations(Users) \cup Permutations(Sessions)  \* needs one game and one size
=============================================================================
