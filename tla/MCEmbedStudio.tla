--------------------------- MODULE MCEmbedStudio ---------------------------
(* EmbedStudio with one post and two campaigns: the clock of c strikes every day
   but one, that of d once a week. *)
EXTENDS EmbedStudio, TLC

CONSTANTS p, q, a, c, d

Strikes == (c :> {1, 2} \cup 4..9) @@ (d :> {4})
NoStrikes == [x \in {} |-> {}]
=============================================================================
