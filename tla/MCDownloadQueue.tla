--------------------------- MODULE MCDownloadQueue ---------------------------
(* DownloadQueue with two guilds: three members of one post, one of the other. *)
EXTENDS DownloadQueue

CONSTANTS m1, m2, m3, g1, g2

MCMessages == {m1, m2, m3}
MCGuildOf  == [m \in MCMessages |-> IF m = m3 THEN g2 ELSE g1]
MCMemberOf == [m \in MCMessages |-> m]
==============================================================================
