------------------------- MODULE MCTicketLifecycle -------------------------
(* Instances of TicketLifecycle for TLC.                                   *)
EXTENDS TicketLifecycle

CONSTANTS s1, s2

UnclaimedRow == [status |-> "open", by |-> None]
ClaimedRow   == [status |-> "claimed", by |-> s1]
ClosedRow    == [status |-> "closed", by |-> s1]
AllStart == {UnclaimedRow, ClaimedRow, ClosedRow}

Ask(kinds, people, targets) == [kind : kinds, who : people, to : targets]

\* The kinds of requests, each by the people who matter to it: s1 is the first
\* claimant, s2 may become one, the owner acts for either.
SomeRequests ==
    UNION {Ask({"claim"}, {s1}, {s1}), Ask({"claim"}, {s2}, {s2}),
           Ask({"transfer"}, {s1, GuildOwner}, {s2}),
           Ask({"unclaim", "annotate", "reopen", "delete"}, {s1}, {None}),
           Ask({"close"}, {s1, Requester, System}, {None}),
           Ask({"etransfer"}, {GuildOwner}, {s2}),
           Ask({"eunclaim", "edelete"}, {GuildOwner}, {None}),
           Ask({"touch", "sync", "external", "departed"}, {System}, {None})}
=============================================================================
