--------------------------- MODULE DownloadPromise ---------------------------
(***************************************************************************)
(* What the Share Router download intake promises about one request, with  *)
(* no worker, database or process in sight (docs/share-router-download-    *)
(* scaling.md):                                                            *)
(*   - an accepted request stays until it is started, or dropped because   *)
(*     it waited too long: nothing else, a restart included, loses it;     *)
(*   - a request that waited too long is never started;                    *)
(*   - a started request reaches its recipient at most once and is never   *)
(*     started again, even when the outcome is unknown;                    *)
(*   - a guild has at most one started request at a time.                  *)
(* A message may be posted as a request again after its request is gone.   *)
(***************************************************************************)
EXTENDS Naturals

CONSTANTS Messages,     \* the messages that carry requests
          GuildOf       \* [Messages -> guilds]

VARIABLES phase,        \* [Messages -> Phases]
          sent          \* [Messages -> Nat], deliveries of the latest request

Phases == {"none", "waiting", "late", "started"}

Init ==
    /\ phase = [m \in Messages |-> "none"]
    /\ sent  = [m \in Messages |-> 0]

Accept(m) ==
    /\ phase[m] \in {"none", "late"}     \* a late one may be dropped and replaced
    /\ phase'[m] = "waiting"
    /\ sent'[m] = 0

WaitTooLong(m) ==
    /\ phase[m] = "waiting"
    /\ phase'[m] = "late"
    /\ sent'[m] = sent[m]

Start(m) ==
    /\ phase[m] = "waiting"
    /\ phase'[m] = "started"
    /\ sent[m] = 0
    /\ sent'[m] = sent[m]

Send(m) ==
    /\ phase[m] = "started"
    /\ phase'[m] = "started"
    /\ sent[m] = 0
    /\ sent'[m] = 1

Drop(m) ==
    /\ phase[m] \in {"late", "started"}
    /\ phase'[m] = "none"
    /\ sent'[m] = sent[m]

Stay(m) ==
    /\ phase'[m] = phase[m]
    /\ sent'[m] = sent[m]

OneStartedPerGuild ==
    \A m, n \in Messages :
        (m # n /\ GuildOf[m] = GuildOf[n]) =>
            ~ (phase[m] = "started" /\ phase[n] = "started")

(* One transaction may move several requests (it drops every late one), so *)
(* a step moves every message at once, each in a way it is allowed to.     *)
Next ==
    /\ phase' \in [Messages -> Phases]
    /\ sent' \in [Messages -> Nat]
    /\ \A m \in Messages :
           \/ Accept(m) \/ WaitTooLong(m) \/ Start(m)
           \/ Send(m) \/ Drop(m) \/ Stay(m)
    /\ OneStartedPerGuild'

Spec == Init /\ [][Next]_<<phase, sent>>
==============================================================================
