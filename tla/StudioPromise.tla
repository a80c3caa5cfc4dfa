---------------------------- MODULE StudioPromise ----------------------------
(***************************************************************************)
(* What Embed Studio promises of unattended posts, whatever the workers,   *)
(* claims, sends and timeouts behind them do:                              *)
(*   - a row is asked for once, is open from its insert on and, once it is *)
(*     over, stays so: a row that was cancelled gets no more sends;        *)
(*   - a send is granted to an open row whose time has come, as often as   *)
(*     the row has sends, and the last of them closes it;                  *)
(*   - between two grants a row that stays open moves to a later time, and *)
(*     a time is skipped only when it is too late by the row's window;     *)
(*   - a message is posted once, of a send that was granted, and so never  *)
(*     before its time; a send granted before its row was cancelled may    *)
(*     still be posted after.                                              *)
(***************************************************************************)
EXTENDS Naturals

CONSTANTS Rows, Sends(_), Window(_), MaxSends

VARIABLES
    clock,
    stage,      \* [Rows -> Stages]
    time,       \* when the row is to be sent next
    granted,    \* sends granted to the row
    posted      \* messages of the n-th send of a row

Stages == {"new", "asked", "open", "over"}

Init ==
    /\ clock = 0
    /\ stage = [r \in Rows |-> "new"]
    /\ time = [r \in Rows |-> 0] /\ granted = [r \in Rows |-> 0]
    /\ posted = [o \in Rows \X (1..MaxSends) |-> 0]

(* What may happen to a row in a step: its next stage, time and grants. *)
Same(r)  == stage'[r] = stage[r] /\ time'[r] = time[r] /\ granted'[r] = granted[r]

Ask(r) ==
    /\ stage[r] = "new" /\ stage'[r] = "asked"
    /\ time'[r] > clock /\ granted'[r] = granted[r]

Open(r) ==
    /\ stage[r] = "asked" /\ stage'[r] = "open"
    /\ time'[r] = time[r] /\ granted'[r] = granted[r]

Stop(r) ==
    /\ stage[r] \in {"asked", "open"} /\ stage'[r] = "over"
    /\ time'[r] = time[r] /\ granted'[r] = granted[r]

Skip(r) ==
    /\ stage[r] = "open" /\ time[r] + Window(r) < clock
    /\ stage'[r] = "open" /\ time'[r] > time[r] /\ granted'[r] = granted[r]

Grant(r) ==
    /\ stage[r] = "open" /\ time[r] <= clock
    /\ granted[r] < Sends(r) /\ granted'[r] = granted[r] + 1
    /\ stage'[r] = IF granted'[r] = Sends(r) THEN "over" ELSE "open"
    /\ stage'[r] = "open" => time'[r] > time[r]

Decide ==
    /\ \A r \in Rows : Same(r) \/ Ask(r) \/ Open(r) \/ Stop(r) \/ Skip(r) \/ Grant(r)
    /\ UNCHANGED <<clock, posted>>

Post(r, n) ==
    /\ n <= granted[r] /\ posted[<<r, n>>] = 0
    /\ posted' = [posted EXCEPT ![<<r, n>>] = 1]
    /\ UNCHANGED <<clock, stage, time, granted>>

Pass == clock' = clock + 1 /\ UNCHANGED <<stage, time, granted, posted>>

Next == Pass \/ Decide \/ \E r \in Rows, n \in 1..MaxSends : Post(r, n)

Spec == Init /\ [][Next]_<<clock, stage, time, granted, posted>>
=============================================================================
