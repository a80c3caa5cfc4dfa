------------------------ MODULE TicketCounterProofs ------------------------
(***************************************************************************)
(* Proofs about TicketCounter: its type invariant and, for every number of *)
(* calls, abandoned ones and failed writes, that numbers only grow while   *)
(* reads do not fail and the guild has a counter or calls take turns.      *)
(***************************************************************************)
EXTENDS TicketCounter, TLAPS

LEMMA LargerIsMax ==
    ASSUME NEW m \in Nat, NEW n \in Nat
    PROVE  Larger(m, n) \in Nat /\ Larger(m, n) >= m /\ Larger(m, n) >= n
  BY DEF Larger

LEMMA HighestIsNat ==
    ASSUME channels \in SUBSET Nat, NEW n \in Highest
    PROVE  n \in Nat /\ \A m \in channels : m <= n
  BY DEF Highest

-----------------------------------------------------------------------------
(* Types *)

(* A call that is about to swap has an attempt left. *)
TriesLeft == \A c \in Calls : pc[c] = "swap" => tries[c] < MaxTries

LEMMA TypeInit == Init => TypeOK /\ TriesLeft
  BY CounterAssumptions DEF Init, TypeOK, TriesLeft, Steps

LEMMA TypeStep == TypeOK /\ TriesLeft /\ [Next]_vars => TypeOK'
<1> SUFFICES ASSUME TypeOK, TriesLeft, [Next]_vars PROVE TypeOK'
  OBVIOUS
<1> USE CounterAssumptions
<1> USE DEF TypeOK, Steps, Set, locals, tables, guild, bounds, Works, ReadFails,
            WriteWorks, WriteFails, Return, Idle, Seeded, Value
<1>1. ASSUME NEW c \in Calls, Begin(c) PROVE TypeOK'
  BY <1>1, HighestIsNat DEF Begin
<1>2. ASSUME NEW c \in Calls, NoDatabase(c) PROVE TypeOK'
  BY <1>2 DEF NoDatabase
<1>3. ASSUME NEW c \in Calls, Abandon(c) PROVE TypeOK'
  BY <1>3 DEF Abandon
<1>4. ASSUME NEW c \in Calls, ReadHistory(c) PROVE TypeOK'
  BY <1>4 DEF ReadHistory, Larger
<1>5. ASSUME NEW c \in Calls, ReadCounter(c) PROVE TypeOK'
  BY <1>5 DEF ReadCounter
<1>6. ASSUME NEW c \in Calls, SeedInsert(c) PROVE TypeOK'
  BY <1>6 DEF SeedInsert
<1>7. ASSUME NEW c \in Calls, SeedRaise(c) PROVE TypeOK'
  BY <1>7 DEF SeedRaise, Swapped
<1>8. ASSUME NEW c \in Calls, SeedReread(c) PROVE TypeOK'
  BY <1>8 DEF SeedReread, Larger
<1>9. ASSUME NEW c \in Calls, RpcReads(c) PROVE TypeOK'
  BY <1>9 DEF RpcReads
<1>10. ASSUME NEW c \in Calls, RpcCommits(c) PROVE TypeOK'
  BY <1>10 DEF RpcCommits, Larger
<1>11. ASSUME NEW c \in Calls, TryRead(c) PROVE TypeOK'
  BY <1>11 DEF TryRead, Retry, Larger
<1>12. ASSUME NEW c \in Calls, TrySwap(c) PROVE TypeOK'
  <2>1. tries[c] < MaxTries
    BY <1>12 DEF TriesLeft, TrySwap
  <2> QED  BY <1>12, <2>1 DEF TrySwap, Retry, Swapped
<1>13. ASSUME NEW c \in Calls, GiveUp(c) PROVE TypeOK'
  BY <1>13 DEF GiveUp
<1>14. ASSUME NEW c \in Calls, Guild(c) PROVE TypeOK'
  BY <1>14 DEF Guild, OpenChannel, StoreTicket, DeleteChannel, Larger
<1>15. CASE UNCHANGED vars
  BY <1>15 DEF vars
<1> QED
  BY <1>1, <1>2, <1>3, <1>4, <1>5, <1>6, <1>7, <1>8, <1>9, <1>10, <1>11, <1>12, <1>13,
     <1>14, <1>15 DEF Next, Work, Seed, Rpc, Try

LEMMA TriesStep == TypeOK /\ TriesLeft /\ [Next]_vars => TriesLeft'
<1> SUFFICES ASSUME TypeOK, TriesLeft, [Next]_vars PROVE TriesLeft'
  OBVIOUS
<1> USE CounterAssumptions
<1> USE DEF TypeOK, TriesLeft, Set, locals, Return, Idle, Seeded
<1>1. ASSUME NEW c \in Calls, Begin(c) \/ NoDatabase(c) \/ Abandon(c) \/ Guild(c)
      PROVE  TriesLeft'
  BY <1>1 DEF Begin, NoDatabase, Abandon, Guild, OpenChannel, StoreTicket, DeleteChannel
<1>2. ASSUME NEW c \in Calls, Seed(c) PROVE TriesLeft'
  BY <1>2 DEF Seed, ReadHistory, ReadCounter, SeedInsert, SeedRaise, SeedReread
<1>3. ASSUME NEW c \in Calls, Rpc(c) PROVE TriesLeft'
  BY <1>3 DEF Rpc, RpcReads, RpcCommits
<1>4. ASSUME NEW c \in Calls, Try(c) PROVE TriesLeft'
  BY <1>4 DEF Try, TryRead, TrySwap, GiveUp, Retry
<1>5. CASE UNCHANGED vars
  BY <1>5 DEF vars
<1> QED
  BY <1>1, <1>2, <1>3, <1>4, <1>5 DEF Next, Work

(* Every variable stays in its set, whatever fails and is abandoned. *)
THEOREM TypeCorrect == Spec => []TypeOK
<1>1. Spec => [](TypeOK /\ TriesLeft)
  BY TypeInit, TypeStep, TriesStep, PTL DEF Spec
<1> QED  BY <1>1, PTL

-----------------------------------------------------------------------------
(* The counter only grows while no read fails, if it exists or calls take turns. *)

CounterExists == StartCounter # None
Serialised == Abandonable = {}

(* A failure is not forgotten. *)
LEMMA FaultsStay ==
    ASSUME TypeOK, [Next]_vars
    PROVE  (readFaults' = 0 => readFaults = 0) /\ (writeFaults' = 0 => writeFaults = 0)
<1> DEFINE Goal == (readFaults' = 0 => readFaults = 0) /\ (writeFaults' = 0 => writeFaults = 0)
<1> USE DEF TypeOK, bounds, Works, ReadFails, WriteWorks, WriteFails
<1>1. ASSUME NEW c \in Calls, Begin(c) \/ NoDatabase(c) \/ Abandon(c) \/ Guild(c)
      PROVE  Goal
  BY <1>1 DEF Begin, NoDatabase, Abandon, Guild, OpenChannel, StoreTicket, DeleteChannel
<1>2. ASSUME NEW c \in Calls, Seed(c) PROVE Goal
  BY <1>2 DEF Seed, ReadHistory, ReadCounter, SeedInsert, SeedRaise, SeedReread
<1>3. ASSUME NEW c \in Calls, Rpc(c) \/ Try(c) PROVE Goal
  BY <1>3 DEF Rpc, RpcReads, RpcCommits, Try, TryRead, TrySwap, GiveUp
<1>4. CASE UNCHANGED vars
  BY <1>4 DEF vars
<1> QED  BY <1>1, <1>2, <1>3, <1>4 DEF Next, Work

(* The guild's lock: if nobody abandons a call, only one is under way. *)
Alone == Serialised => \A c \in Calls : pc[c] \notin {"new", "done", "failed"} => lock = c

LEMMA AloneStep == TypeOK /\ Alone /\ [Next]_vars => Alone'
<1> SUFFICES ASSUME TypeOK, Alone, [Next]_vars, Serialised PROVE Alone'
  BY DEF Alone
<1> USE CounterAssumptions DEF TypeOK, Alone, Serialised, Set, locals, Idle, Seeded
<1>1. ASSUME NEW c \in Calls, Begin(c) \/ NoDatabase(c) \/ Abandon(c) \/ GiveUp(c) PROVE Alone'
  BY <1>1 DEF Begin, NoDatabase, Abandon, GiveUp
<1>2. ASSUME NEW c \in Calls, Guild(c) PROVE Alone'
  BY <1>2 DEF Guild, OpenChannel, StoreTicket, DeleteChannel
<1>3. ASSUME NEW c \in Calls, Seed(c) PROVE Alone'
  BY <1>3 DEF Seed, ReadHistory, ReadCounter, SeedInsert, SeedRaise, SeedReread
<1>4. ASSUME NEW c \in Calls, Rpc(c) PROVE Alone'
  BY <1>4 DEF Rpc, RpcReads, RpcCommits, Return
<1>5. ASSUME NEW c \in Calls, TryRead(c) \/ TrySwap(c) PROVE Alone'
  BY <1>5 DEF TryRead, TrySwap, Retry, Return
<1>6. CASE UNCHANGED vars
  BY <1>6 DEF vars
<1> QED  BY <1>1, <1>2, <1>3, <1>4, <1>5, <1>6 DEF Next, Work, Try

(* A call that believes the row missing is right; the counter is at least every
   number given; whoever will raise it has a higher floor; only a call that is
   over has its number. *)
CounterInv ==
    /\ counter = None => Serialised
    /\ \A c \in Calls :
          /\ pc[c] = "insert" => counter = None
          /\ num[c] <= Value
          /\ pc[c] = "raise" => counter # None /\ seen[c] < floor[c]
          /\ num[c] # 0 => pc[c] = "done"

(* What a step does to the counter and to the numbers. *)
Grows ==
    /\ Value <= Value' /\ (counter # None => counter' # None)
    /\ \/ UNCHANGED num
       \/ \E c \in Calls :
             /\ num[c] = 0 /\ Value < Value' /\ pc'[c] = "done"
             /\ num' = [num EXCEPT ![c] = Value']

LEMMA ValueIsNat == TypeOK => Value \in Nat
  BY DEF TypeOK, Value

(* A step that gives no number. *)
LEMMA NothingGiven ==
    ASSUME TypeOK, TypeOK', CounterInv, UNCHANGED num, Value <= Value',
           counter # None => counter' # None,
           \A d \in Calls :
              /\ \/ pc'[d] = pc[d] /\ seen'[d] = seen[d] /\ floor'[d] = floor[d]
                 \/ /\ pc[d] # "done"
                    /\ pc'[d] = "raise" => counter # None /\ seen'[d] < floor'[d]
              /\ pc'[d] = "insert" => counter' = None
    PROVE  CounterInv' /\ Grows
<1>1. Value \in Nat /\ Value' \in Nat
  BY ValueIsNat, TypeOK' DEF TypeOK, Value
<1>2. \A d \in Calls : num[d] \in Nat /\ num'[d] <= Value'
  BY <1>1 DEF TypeOK, CounterInv
<1>3. counter' = None => Serialised
  BY DEF CounterInv
<1>4. \A d \in Calls : /\ pc'[d] = "insert" => counter' = None
                       /\ num'[d] <= Value'
                       /\ pc'[d] = "raise" => counter' # None /\ seen'[d] < floor'[d]
                       /\ num'[d] # 0 => pc'[d] = "done"
  BY <1>2 DEF CounterInv
<1>5. CounterInv'
  BY <1>3, <1>4 DEF CounterInv, Serialised
<1> QED  BY <1>5 DEF Grows

(* A step that gives the number it leaves in the counter. *)
LEMMA OneGiven ==
    ASSUME TypeOK, TypeOK', CounterInv, Alone, NEW c \in Calls,
           pc[c] \notin {"new", "done", "failed"},
           counter' # None, Value < Value', UNCHANGED <<seen, floor>>,
           pc' = [pc EXCEPT ![c] = "done"],
           num' = num \/ num' = [num EXCEPT ![c] = Value']
    PROVE  CounterInv' /\ Grows
<1>1. Value \in Nat /\ Value' \in Nat /\ num[c] = 0
  BY ValueIsNat, TypeOK' DEF TypeOK, CounterInv, Value
<1>2. pc'[c] = "done" /\ \A d \in Calls \ {c} : pc'[d] = pc[d] /\ num'[d] = num[d]
  BY DEF TypeOK
<1>3. num'[c] \in {0, Value'}
  BY <1>1 DEF TypeOK
<1>4. \A d \in Calls : num[d] \in Nat /\ num'[d] <= Value'
  BY <1>1, <1>2, <1>3 DEF TypeOK, CounterInv
<1>5. \A d \in Calls : pc'[d] # "insert"
  BY <1>2, CounterAssumptions DEF CounterInv, Alone
<1>6. \A d \in Calls : /\ pc'[d] = "raise" => seen'[d] < floor'[d]
                       /\ num'[d] # 0 => pc'[d] = "done"
  BY <1>2 DEF CounterInv
<1>7. CounterInv'
  BY <1>4, <1>5, <1>6 DEF CounterInv
<1>8. Grows
  BY <1>1, <1>2 DEF Grows
<1> QED  BY <1>7, <1>8

LEMMA CounterStep ==
    ASSUME TypeOK, TypeOK', Alone, CounterInv, [Next]_vars, readFaults' = readFaults
    PROVE  CounterInv' /\ Grows
<1> DEFINE Goal == CounterInv' /\ Grows
<1>0. /\ Value \in Nat /\ Value' \in Nat /\ Value <= Value
      /\ readFaults \in Nat /\ readFaults + 1 # readFaults
      /\ \A c \in Calls : seen[c] \in Nat /\ floor[c] \in Nat
      /\ counter # None => counter = Value
      /\ None \notin Nat
  BY ValueIsNat, CounterAssumptions DEF TypeOK, Value
<1>a. ASSUME UNCHANGED <<counter, num>>,
             \A d \in Calls :
                \/ pc'[d] = pc[d] /\ seen'[d] = seen[d] /\ floor'[d] = floor[d]
                \/ /\ pc[d] # "done" /\ (pc'[d] = "insert" => counter = None)
                   /\ pc'[d] = "raise" => counter # None /\ seen'[d] < floor'[d]
      PROVE  Goal
  <2>1. Value' = Value
    BY <1>a DEF Value
  <2>2. \A d \in Calls : pc'[d] = "insert" => counter' = None
    BY <1>a DEF CounterInv
  <2> QED  BY <1>0, <1>a, <2>1, <2>2, NothingGiven
<1> USE DEF Works, ReadFails, WriteWorks, WriteFails, Return, Idle, Seeded, Set, bounds, locals,
            TypeOK
<1>1. ASSUME NEW c \in Calls,
             Begin(c) \/ NoDatabase(c) \/ Abandon(c) \/ Guild(c) \/ GiveUp(c)
      PROVE  Goal
  BY <1>a, <1>1
     DEF Begin, NoDatabase, Abandon, Guild, GiveUp, OpenChannel, StoreTicket, DeleteChannel, tables
<1>2. ASSUME NEW c \in Calls, ReadHistory(c) \/ ReadCounter(c) \/ SeedReread(c) PROVE Goal
  BY <1>a, <1>0, <1>2 DEF ReadHistory, ReadCounter, SeedReread
<1>3. ASSUME NEW c \in Calls, SeedInsert(c) PROVE Goal
  <2>1. counter = None /\ Value = 0 /\ pc[c] = "insert"
    BY <1>3 DEF SeedInsert, CounterInv, Value
  <2>2. \A d \in Calls \ {c} : pc[d] # "insert"
    BY <2>1, CounterAssumptions DEF CounterInv, Alone
  <2>3. UNCHANGED <<num, seen, floor>> /\ pc' = [pc EXCEPT ![c] = IF c \in fallback THEN "read" ELSE "rpc"]
    BY <1>3 DEF SeedInsert
  <2>4. \A d \in Calls : pc'[d] # "insert"
    BY <2>2, <2>3
  <2> QED  BY <1>0, <2>1, <2>3, <2>4, NothingGiven
<1>4. ASSUME NEW c \in Calls, SeedRaise(c) PROVE Goal
  <2>1. /\ counter # None /\ seen[c] < floor[c]
        /\ pc[c] = "raise" /\ pc'[c] \notin {"insert", "raise"}
        /\ \A d \in Calls \ {c} : pc'[d] = pc[d]
        /\ UNCHANGED <<num, seen, floor>>
    BY <1>4 DEF SeedRaise, CounterInv
  <2>2. counter' \in {counter, floor[c]} /\ (counter' # counter => counter = seen[c])
    BY <1>4 DEF SeedRaise, Swapped
  <2>3. counter' # None /\ Value <= Value'
    BY <1>0, <2>1, <2>2 DEF Value
  <2>4. \A d \in Calls : pc'[d] # "insert"
    BY <2>1 DEF CounterInv
  <2> QED  BY <2>1, <2>3, <2>4, NothingGiven
<1>5. ASSUME NEW c \in Calls, RpcReads(c) \/ TryRead(c) PROVE Goal
  BY <1>a, <1>0, <1>5 DEF RpcReads, TryRead, Retry
<1>6. ASSUME NEW c \in Calls, RpcCommits(c) PROVE Goal
  <2> DEFINE n == Larger(Value, seen[c]) + 1
  <2>1. Larger(Value, seen[c]) \in Nat /\ Value <= Larger(Value, seen[c])
    BY <1>0, LargerIsMax
  <2>2. n \in Nat /\ Value < n
    BY <1>0, <2>1
  <2>3. RpcCommits(c) <=>
          /\ pc[c] = "commit"
          /\ \/ WriteWorks(n) /\ Return(c, n) /\ UNCHANGED <<chan, fallback>>
             \/ /\ WriteFails(n)
                /\ fallback' = fallback \cup {c}
                /\ chan' = Set(chan, c, floor[c])
                /\ pc' = Set(pc, c, "history")
                /\ UNCHANGED <<num, lock>>
          /\ UNCHANGED <<history, guild, floor, seen, tries, abandoned>>
    BY DEF RpcCommits
  <2> HIDE DEF n
  <2>4. CASE pc' = Set(pc, c, "done")
    <3>1. counter' = n /\ Return(c, n) /\ pc[c] = "commit" /\ UNCHANGED <<seen, floor>>
      BY <1>6, <2>3, <2>4
    <3>2. counter' # None /\ Value' = n
      BY <1>0, <2>2, <3>1 DEF Value
    <3> QED  BY <2>2, <3>1, <3>2, OneGiven
  <2>5. CASE pc' # Set(pc, c, "done")
    <3>1. /\ counter' \in {counter, n}
          /\ pc[c] = "commit" /\ pc' = Set(pc, c, "history")
          /\ UNCHANGED <<num, seen, floor>>
      BY <1>6, <2>3, <2>5
    <3>2. Value <= Value' /\ (counter # None => counter' # None)
      <4>1. CASE counter' = counter
        BY <1>0, <4>1 DEF Value
      <4>2. CASE counter' = n
        BY <1>0, <2>2, <4>2 DEF Value
      <4> QED  BY <3>1, <4>1, <4>2
    <3>3. \A d \in Calls : pc'[d] = "insert" => counter' = None
      BY <3>1, CounterAssumptions DEF CounterInv, Alone
    <3> QED  BY <3>1, <3>2, <3>3, NothingGiven
  <2> QED  BY <2>4, <2>5
<1>7. ASSUME NEW c \in Calls, TrySwap(c) PROVE Goal
  <2>0. pc[c] = "swap" /\ UNCHANGED <<seen, floor>>
    BY <1>7 DEF TrySwap
  <2>1. CASE Return(c, seen[c] + 1)
    <3>1. counter = seen[c] /\ counter' = seen[c] + 1
      BY <1>7, <2>1 DEF TrySwap, Retry
    <3>2. counter' # None /\ Value' = seen[c] + 1 /\ Value < Value'
      BY <1>0, <3>1 DEF Value
    <3> QED  BY <2>0, <2>1, <3>2, OneGiven
  <2>2. CASE ~ Return(c, seen[c] + 1)
    <3>1. /\ counter' = counter \/ (counter = seen[c] /\ counter' = seen[c] + 1)
          /\ pc' = Set(pc, c, "read") /\ UNCHANGED num
      BY <1>7, <2>2 DEF TrySwap, Retry, Swapped
    <3>2. Value <= Value' /\ (counter # None => counter' # None)
      BY <1>0, <3>1 DEF Value
    <3>3. \A d \in Calls : pc'[d] = "insert" => counter' = None
      BY <1>0, <3>1, <2>0 DEF CounterInv
    <3> QED  BY <2>0, <3>1, <3>2, <3>3, NothingGiven
  <2> QED  BY <2>1, <2>2
<1>8. CASE UNCHANGED vars
  BY <1>a, <1>8 DEF vars, tables
<1> QED
  BY <1>1, <1>2, <1>3, <1>4, <1>5, <1>6, <1>7, <1>8 DEF Next, Work, Seed, Rpc, Try

(* The invariant of a guild that has a counter, or whose calls take turns. *)
SafeInv == TypeOK /\ TriesLeft /\ Alone /\ (readFaults = 0 => CounterInv)

LEMMA CounterInvAlways ==
    ASSUME CounterExists \/ Serialised PROVE Spec => []SafeInv
<1>1. Init => SafeInv
  BY TypeInit, CounterAssumptions
     DEF CounterExists, Init, CounterInv, SafeInv, Alone, Value
<1>2. SafeInv /\ [Next]_vars => SafeInv'
  BY CounterStep, TypeStep, TriesStep, AloneStep, FaultsStay DEF SafeInv
<1> QED  BY <1>1, <1>2, PTL DEF Spec

(* "Never lower the counter.": however calls overlap and writes fail in a guild
   that has one, and, while nobody abandons a call, in any guild. *)
THEOREM CounterOnlyGrows ==
    ASSUME CounterExists \/ Serialised PROVE Spec => CounterNeverLowered
<1>1. SafeInv /\ [Next]_vars
         => [readFaults' = 0 /\ counter # None
               => (counter' # None /\ counter <= counter')]_vars
  BY CounterStep, TypeStep, FaultsStay DEF Grows, SafeInv, Value
<1> QED  BY <1>1, CounterInvAlways, PTL DEF Spec, CounterNeverLowered

(* "Reserve the next never-reused ticket number": under the same assumption each
   number given exceeds every number given before, whatever writes fail. *)
THEOREM NumbersNeverReused ==
    ASSUME CounterExists \/ Serialised PROVE Spec => NumbersOnlyGrow
<1> DEFINE A == readFaults' = 0 => \A c \in Calls : num'[c] # num[c] => GivesMore(c)
<1>1. SafeInv /\ [Next]_vars => [A]_vars
  <2> SUFFICES ASSUME SafeInv, [Next]_vars, readFaults' = 0, NEW d \in Calls, num'[d] # num[d]
               PROVE  GivesMore(d)
    OBVIOUS
  <2>1. TypeOK /\ TypeOK' /\ CounterInv /\ Grows
    BY CounterStep, TypeStep, FaultsStay DEF SafeInv
  <2>2. PICK c \in Calls : /\ num[c] = 0 /\ Value < Value'
                           /\ num' = [num EXCEPT ![c] = Value']
    BY <2>1 DEF Grows
  <2>3. num'[c] = Value' /\ \A e \in Calls \ {c} : num'[e] = num[e]
    BY <2>1, <2>2 DEF TypeOK
  <2>4. Value \in Nat /\ Value' \in Nat
    BY <2>1, ValueIsNat DEF TypeOK, Value
  <2>5. \A e \in Calls : num[e] < Value'
    BY <2>1, <2>2, <2>4 DEF TypeOK, CounterInv
  <2> QED  BY <2>2, <2>3, <2>5 DEF GivesMore
<1> QED  BY <1>1, CounterInvAlways, PTL DEF Spec, NumbersOnlyGrow

-----------------------------------------------------------------------------
(* No number of the old scheme, as long as nothing has failed. *)

Reached == counter # None /\ counter >= Legacy

(* The old channel is still there, every call that looked has seen it, and no
   counter below it survives a call's seeding. *)
LegacySeen ==
    /\ Legacy \in channels /\ fallback = {}
    /\ \A c \in Calls :
          /\ pc[c] \notin {"read", "swap"}
          /\ pc[c] \notin {"new", "done", "failed"} => chan[c] >= Legacy
          /\ pc[c] \in {"counter", "insert", "raise", "reread", "rpc", "commit"}
                => floor[c] >= Legacy
          /\ pc[c] \in {"reread", "rpc", "commit"} => Reached
          /\ pc[c] = "raise" => (seen[c] = counter \/ Reached)
          /\ num[c] # 0 => num[c] > Legacy
          /\ c \in opened => num[c] # 0

LegacyInv == readFaults = 0 /\ writeFaults = 0 => LegacySeen

LEMMA LegacyStep ==
    ASSUME TypeOK, TypeOK', LegacyInv, [Next]_vars
    PROVE  LegacyInv'
<1> USE CounterAssumptions
<1> SUFFICES ASSUME readFaults' = 0, writeFaults' = 0 PROVE LegacySeen'
  BY DEF LegacyInv
<1>0. /\ \A c \in Calls : floor[c] \in Nat /\ chan[c] \in Nat /\ num[c] \in Nat /\ seen[c] \in Nat
      /\ readFaults = 0 /\ writeFaults = 0 /\ LegacySeen
  BY FaultsStay DEF TypeOK, LegacyInv
<1> USE DEF Works, ReadFails, WriteWorks, WriteFails, Return, Idle, Seeded, Set, bounds, locals,
            tables, guild, TypeOK, LegacySeen, Reached
<1>1. ASSUME NEW c \in Calls, Begin(c) PROVE LegacySeen'
  <2>1. PICK n \in Highest : chan' = [chan EXCEPT ![c] = n]
    BY <1>0, <1>1 DEF Begin
  <2>2. n \in Nat /\ n >= Legacy
    BY <1>0, HighestIsNat
  <2> QED  BY <1>0, <1>1, <2>1, <2>2 DEF Begin
<1>2. ASSUME NEW c \in Calls, NoDatabase(c) \/ Abandon(c) \/ GiveUp(c) PROVE LegacySeen'
  BY <1>0, <1>2 DEF NoDatabase, Abandon, GiveUp
<1>3. ASSUME NEW c \in Calls, Guild(c) PROVE LegacySeen'
  BY <1>0, <1>3 DEF Guild, OpenChannel, StoreTicket, DeleteChannel
<1>4. ASSUME NEW c \in Calls, ReadHistory(c) PROVE LegacySeen'
  BY <1>0, <1>4 DEF ReadHistory, Larger
<1>5. ASSUME NEW c \in Calls, ReadCounter(c) PROVE LegacySeen'
  BY <1>0, <1>5 DEF ReadCounter
<1>6. ASSUME NEW c \in Calls, SeedInsert(c) \/ SeedRaise(c) PROVE LegacySeen'
  BY <1>0, <1>6 DEF SeedInsert, SeedRaise, Swapped
<1>7. ASSUME NEW c \in Calls, SeedReread(c) PROVE LegacySeen'
  BY <1>0, <1>7 DEF SeedReread, Larger, Value
<1>8. ASSUME NEW c \in Calls, TryRead(c) \/ TrySwap(c) PROVE LegacySeen'
  BY <1>0, <1>8 DEF TryRead, TrySwap
<1>9. ASSUME NEW c \in Calls, RpcReads(c) PROVE LegacySeen'
  BY <1>0, <1>9 DEF RpcReads
<1>10. ASSUME NEW c \in Calls, RpcCommits(c) PROVE LegacySeen'
  BY <1>0, <1>10 DEF RpcCommits, Larger, Value
<1>11. CASE UNCHANGED vars
  BY <1>0, <1>11 DEF vars
<1> QED
  BY <1>0, <1>1, <1>2, <1>3, <1>4, <1>5, <1>6, <1>7, <1>8, <1>9, <1>10, <1>11
     DEF Next, Work, Seed, Rpc, Try

(* "Discord channel state can seed a migration floor": a guild that comes with
   numbered channels never gets their numbers again, with or without a counter and
   however calls overlap, unless a statement failed. *)
THEOREM LegacyKept == Spec => []AboveLegacy
<1>1. Init => LegacyInv
  BY CounterAssumptions DEF Init, LegacyInv, LegacySeen
<1>2. TypeOK /\ TypeOK' /\ LegacyInv /\ [Next]_vars => LegacyInv'
  BY LegacyStep
<1>3. LegacyInv => AboveLegacy
  BY DEF LegacyInv, LegacySeen, AboveLegacy
<1> QED  BY <1>1, <1>2, <1>3, TypeCorrect, PTL DEF Spec
=============================================================================
