--------------------------- MODULE RunLoop_proof ---------------------------
(* Theorems about RunLoop, for every value of its constants: its counts,   *)
(* late starts and the shared reader, and that it implements CallPromise.  *)
EXTENDS RunLoop, SequenceTheorems, TLAPS

(* A countdown stays a countdown: Sooner, PerAttempt and Less.             *)
LEMMA CountdownOps ==
  ASSUME NEW a \in Countdown, NEW b \in Countdown
  PROVE  Sooner(a, b) \in Countdown /\ Less(a) \in Countdown
BY RunLoopAssumption DEF Sooner, Less, Countdown

LEMMA ConfigFields ==
  ASSUME NEW k \in Config
  PROVE  k.timeout \in Countdown /\ k.deadline \in Countdown
BY DEF Config

(* What an attempt's outcome leaves well typed (Settle).                   *)
LEMMA SettleTypes ==
  ASSUME TypeOK, NEW c \in Calls, NEW kind \in Overs, Settle(c, kind)
  PROVE  /\ pc' \in [Calls -> PCs]
         /\ result' \in [Calls -> Results]
         /\ backoff' \in [Calls -> 0..MaxRetries]
         /\ left' \in [Calls -> Nat]
<1>1. Stamp(c, kind) \in Nat
  BY DEF Stamp, TypeOK
<1>2. [kind |-> kind, attempts |-> Stamp(c, kind)] \in Results
  BY <1>1 DEF Results, Overs, Exits, ErrorKinds, NonZeroKinds
<1>3. CASE Return(c, kind, Stamp(c, kind)) /\ UNCHANGED <<backoff, left>>
  BY <1>2, <1>3 DEF Return, TypeOK, PCs
<1>4. CASE /\ backoff[c] > 0
           /\ pc' = [pc EXCEPT ![c] = "sleep"]
           /\ backoff' = [backoff EXCEPT ![c] = @ - 1]
           /\ \E d \in Delays : left' = [left EXCEPT ![c] = d]
           /\ UNCHANGED result
  <2>1. backoff[c] - 1 \in 0..MaxRetries
    BY <1>4, RunLoopAssumption DEF TypeOK
  <2>2. left' \in [Calls -> Nat]
    BY <1>4, RunLoopAssumption DEF TypeOK
  <2> QED BY <1>4, <2>1, <2>2 DEF TypeOK, PCs
<1> QED BY <1>3, <1>4 DEF Settle

(* Every step keeps the type invariant.                                    *)
LEMMA TypeStep == TypeOK /\ [Next]_vars => TypeOK'
<1> SUFFICES ASSUME TypeOK, [Next]_vars PROVE TypeOK'
  OBVIOUS
<1> USE DEF shared
<1>a. ASSUME NEW c \in Calls PROVE PerAttempt(c) \in Countdown
  BY <1>a, CountdownOps, ConfigFields DEF PerAttempt, TypeOK
<1>b. ASSUME NEW c \in Calls, NEW kind \in {"spawn", "timeout", "cancelled"},
             NEW n \in Nat, Return(c, kind, n)
      PROVE  pc' \in [Calls -> PCs] /\ result' \in [Calls -> Results]
  <2>1. [kind |-> kind, attempts |-> n] \in Results
    BY DEF Results, ErrorKinds
  <2> QED BY <1>b, <2>1 DEF Return, TypeOK, PCs
<1>c. ASSUME NEW c \in Calls, NEW n \in Nat, Starts(c, n) \/ Overdue(c, n)
      PROVE  /\ pc' \in [Calls -> PCs] /\ result' \in [Calls -> Results]
             /\ attempt' \in [Calls -> Nat] /\ budget' \in [Calls -> Countdown]
  <2>1. /\ result' = result /\ attempt' = [attempt EXCEPT ![c] = n]
        /\ \E p \in {"take", "late"} : pc' = [pc EXCEPT ![c] = p]
        /\ budget' = budget \/ budget' = [budget EXCEPT ![c] = PerAttempt(c)]
    BY <1>c DEF Starts, Overdue
  <2>2. PerAttempt(c) \in Countdown
    BY <1>a
  <2>3. attempt' \in [Calls -> Nat]
    BY <2>1 DEF TypeOK
  <2>4. pc' \in [Calls -> PCs]
    BY <2>1 DEF TypeOK, PCs
  <2> QED BY <2>1, <2>2, <2>3, <2>4 DEF TypeOK
<1>d. ASSUME NEW c \in Calls, NEW kind \in Overs, EndWait(c, kind)
      PROVE  TypeOK'
  BY <1>d DEF EndWait, TypeOK, PCs
<1>e. ASSUME NEW c \in Calls, NEW place \in PCs, Goto(c, place)
      PROVE  TypeOK'
  BY <1>e DEF Goto, TypeOK
<1>1. ASSUME NEW c \in Calls, Enter(c) \/ Once(c) \/ Top(c) PROVE TypeOK'
  <2>1. attempt[c] + 1 \in Nat /\ 1 \in Nat
    BY DEF TypeOK
  <2>2. /\ pc' \in [Calls -> PCs] /\ result' \in [Calls -> Results]
        /\ attempt' \in [Calls -> Nat] /\ budget' \in [Calls -> Countdown]
    <3>1. CASE Enter(c)
      BY <1>b, <1>c, <2>1, <3>1 DEF Enter, TypeOK, PCs
    <3>2. CASE Once(c)
      BY <1>c, <2>1, <3>2 DEF Once
    <3>3. CASE Top(c)
      <4>1. CASE /\ Return(c, "cancelled", attempt[c] + 1) /\ UNCHANGED budget
                 /\ attempt' = [attempt EXCEPT ![c] = @ + 1]
        BY <1>b, <2>1, <4>1 DEF TypeOK
      <4>2. CASE Starts(c, attempt[c] + 1) \/ Overdue(c, attempt[c] + 1)
        BY <1>c, <2>1, <4>2
      <4> QED BY <3>3, <4>1, <4>2 DEF Top
    <3> QED BY <1>1, <3>1, <3>2, <3>3
  <2> QED BY <1>1, <2>2 DEF Enter, Once, Top, TypeOK
<1>2. ASSUME NEW c \in Calls, Late(c) PROVE TypeOK'
  BY <1>2, <1>b DEF Late, TypeOK
<1>3. ASSUME NEW c \in Calls, Take(c) PROVE TypeOK'
  <2> DEFINE e == [fed |-> Feed, stopped |-> IsSet(c), overdue |-> dl[c] = 0]
  <2>1. IsSet(c) \in BOOLEAN
    BY DEF IsSet, TypeOK
  <2>2. Feed \in Feeds
    BY DEF Feed, Feeds, TypeOK, StdinKinds, OneShot
  <2>3. e \in Start
    BY <2>1, <2>2 DEF Start
  <2>4. Append(log[c], e) \in Seq(Start)
    BY <2>3, AppendProperties DEF TypeOK
  <2>5. log' \in [Calls -> Seq(Start)]
    BY <1>3, <2>4 DEF Take, TypeOK
  <2> QED BY <1>3, <2>5 DEF Take, TypeOK, PCs
<1>4. ASSUME NEW c \in Calls, Spawn(c) PROVE TypeOK'
  BY <1>4, SettleTypes DEF Spawn, TypeOK, PCs, Childs, Overs
<1>5. ASSUME NEW c \in Calls, ChildExit(c) PROVE TypeOK'
  BY <1>5 DEF ChildExit, TypeOK, Childs
<1>6. ASSUME NEW c \in Calls,
             \/ SeeExit(c) \/ WaitFails(c) \/ PollCancelled(c)
             \/ PollTimedOut(c) \/ Expire(c)
      PROVE  TypeOK'
  BY <1>6, <1>d DEF SeeExit, WaitFails, PollCancelled, PollTimedOut, Expire, Overs
<1>7. ASSUME NEW c \in Calls,
             PollClock(c) \/ PollAgain(c) \/ ProbeRuns(c) \/ Lapse(c)
      PROVE  TypeOK'
  BY <1>7, <1>e DEF PollClock, PollAgain, ProbeRuns, Lapse, PCs
<1>8. ASSUME NEW c \in Calls, Finish(c) PROVE TypeOK'
  <2>1. over[c] \in Overs /\ Fate(c) \in Childs
    BY DEF TypeOK, Fate, Childs
  <2> QED BY <1>8, <2>1, SettleTypes DEF Finish, TypeOK, Overs
<1>10. ASSUME NEW c \in Calls, Wake(c) PROVE TypeOK'
  <2>1. pc' \in [Calls -> PCs] /\ result' \in [Calls -> Results]
    <3>1. attempt[c] \in Nat
      BY DEF TypeOK
    <3> QED BY <1>10, <1>b, <3>1 DEF Wake, TypeOK, PCs
  <2> QED BY <1>10, <2>1 DEF Wake, TypeOK
<1>11. ASSUME NEW c \in Calls, DropFuture(c) PROVE TypeOK'
  BY <1>11 DEF DropFuture, TypeOK, PCs, Childs, Overs
<1>12. CASE SetFlag
  BY <1>12 DEF SetFlag, TypeOK
<1>13. CASE Tick
  <2>1. \A n \in Nat : Less(n) \in Nat
    BY RunLoopAssumption DEF Less
  <2> QED BY <1>13, <2>1, CountdownOps DEF Tick, TypeOK
<1>14. CASE UNCHANGED vars
  BY <1>14 DEF vars, TypeOK
<1> QED BY <1>1, <1>2, <1>3, <1>4, <1>5, <1>6, <1>7, <1>8, <1>10, <1>11,
           <1>12, <1>13, <1>14 DEF Next, Runner, Waiting, Environment

LEMMA TypeInit == Init => TypeOK
<1> SUFFICES ASSUME Init PROVE TypeOK
  OBVIOUS
<1>1. conf \in [Calls -> Config]
  BY RunLoopAssumption DEF Init
<1>2. dl \in [Calls -> Countdown]
  BY <1>1, ConfigFields DEF Init
<1>3. log \in [Calls -> Seq(Start)]
  BY DEF Init
<1>4. Never \in Countdown /\ MaxRetries \in 0..MaxRetries
  BY RunLoopAssumption DEF Countdown
<1>5. result \in [Calls -> Results]
  BY DEF Init, Results, NoResult
<1> QED BY <1>1, <1>2, <1>3, <1>4, <1>5, RunLoopAssumption
         DEF Init, TypeOK, PCs, Childs, Overs

(* TypeOK: the loop only ever holds the values its types name; above all,  *)
(* backoff_iter never yields more than max_times delays.                   *)
THEOREM TypeCorrect == Spec => []TypeOK
BY TypeInit, TypeStep, PTL DEF Spec

-----------------------------------------------------------------------------
(* The inductive invariant.  CountOK ties attempt_no, the attempts begun   *)
(* and the delays left at every place of the loop; LateOK says that an     *)
(* attempt begun late is the last one and where it may be.                 *)
Begun(c) == Len(log[c])

InAttempt(c) == pc[c] \in {"spawn", "poll", "clock", "probe", "wait", "join"}

CountOK(c) ==
  /\ pc[c] \in {"enter", "once"} =>
       Begun(c) = 0 /\ attempt[c] = 0 /\ backoff[c] = MaxRetries
  /\ pc[c] = "once" => ~conf[c].retry
  /\ pc[c] \in {"top", "sleep"} =>
       conf[c].retry /\ attempt[c] = Begun(c) /\ attempt[c] + backoff[c] = MaxRetries
  /\ pc[c] = "sleep" => Begun(c) >= 1
  /\ pc[c] \in {"late", "take"} => attempt[c] = Begun(c) + 1
  /\ InAttempt(c) => attempt[c] = Begun(c) /\ Begun(c) >= 1
  /\ pc[c] \in {"late", "take"} \/ InAttempt(c) =>
       IF conf[c].retry THEN attempt[c] + backoff[c] = MaxRetries + 1
                        ELSE attempt[c] = 1
  /\ pc[c] \in {"poll", "clock", "probe"} => conf[c].cancel
  /\ Begun(c) <= (IF conf[c].retry THEN MaxRetries ELSE 0) + 1

LateOK(c) ==
  \A i \in 1..Begun(c) :
    /\ log[c][i].stopped =>
         /\ IsSet(c)
         /\ pc[c] \notin {"late", "take", "clock", "probe", "wait"}
         /\ pc[c] = "join" => over[c] = "cancelled"
    /\ log[c][i].overdue => dl[c] = 0 /\ pc[c] # "take"

LastOK(c) ==
  \A i \in 1..Begun(c) :
    i < Begun(c) => ~log[c][i].stopped /\ ~log[c][i].overdue

DoneOK(c) ==
  pc[c] = "done" =>
    /\ result[c].kind \notin {"ok", "spawn"} =>
         \/ result[c].attempts = Begun(c) /\ Begun(c) >= 1
         \/ /\ result[c].attempts = Begun(c) + 1
            /\ result[c].kind \in {"cancelled", "timeout"}
    /\ result[c].kind \in NonZeroKinds /\ Retried(c, result[c].kind) =>
         Begun(c) = MaxRetries + 1
    /\ \A i \in 1..Begun(c) :
         log[c][i].stopped => result[c].kind \in {"cancelled", "spawn"}

CallOK(c) == CountOK(c) /\ LateOK(c) /\ LastOK(c) /\ DoneOK(c)

IInv == TypeOK /\ \A c \in Calls : CallOK(c)

(* The types of what one call holds.                                       *)
LEMMA CallTypes ==
  ASSUME TypeOK, NEW c \in Calls
  PROVE  /\ attempt[c] \in Nat /\ backoff[c] \in Nat /\ MaxRetries \in Nat
         /\ Begun(c) \in Nat
         /\ log[c] \in Seq(Start)
         /\ DOMAIN log[c] = 1..Begun(c)
<1>1. log[c] \in Seq(Start)
  BY DEF TypeOK
<1>2. attempt[c] \in Nat /\ backoff[c] \in 0..MaxRetries /\ MaxRetries \in Nat
  BY RunLoopAssumption DEF TypeOK
<1> QED BY <1>1, <1>2, LenProperties DEF Begun

(* A step of one call leaves the others, the flag and the deadlines alone. *)
LEMMA Frame ==
  ASSUME TypeOK, NEW c \in Calls, Runner(c) \/ Environment(c)
  PROVE  /\ conf' = conf /\ flag' = flag /\ dl' = dl
         /\ \A d \in Calls \ {c} :
              /\ pc'[d] = pc[d] /\ attempt'[d] = attempt[d]
              /\ backoff'[d] = backoff[d] /\ result'[d] = result[d]
              /\ log'[d] = log[d] /\ over'[d] = over[d]
<1> USE DEF shared
<1>0. ASSUME NEW kind, Settle(c, kind)
      PROVE  \A d \in Calls \ {c} :
               /\ pc'[d] = pc[d] /\ backoff'[d] = backoff[d]
               /\ result'[d] = result[d]
  BY <1>0 DEF Settle, Return, TypeOK
<1>1. CASE Enter(c) \/ Once(c) \/ Top(c) \/ Late(c) \/ Wake(c)
  BY <1>1 DEF Enter, Once, Top, Late, Wake, Starts, Overdue, Return, TypeOK
<1>2. CASE Take(c) \/ ChildExit(c) \/ DropFuture(c)
  BY <1>2 DEF Take, ChildExit, DropFuture, TypeOK
<1>3. CASE Spawn(c)
  BY <1>3, <1>0 DEF Spawn, TypeOK
<1>4. CASE Finish(c)
  BY <1>4, <1>0 DEF Finish, TypeOK
<1>5. CASE Waiting(c) \/ WaitFails(c)
  BY <1>5 DEF Waiting, WaitFails, SeeExit, PollCancelled, PollClock,
        PollTimedOut, PollAgain, ProbeRuns, Lapse, Expire, EndWait, Goto, TypeOK
<1> QED BY <1>1, <1>2, <1>3, <1>4, <1>5 DEF Runner, Environment

(* An attempt that is over leaves its call in order, unless it began late  *)
(* and ends with something else than the cancellation.                     *)
LEMMA SettleOK ==
  ASSUME TypeOK, NEW c \in Calls, NEW kind, Settle(c, kind), CallOK(c),
         pc[c] \in {"spawn", "join"}, UNCHANGED <<conf, flag, dl, attempt, log>>,
         \A i \in 1..Begun(c) :
           log[c][i].stopped => kind \in {"cancelled", "spawn"}
  PROVE  CallOK(c)'
<1>1. CountOK(c)'
  <2>1. /\ attempt[c] = Begun(c) /\ Begun(c) >= 1 /\ Begun(c)' = Begun(c)
        /\ Begun(c) <= (IF conf[c].retry THEN MaxRetries ELSE 0) + 1
        /\ conf[c].retry => attempt[c] + backoff[c] = MaxRetries + 1
    BY DEF CallOK, CountOK, InAttempt, Begun
  <2>2. \/ pc'[c] = "done"
        \/ /\ pc'[c] = "sleep" /\ conf[c].retry
           /\ backoff'[c] = backoff[c] - 1
    BY DEF Settle, Return, Retried, TypeOK
  <2>3. /\ attempt[c] \in Nat /\ backoff[c] \in Nat /\ MaxRetries \in Nat
        /\ conf' = conf /\ attempt' = attempt
    BY CallTypes
  <2> QED BY <2>1, <2>2, <2>3 DEF CountOK, InAttempt
<1>2. LateOK(c)'
  BY DEF CallOK, LateOK, Begun, Settle, Return, TypeOK, IsSet
<1>3. LastOK(c)'
  BY DEF CallOK, LastOK, Begun
<1>4. DoneOK(c)'
  <2>1. SUFFICES ASSUME pc'[c] = "done" PROVE DoneOK(c)'
    BY DEF DoneOK
  <2>2. /\ ~Retried(c, kind) \/ backoff[c] = 0
        /\ result'[c] = [kind |-> kind, attempts |-> Stamp(c, kind)]
    BY <2>1 DEF Settle, Return, TypeOK
  <2>3. attempt[c] = Begun(c) /\ Begun(c) >= 1
    BY DEF CallOK, CountOK, InAttempt
  <2>4. Retried(c, kind) => Begun(c) = MaxRetries + 1
    BY <2>2, CallTypes DEF CallOK, CountOK, InAttempt, Retried
  <2> QED BY <2>2, <2>3, <2>4 DEF DoneOK, Begun, Stamp, Retried
<1> QED BY <1>1, <1>2, <1>3, <1>4 DEF CallOK

(* Each step of a call keeps that call in order.                           *)
LEMMA OwnStep ==
  ASSUME TypeOK, NEW c \in Calls, Runner(c) \/ Environment(c), CallOK(c)
  PROVE  CallOK(c)'
<1> USE DEF shared
<1>0. /\ attempt[c] \in Nat /\ backoff[c] \in Nat /\ MaxRetries \in Nat
      /\ Begun(c) \in Nat
  BY CallTypes
<1>1. CASE Enter(c) \/ Once(c)
  <2>1. Begun(c) = 0 /\ attempt[c] = 0 /\ backoff[c] = MaxRetries
    BY <1>1 DEF Enter, Once, CallOK, CountOK
  <2>2. log' = log /\ backoff' = backoff /\ conf' = conf
    BY <1>1 DEF Enter, Once
  <2>3. LateOK(c)' /\ LastOK(c)'
    BY <2>1, <2>2 DEF LateOK, LastOK, Begun
  <2>4. \/ /\ pc'[c] = "done" /\ attempt' = attempt
           /\ result'[c].attempts = 1
           /\ result'[c].kind \in {"spawn", "cancelled"}
        \/ pc'[c] = "top" /\ conf[c].retry /\ attempt' = attempt
        \/ pc'[c] = "once" /\ ~conf[c].retry /\ attempt' = attempt
        \/ pc'[c] \in {"take", "late"} /\ ~conf[c].retry /\ attempt'[c] = 1
    BY <1>1 DEF Enter, Once, Starts, Overdue, Return, TypeOK, CallOK, CountOK
  <2>5. CountOK(c)'
    BY <2>1, <2>2, <2>4, <1>0 DEF CountOK, InAttempt, Begun
  <2>6. DoneOK(c)'
    BY <2>1, <2>2, <2>4 DEF DoneOK, Begun, NonZeroKinds
  <2> QED BY <2>3, <2>5, <2>6 DEF CallOK
<1>2. CASE Top(c)
  <2>1. /\ conf[c].retry /\ attempt[c] = Begun(c)
        /\ attempt[c] + backoff[c] = MaxRetries
    BY <1>2 DEF Top, CallOK, CountOK
  <2>2. /\ log' = log /\ backoff' = backoff /\ conf' = conf /\ flag' = flag
        /\ dl' = dl /\ attempt'[c] = attempt[c] + 1
    BY <1>2 DEF Top, Starts, Overdue, TypeOK
  <2>3. \/ /\ pc'[c] = "done" /\ result'[c].attempts = attempt[c] + 1
           /\ result'[c].kind = "cancelled"
        \/ pc'[c] = "late" /\ ~IsSet(c)
        \/ pc'[c] = "take" /\ ~IsSet(c) /\ dl[c] # 0
    BY <1>2 DEF Top, Starts, Overdue, Return, TypeOK
  <2>4. CountOK(c)'
    <3>1. Begun(c)' = Begun(c) /\ pc'[c] \in {"done", "take", "late"}
      BY <2>2, <2>3 DEF Begun
    <3> QED BY <2>1, <2>2, <2>3, <3>1, <1>0 DEF CountOK, InAttempt
  <2>5. LateOK(c)' /\ LastOK(c)'
    BY <2>2, <2>3 DEF CallOK, LateOK, LastOK, Begun, IsSet
  <2>6. DoneOK(c)'
    BY <2>1, <2>2, <2>3 DEF DoneOK, CallOK, LateOK, Begun, NonZeroKinds
  <2> QED BY <2>4, <2>5, <2>6 DEF CallOK
<1>14. CASE Late(c)
  <2>1. /\ UNCHANGED <<conf, flag, dl, attempt, log, backoff>> /\ pc[c] = "late"
        /\ pc'[c] = "done" /\ result'[c].kind = "timeout"
        /\ result'[c].attempts = attempt[c]
    BY <1>14 DEF Late, Return, TypeOK
  <2>2. CountOK(c)'
    BY <2>1 DEF CallOK, CountOK, InAttempt, Begun
  <2>3. LateOK(c)' /\ LastOK(c)'
    BY <2>1 DEF CallOK, LateOK, LastOK, Begun, IsSet
  <2>4. attempt[c] = Begun(c) + 1 /\ \A i \in 1..Begun(c) : ~log[c][i].stopped
    BY <2>1 DEF CallOK, CountOK, LateOK
  <2>5. DoneOK(c)'
    BY <2>1, <2>4 DEF DoneOK, Begun, NonZeroKinds
  <2> QED BY <2>2, <2>3, <2>5 DEF CallOK
<1>3. CASE Take(c)
  <2> DEFINE e == [fed |-> Feed, stopped |-> IsSet(c), overdue |-> dl[c] = 0]
  <2>1. /\ backoff' = backoff /\ conf' = conf /\ flag' = flag /\ dl' = dl
        /\ attempt' = attempt /\ pc[c] = "take" /\ pc'[c] = "spawn"
        /\ log'[c] = Append(log[c], e)
    BY <1>3 DEF Take, TypeOK
  <2>2. e \in Start
    BY DEF Start, Feed, Feeds, IsSet, TypeOK
  <2>3. /\ Begun(c)' = Begun(c) + 1
        /\ \A i \in 1..Begun(c) : log'[c][i] = log[c][i]
        /\ log'[c][Begun(c) + 1] = e
    BY <2>1, <2>2, CallTypes, AppendProperties DEF Begun
  <2>4. CountOK(c)'
    BY <2>1, <2>3, <1>0 DEF CallOK, CountOK, InAttempt
  <2>5. \A i \in 1..Begun(c) : ~log[c][i].stopped /\ ~log[c][i].overdue
    BY <2>1 DEF CallOK, LateOK
  <2>6. \A i \in 1..Begun(c)' : i \in 1..Begun(c) \/ i = Begun(c) + 1
    BY <2>3, <1>0
  <2>7. LateOK(c)'
    <3>1. SUFFICES ASSUME NEW i \in 1..Begun(c)'
                   PROVE  /\ log'[c][i].stopped => IsSet(c)'
                          /\ log'[c][i].overdue => dl'[c] = 0
      BY <2>1 DEF LateOK
    <3>2. IsSet(c)' <=> IsSet(c)
      BY <2>1 DEF IsSet
    <3>3. CASE i \in 1..Begun(c)
      BY <2>3, <2>5, <3>3
    <3>4. CASE i = Begun(c) + 1
      <4>1. e.stopped = IsSet(c) /\ e.overdue = (dl[c] = 0)
        OBVIOUS
      <4> QED BY <2>1, <2>3, <3>2, <3>4, <4>1
    <3> QED BY <2>6, <3>3, <3>4
  <2>8. LastOK(c)'
    BY <2>3, <2>5, <2>6, <1>0 DEF LastOK
  <2>9. DoneOK(c)'
    BY <2>1 DEF DoneOK
  <2> QED BY <2>4, <2>7, <2>8, <2>9 DEF CallOK
<1>4. CASE Spawn(c)
  <2>1. CASE Settle(c, "spawn")
    <3>1. UNCHANGED <<conf, flag, dl, attempt, log>> /\ pc[c] = "spawn"
      BY <1>4 DEF Spawn
    <3> QED BY <2>1, <3>1, SettleOK
  <2>2. CASE /\ pc'[c] = IF conf[c].cancel THEN "poll" ELSE "wait"
             /\ UNCHANGED <<backoff, left, result>>
    <3>1. UNCHANGED <<conf, flag, dl, attempt, log, backoff>> /\ pc[c] = "spawn"
      BY <1>4, <2>2 DEF Spawn
    <3>2. CountOK(c)'
      BY <2>2, <3>1 DEF CallOK, CountOK, InAttempt, Begun
    <3>3. LateOK(c)' /\ LastOK(c)'
      BY <2>2, <3>1 DEF CallOK, LateOK, LastOK, Begun, IsSet
    <3>4. DoneOK(c)'
      BY <2>2 DEF DoneOK
    <3> QED BY <3>2, <3>3, <3>4 DEF CallOK
  <2> QED BY <1>4, <2>1, <2>2 DEF Spawn, TypeOK
<1>5. CASE ChildExit(c)
  BY <1>5 DEF ChildExit, CallOK, CountOK, InAttempt, LateOK, LastOK, DoneOK, Begun,
              IsSet, Retried
<1>6. pc[c] \in {"wait", "clock", "probe"} \/ ~IsSet(c) =>
        \A i \in 1..Begun(c) : ~log[c][i].stopped
  BY DEF CallOK, LateOK
<1>7. ASSUME UNCHANGED <<conf, flag, dl, attempt, log, backoff, result>>,
             InAttempt(c)', InAttempt(c),
             pc'[c] \in {"poll", "clock", "probe"} => conf[c].cancel,
             \A i \in 1..Begun(c) : log[c][i].stopped =>
               /\ pc'[c] \notin {"clock", "probe", "wait"}
               /\ pc'[c] = "join" => over'[c] = "cancelled"
      PROVE  CallOK(c)'
  <2>1. CountOK(c)'
    BY <1>7 DEF CallOK, CountOK, InAttempt, Begun
  <2>2. LateOK(c)' /\ LastOK(c)'
    BY <1>7 DEF CallOK, LateOK, LastOK, Begun, IsSet, InAttempt
  <2>3. DoneOK(c)'
    BY <1>7 DEF DoneOK, InAttempt
  <2> QED BY <2>1, <2>2, <2>3 DEF CallOK
<1>8. ASSUME NEW kind, EndWait(c, kind), InAttempt(c),
             \A i \in 1..Begun(c) : log[c][i].stopped => kind = "cancelled"
      PROVE  CallOK(c)'
  BY <1>7, <1>8 DEF EndWait, InAttempt, TypeOK
<1>9. CASE SeeExit(c) \/ WaitFails(c) \/ PollTimedOut(c) \/ Expire(c)
  <2>1. pc[c] \in {"wait", "clock", "probe"}
    BY <1>9 DEF SeeExit, WaitFails, PollTimedOut, Expire, Probing
  <2> QED BY <1>6, <1>8, <1>9, <2>1
          DEF SeeExit, WaitFails, PollTimedOut, Expire, InAttempt
<1>10. CASE PollCancelled(c)
  BY <1>8, <1>10 DEF PollCancelled, InAttempt
<1>11. CASE PollClock(c) \/ PollAgain(c) \/ ProbeRuns(c) \/ Lapse(c)
  <2>1. /\ UNCHANGED <<conf, flag, dl, attempt, log, backoff, result>>
        /\ pc[c] \in {"poll", "clock", "probe", "wait"}
        /\ pc'[c] \in {"poll", "clock", "probe", "wait"}
        /\ pc[c] = "wait" => conf[c].cancel
        /\ pc[c] = "poll" => ~IsSet(c)
    BY <1>11 DEF PollClock, PollAgain, ProbeRuns, Lapse, Goto, TypeOK
  <2>2. conf[c].cancel
    BY <2>1 DEF CallOK, CountOK
  <2> QED BY <1>6, <1>7, <2>1, <2>2 DEF InAttempt
<1>12. CASE Finish(c)
  <2>1. \A i \in 1..Begun(c) : log[c][i].stopped => over[c] = "cancelled"
    BY <1>12 DEF Finish, CallOK, LateOK
  <2> QED BY <1>12, <2>1, SettleOK DEF Finish
<1>15. CASE DropFuture(c)
  <2>1. /\ UNCHANGED <<conf, flag, dl, attempt, log, backoff, result>>
        /\ pc'[c] = "dropped"
    BY <1>15 DEF DropFuture, TypeOK
  <2>2. CountOK(c)'
    BY <2>1 DEF CallOK, CountOK, InAttempt, Begun
  <2>3. LateOK(c)' /\ LastOK(c)'
    BY <2>1 DEF CallOK, LateOK, LastOK, Begun, IsSet
  <2>4. DoneOK(c)'
    BY <2>1 DEF DoneOK
  <2> QED BY <2>2, <2>3, <2>4 DEF CallOK
<1>13. CASE Wake(c)
  <2>1. /\ UNCHANGED <<conf, flag, dl, attempt, log, backoff>> /\ pc[c] = "sleep"
        /\ \/ /\ pc'[c] = "done" /\ result'[c].kind = "cancelled"
              /\ result'[c].attempts = attempt[c]
           \/ pc'[c] = "top" /\ ~IsSet(c)
    BY <1>13 DEF Wake, Return, TypeOK
  <2>2. CountOK(c)'
    BY <2>1 DEF CallOK, CountOK, InAttempt, Begun
  <2>3. LateOK(c)' /\ LastOK(c)'
    BY <2>1 DEF CallOK, LateOK, LastOK, Begun, IsSet
  <2>4. attempt[c] = Begun(c) /\ Begun(c) >= 1
    BY <2>1 DEF CallOK, CountOK
  <2>5. DoneOK(c)'
    BY <2>1, <2>4 DEF DoneOK, Begun, NonZeroKinds
  <2> QED BY <2>2, <2>3, <2>5 DEF CallOK
<1> QED BY <1>1, <1>2, <1>3, <1>4, <1>5, <1>9, <1>10, <1>11, <1>12, <1>13, <1>14,
           <1>15 DEF Runner, Waiting, Environment

LEMMA IInvHolds == Spec => []IInv
<1>1. Init => IInv
  <2> SUFFICES ASSUME Init PROVE IInv
    OBVIOUS
  <2>1. TypeOK
    BY TypeInit
  <2>2. ASSUME NEW c \in Calls PROVE CallOK(c)
    BY EmptySeq, RunLoopAssumption
       DEF Init, CallOK, CountOK, InAttempt, LateOK, LastOK, DoneOK, Begun
  <2> QED BY <2>1, <2>2 DEF IInv
<1>2. IInv /\ [Next]_vars => IInv'
  <2> SUFFICES ASSUME IInv, [Next]_vars PROVE IInv'
    OBVIOUS
  <2>1. TypeOK'
    BY TypeStep DEF IInv
  <2>2. ASSUME NEW c \in Calls, Runner(c) \/ Environment(c), NEW d \in Calls
        PROVE  CallOK(d)'
    <3>1. CASE d = c
      BY <2>2, <3>1, OwnStep DEF IInv
    <3>2. CASE d # c
      <4>1. /\ conf' = conf /\ flag' = flag /\ dl' = dl
            /\ pc'[d] = pc[d] /\ attempt'[d] = attempt[d]
            /\ backoff'[d] = backoff[d] /\ result'[d] = result[d]
            /\ log'[d] = log[d] /\ over'[d] = over[d]
        BY <2>2, <3>2, Frame DEF IInv
      <4>2. CallOK(d)
        BY DEF IInv
      <4> QED BY <4>1, <4>2 DEF CallOK, CountOK, InAttempt, LateOK, LastOK, DoneOK, Begun,
                                IsSet, Retried
    <3> QED BY <3>1, <3>2
  <2>3. ASSUME SetFlag \/ Tick, NEW d \in Calls
        PROVE  CallOK(d)'
    <3>1. /\ UNCHANGED <<conf, pc, attempt, backoff, over, result, log>>
          /\ IsSet(d) => IsSet(d)'
          /\ dl[d] = 0 => dl'[d] = 0
      BY <2>3 DEF SetFlag, Tick, IsSet, Less, shared, IInv, TypeOK
    <3>2. CallOK(d)
      BY DEF IInv
    <3> QED BY <3>1, <3>2 DEF CallOK, CountOK, InAttempt, LateOK, LastOK, DoneOK, Begun,
                              Retried
  <2>4. ASSUME UNCHANGED vars, NEW d \in Calls
        PROVE  CallOK(d)'
    <3>1. /\ UNCHANGED <<conf, flag, dl, pc, attempt, backoff, over, result, log>>
          /\ CallOK(d)
      BY <2>4 DEF vars, IInv, shared
    <3> QED BY <3>1 DEF CallOK, CountOK, InAttempt, LateOK, LastOK, DoneOK, Begun,
                        IsSet, Retried
  <2>5. \A d \in Calls : CallOK(d)'
    BY <2>2, <2>3, <2>4 DEF Next
  <2> QED BY <2>1, <2>5 DEF IInv
<1> QED BY <1>1, <1>2, PTL DEF Spec

(* The four properties of the count and of late starts, at every state of  *)
(* every call, whatever the retry budget, the delays and the bounds are.   *)

(* AttemptsMatchStarts: an error's attempts is the number of attempts      *)
(* begun, or one more when preflight stopped the next (with_attempts).     *)
THEOREM AttemptsCorrect == Spec => []AttemptsMatchStarts
<1>1. IInv => AttemptsMatchStarts
  <2> SUFFICES ASSUME IInv, NEW c \in Calls, pc[c] = "done",
                      result[c].kind \notin {"ok", "spawn"}
               PROVE  \/ result[c].attempts = Len(log[c]) /\ log[c] # <<>>
                      \/ /\ result[c].attempts = Len(log[c]) + 1
                         /\ result[c].kind \in {"cancelled", "timeout"}
    BY DEF AttemptsMatchStarts
  <2>1. Begun(c) >= 1 => log[c] # <<>>
    BY CallTypes, EmptySeq DEF IInv, Begun
  <2> QED BY <2>1 DEF IInv, CallOK, DoneOK, Begun
<1> QED BY <1>1, IInvHolds, PTL

(* RetryBudget: an error that would be retried is returned only once       *)
(* backoff_iter is exhausted, after max_times + 1 attempts (run_with_retry).*)
THEOREM RetryBudgetCorrect == Spec => []RetryBudget
<1>1. IInv => RetryBudget
  BY DEF IInv, CallOK, CountOK, DoneOK, Begun, RetryBudget
<1> QED BY <1>1, IInvHolds, PTL

(* OnlyLastStartIsLate: at most one attempt slips through between its      *)
(* preflight and the flag or the deadline, and no other follows it.        *)
THEOREM LateStartsCorrect == Spec => []OnlyLastStartIsLate
<1>1. IInv => OnlyLastStartIsLate
  BY CallTypes DEF IInv, CallOK, LastOK, Begun, OnlyLastStartIsLate
<1> QED BY <1>1, IInvHolds, PTL

(* LateStartIsCancelled: an attempt begun under a set flag never reports   *)
(* an exit or a timeout (wait_single_with_cancel reads the flag first).    *)
THEOREM LateStartsCancelled == Spec => []LateStartIsCancelled
<1>1. IInv => LateStartIsCancelled
  BY CallTypes DEF IInv, CallOK, DoneOK, Begun, LateStartIsCancelled
<1> QED BY <1>1, IInvHolds, PTL

-----------------------------------------------------------------------------
(* The shared stdin.                                                       *)

(* ReaderAccounting: over any number of clones and retries a one-shot      *)
(* reader feeds exactly the attempt that emptied the Mutex (take_for_sync).*)
THEOREM ReaderCorrect == Spec => []ReaderAccounting
<1>1. Init => ReaderAccounting
  BY EmptySeq DEF Init, ReaderAccounting, Fed
<1>2. TypeOK /\ ReaderAccounting /\ [Next]_vars => ReaderAccounting'
  <2> SUFFICES ASSUME TypeOK, ReaderAccounting, [Next]_vars
               PROVE  ReaderAccounting'
    OBVIOUS
  <2>1. ASSUME NEW c \in Calls, Take(c) PROVE ReaderAccounting'
    <3> DEFINE e == [fed |-> Feed, stopped |-> IsSet(c), overdue |-> dl[c] = 0]
               n == Len(log[c])
    <3>1. e \in Start
      BY DEF Start, Feed, Feeds, IsSet, TypeOK
    <3>2. log[c] \in Seq(Start) /\ n \in Nat /\ DOMAIN log[c] = 1..n
      BY LenProperties DEF TypeOK
    <3>3. /\ log'[c] = Append(log[c], e)
          /\ \A d \in Calls \ {c} : log'[d] = log[d]
      BY <2>1 DEF Take, TypeOK
    <3>4. /\ DOMAIN log'[c] = 1..(n + 1)
          /\ \A i \in 1..n : log'[c][i] = log[c][i]
          /\ log'[c][n + 1] = e
      BY <3>1, <3>2, <3>3, AppendProperties, LenProperties
    <3> DEFINE New(d, i) == d = c /\ i = n + 1
               Old(d, i) == d \in Calls /\ i \in DOMAIN log[d]
    <3>5. \A d \in Calls : \A i \in DOMAIN log'[d] :
            /\ ~New(d, i) => Old(d, i) /\ log'[d][i] = log[d][i]
            /\ New(d, i) => log'[d][i].fed = Feed
      <4> SUFFICES ASSUME NEW d \in Calls, NEW i \in DOMAIN log'[d]
                   PROVE  /\ ~New(d, i) => Old(d, i) /\ log'[d][i] = log[d][i]
                          /\ New(d, i) => log'[d][i].fed = Feed
        OBVIOUS
      <4>1. CASE d # c
        BY <4>1, <3>3
      <4>2. CASE d = c
        <5>1. i \in 1..n \/ i = n + 1
          BY <4>2, <3>2, <3>4
        <5>2. i = n + 1 => i \notin 1..n
          BY <3>2
        <5> QED BY <4>2, <5>1, <5>2, <3>2, <3>4
      <4> QED BY <4>1, <4>2
    <3>6. \A d \in Calls : \A i \in DOMAIN log[d] :
            i \in DOMAIN log'[d] /\ log'[d][i] = log[d][i]
      <4>1. \A i \in 1..n : i \in 1..(n + 1)
        BY <3>2
      <4> QED BY <3>2, <3>3, <3>4, <4>1
    <3>7. n + 1 \in DOMAIN log'[c] /\ log'[c][n + 1].fed = Feed
      BY <3>2, <3>4
    <3>8. /\ Feed = "reader" => OneShot /\ source = "here"
          /\ Feed = "empty" => source = "taken"
          /\ source' = "taken" <=> source = "taken" \/ Feed = "reader"
      BY <2>1 DEF Take, Feed, TypeOK
    <3>9. \A d1, d2 \in Calls : \A i \in DOMAIN log'[d1], j \in DOMAIN log'[d2] :
            Fed(d1, i)' /\ Fed(d2, j)' => d1 = d2 /\ i = j
      BY <3>5, <3>8 DEF ReaderAccounting, Fed
    <3>10. source' = "taken" <=>
             \E d \in Calls : \E i \in DOMAIN log'[d] : Fed(d, i)'
      BY <3>5, <3>6, <3>7, <3>8 DEF ReaderAccounting, Fed
    <3>11. \A d \in Calls : \A i \in DOMAIN log'[d] :
             log'[d][i].fed = "empty" => source' = "taken"
      BY <3>5, <3>8 DEF ReaderAccounting
    <3> QED BY <3>9, <3>10, <3>11 DEF ReaderAccounting
  <2>2. ASSUME UNCHANGED <<source, log>> PROVE ReaderAccounting'
    BY <2>2 DEF ReaderAccounting, Fed
  <2>3. (\E c \in Calls : Take(c)) \/ UNCHANGED <<source, log>>
    BY DEF Next, Runner, Waiting, Environment, vars, shared, Enter, Once, Top,
           Late, Spawn, SeeExit, PollCancelled, PollClock, PollTimedOut,
           PollAgain, ProbeRuns, Lapse, Expire, Finish, Wake, EndWait, Goto,
           ChildExit, WaitFails, DropFuture, SetFlag, Tick
  <2> QED BY <2>1, <2>2, <2>3
<1> QED BY <1>1, <1>2, TypeCorrect, PTL DEF Spec
-----------------------------------------------------------------------------
(* The loop implements CallPromise.                                        *)

(* A bound that runs out was set, a wait that ended says how, and a call   *)
(* has no result before it is done.                                        *)
Bounded(c) == conf[c].timeout # Never \/ conf[c].deadline # Never

TermsOK(c) ==
  /\ conf[c].deadline = Never => dl[c] = Never /\ pc[c] # "late"
  /\ budget[c] # Never => Bounded(c)
  /\ pc[c] = "join" => over[c] # "none"
  /\ over[c] = "timeout" => Bounded(c)
  /\ over[c] = "cancelled" => IsSet(c)
  /\ pc[c] # "done" => result[c] = NoResult

Terms == \A c \in Calls : TermsOK(c)

LEMMA TermsInit == Init => Terms
BY DEF Init, Terms, TermsOK

LEMMA TermsStep ==
  ASSUME TypeOK, Terms, [Next]_vars
  PROVE  Terms'
<1> USE DEF shared
<1>1. ASSUME NEW c \in Calls, Runner(c) \/ Environment(c) PROVE Terms'
  <2>1. /\ conf' = conf /\ flag' = flag /\ dl' = dl
        /\ \A d \in Calls \ {c} : /\ pc'[d] = pc[d] /\ result'[d] = result[d]
                                  /\ over'[d] = over[d]
    BY <1>1, Frame
  <2>2. Terms /\ RunLoopAssumption
    BY RunLoopAssumption
  <2>3. PerAttempt(c) # Never => Bounded(c)
    BY DEF PerAttempt, Sooner, Terms, TermsOK, Bounded
  <2>4. /\ \A d \in Calls \ {c} : budget'[d] = budget[d]
        /\ TermsOK(c)'
    <3>1. TermsOK(c)
      BY DEF Terms
    <3>2. CASE Enter(c) \/ Once(c) \/ Top(c)
      <4>1. /\ \A d \in Calls \ {c} : budget'[d] = budget[d]
            /\ budget'[c] \in {budget[c], PerAttempt(c)} /\ over' = over
            /\ pc'[c] # "done" => result'[c] = result[c] /\ pc[c] # "done"
            /\ pc'[c] # "join" /\ (pc'[c] = "late" => dl[c] = 0)
        BY <3>2 DEF Enter, Once, Top, Starts, Overdue, Return, TypeOK
      <4> QED BY <2>1, <2>2, <2>3, <3>1, <4>1 DEF TermsOK, Bounded, IsSet
    <3>3. CASE Late(c) \/ Take(c) \/ ChildExit(c) \/ Wake(c)
      <4>1. /\ budget' = budget /\ over' = over
            /\ (pc'[c] # "done" => result'[c] = result[c] /\ pc[c] # "done")
                 \/ UNCHANGED <<pc, result>>
            /\ pc'[c] = "join" => pc[c] = "join"
            /\ pc'[c] = "late" => pc[c] = "late"
        BY <3>3 DEF Late, Take, ChildExit, Wake, Return, TypeOK
      <4> QED BY <2>1, <3>1, <4>1 DEF TermsOK, Bounded, IsSet
    <3>4. CASE Spawn(c) \/ Finish(c)
      <4>1. ASSUME NEW kind, Settle(c, kind), pc[c] # "done"
            PROVE  /\ pc'[c] \notin {"join", "late"}
                   /\ pc'[c] # "done" => result' = result
        BY <4>1 DEF Settle, Return, TypeOK
      <4>2. /\ budget' = budget /\ over'[c] \in {over[c], "none"}
            /\ pc[c] # "done" /\ pc'[c] \notin {"join", "late"}
            /\ pc'[c] # "done" => result' = result
        BY <3>4, <4>1 DEF Spawn, Finish, TypeOK
      <4> QED BY <2>1, <3>1, <4>2 DEF TermsOK, Bounded, IsSet
    <3>5. CASE SeeExit(c) \/ PollCancelled(c) \/ PollTimedOut(c) \/ Expire(c)
               \/ WaitFails(c)
      <4>1. PICK kind \in Overs :
              /\ EndWait(c, kind) /\ kind # "none" /\ pc[c] # "done"
              /\ kind = "timeout" => budget[c] = 0
              /\ kind = "cancelled" => IsSet(c)
        BY <3>5 DEF SeeExit, PollCancelled, PollTimedOut, Expire, WaitFails,
                    Probing, Overs, Exits, NonZeroKinds
      <4>2. /\ budget' = budget /\ over'[c] = kind /\ pc'[c] = "join"
            /\ result' = result
        BY <4>1 DEF EndWait, TypeOK
      <4> QED BY <2>1, <2>2, <3>1, <4>1, <4>2 DEF TermsOK, Bounded, IsSet
    <3>6. CASE PollClock(c) \/ PollAgain(c) \/ ProbeRuns(c) \/ Lapse(c)
               \/ DropFuture(c)
      <4>1. /\ budget' = budget /\ over'[c] \in {over[c], "none"}
            /\ result' = result /\ pc[c] # "done"
            /\ pc'[c] \notin {"join", "late"}
        BY <3>6 DEF PollClock, PollAgain, ProbeRuns, Lapse, Goto, DropFuture,
                    TypeOK
      <4> QED BY <2>1, <3>1, <4>1 DEF TermsOK, Bounded, IsSet
    <3> QED BY <1>1, <3>2, <3>3, <3>4, <3>5, <3>6
            DEF Runner, Waiting, Environment
  <2>5. ASSUME NEW d \in Calls PROVE TermsOK(d)'
    <3>1. CASE d = c
      BY <2>4, <3>1
    <3>2. CASE d # c
      BY <2>1, <2>4, <3>2 DEF Terms, TermsOK, Bounded, IsSet
    <3> QED BY <3>1, <3>2
  <2> QED BY <2>5 DEF Terms
<1>2. CASE Tick
  <2>1. \A n : Less(n) # Never => n # Never
    BY DEF Less
  <2>2. Less(Never) = Never
    BY DEF Less
  <2> QED BY <1>2, <2>1, <2>2 DEF Tick, Terms, TermsOK, Bounded, IsSet, TypeOK
<1>3. CASE SetFlag \/ UNCHANGED vars
  BY <1>3 DEF SetFlag, vars, Terms, TermsOK, Bounded, IsSet
<1> QED BY <1>1, <1>2, <1>3 DEF Next

(* What the promise sees of a call's step: nothing, a result, or that its  *)
(* future is gone.                                                         *)
LEMMA OutcomeStays ==
  ASSUME TypeOK, NEW c \in Calls, Runner(c) \/ Environment(c),
         pc[c] \notin {"dropped", "late"}, pc'[c] \notin {"dropped", "late"},
         result' = result
  PROVE  Outcome' = Outcome
<1>1. \A d \in Calls \ {c} : pc'[d] = pc[d] /\ attempt'[d] = attempt[d]
  BY Frame
<1> QED BY <1>1 DEF Outcome

LEMMA OutcomeReturns ==
  ASSUME TypeOK, NEW c \in Calls, Runner(c) \/ Environment(c),
         NEW kind, NEW n, Return(c, kind, n)
  PROVE  Outcome' = [Outcome EXCEPT ![c] = [kind |-> kind, attempts |-> n]]
<1>1. \A d \in Calls \ {c} : /\ pc'[d] = pc[d] /\ result'[d] = result[d]
                            /\ attempt'[d] = attempt[d]
  BY Frame
<1>2. pc'[c] = "done" /\ result'[c] = [kind |-> kind, attempts |-> n]
  BY DEF Return, TypeOK
<1> QED BY <1>1, <1>2 DEF Outcome

LEMMA OutcomeOpen ==
  ASSUME Terms, NEW c \in Calls, pc[c] \notin {"done", "dropped", "late"}
  PROVE  Outcome[c] = Promise!Open
BY DEF Terms, TermsOK, Outcome, NoResult, Promise!Open

LEMMA OutcomeLate ==
  ASSUME TypeOK, NEW c \in Calls, Runner(c) \/ Environment(c), NEW n,
         Overdue(c, n)
  PROVE  Outcome' = [Outcome EXCEPT ![c] = [kind |-> "late", attempts |-> n]]
<1>1. \A d \in Calls \ {c} : /\ pc'[d] = pc[d] /\ result'[d] = result[d]
                            /\ attempt'[d] = attempt[d]
  BY Frame
<1>2. pc'[c] = "late" /\ attempt'[c] = n
  BY DEF Overdue, TypeOK
<1> QED BY <1>1, <1>2 DEF Outcome

(* The variables the loop and the promise share.                           *)
terms == <<stdin, source, flag, conf, log>>

(* An attempt that is over: the call returns what the promise allows, or   *)
(* the attempt is retried, which the promise does not see.                 *)
LEMMA SettlePromise ==
  ASSUME IInv, Terms, NEW c \in Calls, Runner(c) \/ Environment(c), NEW kind,
         Settle(c, kind), pc[c] \in {"spawn", "join"}, UNCHANGED terms,
         kind \in Exits \union {"timeout"} =>
           \A i \in 1..Begun(c) : ~log[c][i].stopped,
         kind = "cancelled" => IsSet(c),
         kind = "timeout" => Bounded(c),
         kind \in Exits \union {"cancelled", "timeout", "spawn"}
  PROVE  [Promise!Next]_(Promise!vars)
<1>1. Begun(c) >= 1 /\ attempt[c] = Begun(c) /\ Begun(c) \in Nat
      /\ DOMAIN log[c] = 1..Begun(c)
  BY CallTypes DEF IInv, CallOK, CountOK, InAttempt
<1>2. Outcome[c] = Promise!Open
  BY OutcomeOpen
<1>3. CASE result' = result
  <2>1. pc'[c] \notin {"dropped", "late"}
    BY DEF Settle, Return, IInv, TypeOK
  <2>2. Outcome' = Outcome
    BY <1>3, <2>1, OutcomeStays DEF IInv
  <2> QED BY <2>2 DEF Promise!vars, terms
<1>4. CASE Return(c, kind, Stamp(c, kind)) /\ (~Retried(c, kind) \/ backoff[c] = 0)
  <2>1. Outcome' = [Outcome EXCEPT ![c] = [kind |-> kind, attempts |-> Stamp(c, kind)]]
    BY <1>4, OutcomeReturns DEF IInv
  <2>2. Promise!Returns(c, kind, Stamp(c, kind))
    BY <1>2, <2>1 DEF Promise!Returns, terms
  <2>3. Promise!Begun(c) = Begun(c)
    BY DEF Promise!Begun, Begun
  <2>4. Retried(c, kind) => Begun(c) = Promise!Limit(c)
    <3>1. backoff[c] \in Nat /\ MaxRetries \in Nat /\ CountOK(c)
      BY CallTypes DEF IInv, CallOK
    <3>2. Retried(c, kind) => conf[c].retry /\ attempt[c] + backoff[c] = MaxRetries + 1
      <4>1. IF conf[c].retry THEN attempt[c] + backoff[c] = MaxRetries + 1
                             ELSE attempt[c] = 1
        BY <3>1 DEF CountOK, InAttempt
      <4>2. Retried(c, kind) => conf[c].retry
        BY DEF Retried
      <4> QED BY <4>1, <4>2
    <3>3. Retried(c, kind) => conf[c].retry /\ Begun(c) = MaxRetries + 1
      BY <1>1, <1>4, <3>1, <3>2
    <3> QED BY <3>3 DEF Promise!Limit
  <2>5. kind \in NonZeroKinds \union {"timeout", "spawn"} => Promise!Final(c, kind)
    <3>1. kind \in NonZeroKinds \union {"timeout", "spawn"} =>
            kind \notin {"ok", "cancelled"}
      BY DEF NonZeroKinds
    <3> QED BY <1>1, <2>3, <2>4, <3>1 DEF Promise!Final, Retried
  <2>6. CASE kind \in Exits
    <3>1. ~Promise!BegunStopped(c)
      BY <1>1, <2>6 DEF Promise!BegunStopped
    <3>2. Promise!ReturnExit(c)
      BY <1>1, <2>2, <2>3, <2>5, <2>6, <3>1
         DEF Promise!ReturnExit, Stamp, Exits, NonZeroKinds
    <3> QED BY <3>2 DEF Promise!Next
  <2>7. CASE kind = "spawn"
    BY <2>2, <2>5, <2>7 DEF Promise!Next, Promise!ReturnExit, Stamp
  <2>8. CASE kind = "cancelled"
    BY <1>1, <2>2, <2>3, <2>8
       DEF Promise!Next, Promise!ReturnCancelled, Promise!Stopped, IsSet, Stamp
  <2>9. CASE kind = "timeout"
    <3>1. ~Promise!BegunStopped(c)
      BY <1>1, <2>9 DEF Promise!BegunStopped
    <3> QED BY <1>1, <2>2, <2>3, <2>5, <2>9, <3>1
            DEF Promise!Next, Promise!ReturnTimeout, Stamp, Bounded
  <2> QED BY <2>6, <2>7, <2>8, <2>9
<1> QED BY <1>3, <1>4 DEF Settle

(* The steps of a call that are not the end of an attempt.                 *)
LEMMA OwnPromise ==
  ASSUME IInv, Terms, NEW c \in Calls,
         \/ Enter(c) \/ Once(c) \/ Top(c) \/ Late(c) \/ Take(c) \/ Wake(c)
         \/ DropFuture(c)
  PROVE  [Promise!Next]_(Promise!vars)
<1> USE DEF shared
<1>a. /\ attempt[c] \in Nat /\ backoff[c] \in Nat /\ MaxRetries \in Nat
      /\ Begun(c) \in Nat /\ DOMAIN log[c] = 1..Begun(c)
      /\ CountOK(c) /\ LateOK(c) /\ TypeOK
  BY CallTypes DEF IInv, CallOK
<1>b. Promise!Begun(c) = Begun(c)
  BY DEF Promise!Begun, Begun
<1>c. /\ pc[c] \notin {"done", "dropped"}
      /\ pc[c] # "late" => Outcome[c] = Promise!Open
  BY OutcomeOpen DEF Enter, Once, Top, Late, Take, Wake, DropFuture
<1>d. ASSUME NEW kind, NEW n, Return(c, kind, n), UNCHANGED terms, pc[c] # "late"
      PROVE  Promise!Returns(c, kind, n)
  <2>1. Outcome' = [Outcome EXCEPT ![c] = [kind |-> kind, attempts |-> n]]
    BY <1>a, <1>d, OutcomeReturns DEF Runner, Environment
  <2> QED BY <1>c, <1>d, <2>1 DEF Promise!Returns, terms
<1>e. ASSUME UNCHANGED terms, result' = result, pc[c] # "late",
             pc'[c] \notin {"dropped", "late"}
      PROVE  UNCHANGED Promise!vars
  <2>1. Outcome' = Outcome
    BY <1>a, <1>c, <1>e, OutcomeStays DEF Runner, Environment
  <2> QED BY <1>e, <2>1 DEF Promise!vars, terms
<1>f. IsSet(c) <=> Promise!Stopped(c)
  BY DEF IsSet, Promise!Stopped
<1>g. ASSUME Begun(c) < Promise!Limit(c), dl[c] = 0, conf[c].retry => ~IsSet(c),
             Overdue(c, Begun(c) + 1), UNCHANGED terms, pc[c] # "late"
      PROVE  Promise!GiveUp(c)
  <2>1. Outcome' = [Outcome EXCEPT ![c] = [kind |-> "late", attempts |-> Begun(c) + 1]]
    BY <1>a, <1>g, OutcomeLate DEF Runner, Environment
  <2>2. conf[c].deadline # Never
    BY <1>g, RunLoopAssumption DEF Terms, TermsOK
  <2> QED BY <1>b, <1>c, <1>f, <1>g, <2>1, <2>2
          DEF Promise!GiveUp, Promise!Returns, terms
<1>1. CASE Enter(c)
  <2>1. UNCHANGED terms /\ Begun(c) = 0 /\ pc[c] # "late"
    BY <1>1, <1>a DEF Enter, terms, CountOK
  <2>2. Begun(c) < Promise!Limit(c)
    BY <2>1, <1>a DEF Promise!Limit
  <2>3. CASE Refused(c) /\ Return(c, "spawn", 1)
    BY <1>b, <1>d, <2>1, <2>3 DEF Refused, Promise!Refuse, Promise!Next
  <2>4. CASE IsSet(c) /\ Return(c, "cancelled", 1)
    BY <1>b, <1>d, <1>f, <2>1, <2>2, <2>4 DEF Promise!ReturnCancelled, Promise!Next
  <2>5. CASE pc'[c] \in {"top", "once", "take"} /\ result' = result
    BY <1>e, <2>1, <2>5
  <2> QED BY <1>1, <1>a, <2>3, <2>4, <2>5 DEF Enter, Starts, TypeOK
<1>2. CASE Top(c)
  <2>1. /\ UNCHANGED terms /\ conf[c].retry /\ attempt[c] = Begun(c)
        /\ attempt[c] + backoff[c] = MaxRetries /\ pc[c] # "late"
    BY <1>2, <1>a DEF Top, terms, CountOK
  <2>2. Begun(c) < Promise!Limit(c)
    BY <2>1, <1>a DEF Promise!Limit
  <2>3. CASE IsSet(c) /\ Return(c, "cancelled", attempt[c] + 1)
    BY <1>b, <1>d, <1>f, <2>1, <2>2, <2>3 DEF Promise!ReturnCancelled, Promise!Next
  <2>4. CASE ~IsSet(c) /\ dl[c] = 0 /\ Overdue(c, attempt[c] + 1)
    BY <1>g, <2>1, <2>2, <2>4 DEF Promise!Next
  <2>5. CASE pc'[c] = "take" /\ result' = result
    BY <1>e, <2>1, <2>5
  <2> QED BY <1>2, <1>a, <2>3, <2>4, <2>5 DEF Top, Starts, TypeOK
<1>6. CASE Once(c)
  <2>1. UNCHANGED terms /\ Begun(c) = 0 /\ pc[c] # "late" /\ ~conf[c].retry
    BY <1>6, <1>a DEF Once, terms, CountOK
  <2>2. Begun(c) < Promise!Limit(c) /\ Begun(c) + 1 = 1
    BY <2>1, <1>a DEF Promise!Limit
  <2>3. CASE dl[c] = 0 /\ Overdue(c, 1)
    BY <1>g, <2>1, <2>2, <2>3 DEF Promise!Next
  <2>4. CASE pc'[c] = "take" /\ result' = result
    BY <1>e, <2>1, <2>4
  <2> QED BY <1>6, <1>a, <2>3, <2>4 DEF Once, Starts, TypeOK
<1>7. CASE Late(c)
  <2>1. /\ UNCHANGED terms
        /\ Outcome[c] = [kind |-> "late", attempts |-> attempt[c]]
    BY <1>7 DEF Late, terms, Outcome
  <2>2. Outcome' = [Outcome EXCEPT ![c] = [kind |-> "timeout", attempts |-> attempt[c]]]
    BY <1>7, <1>a, OutcomeReturns DEF Late, Runner
  <2>3. Promise!ReturnLate(c)
    BY <2>1, <2>2 DEF Promise!ReturnLate, terms
  <2> QED BY <2>3 DEF Promise!Next
<1>3. CASE Take(c)
  <2>1. /\ pc'[c] = "spawn" /\ pc[c] = "take" /\ result' = result
        /\ UNCHANGED <<stdin, flag, conf>>
        /\ source' = IF OneShot THEN "taken" ELSE source
        /\ log' = [log EXCEPT ![c] = Append(@,
             [fed |-> Feed, stopped |-> IsSet(c), overdue |-> dl[c] = 0])]
    BY <1>3, <1>a DEF Take, TypeOK
  <2>2. Outcome' = Outcome
    BY <1>3, <1>a, <1>c, <2>1, OutcomeStays DEF Runner, Environment
  <2>3. Begun(c) < Promise!Limit(c)
    BY <1>a, <2>1 DEF CountOK, Promise!Limit
  <2>4. ~Promise!BegunLate(c)
    BY <1>a, <2>1 DEF LateOK, Promise!BegunLate
  <2>5. /\ Feed \in {"inherit", "bytes", "reader", "empty"}
        /\ Feed = "reader" <=> Promise!OneShot /\ source = "here"
        /\ Feed = "empty" <=> Promise!OneShot /\ source = "taken"
    BY <1>a DEF Feed, OneShot, Promise!OneShot, TypeOK
  <2>6. (dl[c] = 0) \in BOOLEAN /\ (dl[c] = 0 => conf[c].deadline # Never)
    BY RunLoopAssumption DEF Terms, TermsOK
  <2>7. IsSet(c) = Promise!Stopped(c) /\ OneShot = Promise!OneShot
    BY DEF IsSet, Promise!Stopped, OneShot, Promise!OneShot
  <2>8. Promise!Begin(c)
    <3> DEFINE overdue == dl[c] = 0
    <3>1. overdue \in BOOLEAN /\ (overdue => conf[c].deadline # Never)
      BY <2>6
    <3>2. log' = [log EXCEPT ![c] = Append(@,
            [fed |-> Feed, stopped |-> Promise!Stopped(c), overdue |-> overdue])]
      BY <2>1, <2>7
    <3>3. source' = IF Promise!OneShot THEN "taken" ELSE source
      BY <2>1, <2>7
    <3> HIDE DEF overdue
    <3> QED BY <1>b, <1>c, <2>1, <2>2, <2>3, <2>4, <2>5, <3>1, <3>2, <3>3
            DEF Promise!Begin
  <2> QED BY <2>8 DEF Promise!Next
<1>4. CASE Wake(c)
  <2>1. /\ UNCHANGED terms /\ attempt[c] = Begun(c) /\ Begun(c) >= 1
        /\ pc[c] # "late"
    BY <1>4, <1>a DEF Wake, terms, CountOK
  <2>2. CASE IsSet(c) /\ Return(c, "cancelled", attempt[c])
    BY <1>b, <1>d, <1>f, <2>1, <2>2 DEF Promise!ReturnCancelled, Promise!Next
  <2>3. CASE pc'[c] = "top" /\ result' = result
    BY <1>e, <2>1, <2>3
  <2> QED BY <1>4, <1>a, <2>2, <2>3 DEF Wake, TypeOK
<1>5. CASE DropFuture(c)
  <2>1. /\ UNCHANGED terms /\ result' = result /\ conf[c].mode = "async"
        /\ pc' = [pc EXCEPT ![c] = "dropped"] /\ Begun(c) >= 1
        /\ attempt' = attempt /\ pc[c] # "late"
    BY <1>5, <1>a DEF DropFuture, terms, CountOK, InAttempt
  <2>2. Outcome' = [Outcome EXCEPT ![c] = Promise!Dropped]
    BY <1>a, <2>1 DEF Outcome, TypeOK, Promise!Dropped
  <2>3. Promise!Drop(c)
    BY <1>b, <1>c, <2>1, <2>2 DEF Promise!Drop, terms
  <2> QED BY <2>3 DEF Promise!Next
<1> QED BY <1>1, <1>2, <1>3, <1>4, <1>5, <1>6, <1>7

LEMMA CallPromiseStep ==
  ASSUME IInv, Terms, [Next]_vars
  PROVE  [Promise!Next]_(Promise!vars)
<1> USE DEF shared
<1>1. ASSUME NEW c \in Calls, Waiting(c) \/ WaitFails(c) \/ ChildExit(c)
      PROVE  UNCHANGED Promise!vars
  <2>1. /\ UNCHANGED terms /\ result' = result /\ attempt' = attempt
        /\ pc[c] \in {"dropped", "late"} \/ pc'[c] \in {"dropped", "late"} =>
             pc' = pc
        /\ \A d \in Calls \ {c} : pc'[d] = pc[d]
    BY <1>1 DEF Waiting, SeeExit, PollCancelled, PollClock, PollTimedOut, PollAgain,
                ProbeRuns, Lapse, Expire, WaitFails, Probing, EndWait, Goto,
                ChildExit, terms, IInv, TypeOK
  <2>2. Outcome' = Outcome
    BY <2>1 DEF Outcome
  <2> QED BY <2>1, <2>2 DEF Promise!vars, terms
<1>2. ASSUME NEW c \in Calls, Spawn(c)
      PROVE  [Promise!Next]_(Promise!vars)
  <2>1. UNCHANGED terms /\ pc[c] = "spawn"
    BY <1>2 DEF Spawn, terms
  <2>2. CASE Settle(c, "spawn")
    BY <1>2, <2>1, <2>2, SettlePromise
       DEF Runner, Exits, NonZeroKinds
  <2>3. CASE result' = result /\ pc'[c] \notin {"dropped", "late"}
    <3>1. Outcome' = Outcome
      BY <1>2, <2>1, <2>3, OutcomeStays DEF Runner, IInv
    <3> QED BY <2>1, <3>1 DEF Promise!vars, terms
  <2> QED BY <1>2, <2>2, <2>3 DEF Spawn, IInv, TypeOK
<1>3. ASSUME NEW c \in Calls, Finish(c)
      PROVE  [Promise!Next]_(Promise!vars)
  <2>1. UNCHANGED terms /\ Settle(c, over[c]) /\ pc[c] = "join"
    BY <1>3 DEF Finish, terms
  <2>2. /\ over[c] \in Exits \union {"cancelled", "timeout", "spawn"}
        /\ over[c] = "timeout" => Bounded(c)
        /\ over[c] = "cancelled" => IsSet(c)
    BY <2>1 DEF Terms, TermsOK, IInv, TypeOK, Overs
  <2>3. over[c] \in Exits \union {"timeout"} =>
          \A i \in 1..Begun(c) : ~log[c][i].stopped
    BY <2>1 DEF IInv, CallOK, LateOK, Exits, NonZeroKinds
  <2> QED BY <1>3, <2>1, <2>2, <2>3, SettlePromise DEF Runner
<1>7. CASE SetFlag
  BY <1>7 DEF SetFlag, Promise!SetFlag, Promise!Next, Outcome
<1>8. CASE Tick \/ UNCHANGED vars
  BY <1>8 DEF Tick, vars, Promise!vars, Outcome
<1> QED BY <1>1, <1>2, <1>3, <1>7, <1>8, OwnPromise
        DEF Next, Runner, Environment

(* However the calls on clones interleave with the clocks and the flag,    *)
(* what the caller sees is a behaviour of CallPromise: the attempts, their *)
(* inputs and the results (run_with_retry, run_async).                     *)
THEOREM PromiseKept == Spec => KeepsCallPromise
<1>1. Init => Promise!Init
  BY DEF Init, Promise!Init, Outcome, NoResult, Promise!Open
<1>2. IInv /\ Terms /\ [Next]_vars => Terms'
  BY TermsStep DEF IInv
<1>3. IInv /\ Terms /\ [Next]_vars => [Promise!Next]_(Promise!vars)
  BY CallPromiseStep
<1> QED BY TermsInit, IInvHolds, <1>1, <1>2, <1>3, PTL
        DEF Spec, KeepsCallPromise, Promise!Spec
=============================================================================
