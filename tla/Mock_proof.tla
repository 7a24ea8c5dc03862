----------------------------- MODULE Mock_proof -----------------------------
(***************************************************************************)
(* What is proved of Mock, for any number of threads, commands and         *)
(* expectations: which expectation answers a run, what verify says, and    *)
(* who poisons the Mutex.                                                  *)
(***************************************************************************)
EXTENDS Mock, FiniteSetTheorems, TLAPS

Using == {"answered", "factory_panics"}

UseSet(j, k) == {i \in 1..k : log[i].by = j /\ log[i].outcome \in Using}

(* The lock is held while the expectations are looked through, and those   *)
(* already passed that accept the command are used up.                     *)
Scanning ==
  \A t \in Threads :
    /\ pc[t] = "scan" <=> lock = t
    /\ pc[t] = "run" => cmd[t] \in Cmds
    /\ pc[t] = "scan" =>
         \A j \in 1..(at[t] - 1) : cmd[t] \in exps[j].covers => Exhausted(exps[j])

(* What the log has to do with the expectations.                           *)
Logged ==
  /\ \A k \in DOMAIN log : /\ log[k].by \in 1..(Len(exps) + 1)
                           /\ log[k].outcome \in Using => log[k].by \in DOMAIN exps
  /\ \A j \in DOMAIN exps :
       exps[j].responder # "unlimited" =>
         Uses(j, Len(log)) + exps[j].left = exps[j].times
  /\ \A k \in DOMAIN log : \A j \in 1..(log[k].by - 1) :
       log[k].cmd \in exps[j].covers =>
         exps[j].responder # "unlimited" /\ Uses(j, k - 1) = exps[j].times
  /\ \A j \in DOMAIN exps :
       exps[j].calls > 0 <=> \E k \in DOMAIN log :
                               log[k].by = j /\ log[k].outcome = "answered"

Inv == TypeOK /\ Scanning /\ Logged /\ OnlyCallbacksPoison

LEMMA InitInv == Init => Inv
<1> SUFFICES ASSUME Init PROVE Inv
  OBVIOUS
<1>1. TypeOK
  <2>1. calls \in [Threads -> 0..MaxCalls]
    BY MockAssumption DEF Init
  <2>2. poisoned \in BOOLEAN
    BY DEF Init
  <2>3. exps \in Seq(Expectation) /\ log \in Seq(Entry)
    BY DEF Init
  <2> QED BY <2>1, <2>2, <2>3 DEF Init, TypeOK, Answers
<1>2. Scanning /\ Logged /\ OnlyCallbacksPoison
  BY MockAssumption DEF Init, Scanning, Logged, OnlyCallbacksPoison
<1> QED BY <1>1, <1>2 DEF Inv

LEMMA UsesType ==
  ASSUME NEW j, NEW k \in Nat
  PROVE  IsFiniteSet(UseSet(j, k)) /\ Uses(j, k) \in Nat
         /\ Uses(j, k) = Cardinality(UseSet(j, k))
<1>1. IsFiniteSet(1..k)
  BY FS_Interval
<1>2. UseSet(j, k) \subseteq 1..k
  BY DEF UseSet
<1>3. IsFiniteSet(UseSet(j, k))
  BY <1>1, <1>2, FS_Subset
<1>4. Cardinality(UseSet(j, k)) \in Nat
  BY <1>3, FS_CardinalityType
<1>5. Uses(j, k) = Cardinality(UseSet(j, k))
  BY DEF Uses, UseSet, Using
<1> QED BY <1>3, <1>4, <1>5

(* A decision is added to the log: what was counted before stays, and the  *)
(* whole grows by one if the decision used up one of j's times.            *)
LEMMA UsesGrow ==
  ASSUME log \in Seq(Entry), NEW e \in Entry, log' = Append(log, e), NEW j,
         NEW n \in Nat, n = Len(log)
  PROVE  /\ \A k \in 0..n : Uses(j, k)' = Uses(j, k)
         /\ Uses(j, n + 1)' =
              Uses(j, n) + (IF e.by = j /\ e.outcome \in Using THEN 1 ELSE 0)
<1>1. log'[n + 1] = e /\ \A i \in 1..n : log'[i] = log[i]
  OBVIOUS
<1>2. \A k \in 0..n : UseSet(j, k)' = UseSet(j, k)
  BY <1>1 DEF UseSet
<1>3. \A k \in Nat : Uses(j, k)' = Cardinality(UseSet(j, k)')
  BY DEF Uses, UseSet, Using
<1>4. \A k \in 0..n : Uses(j, k)' = Uses(j, k)
  BY <1>2, <1>3, UsesType
<1>5. CASE e.by = j /\ e.outcome \in Using
  <2>1. UseSet(j, n + 1)' = UseSet(j, n) \union {n + 1}
    <3> SUFFICES ASSUME NEW i
                 PROVE  i \in UseSet(j, n + 1)' <=> i \in UseSet(j, n) \/ i = n + 1
      OBVIOUS
    <3>1. i \in 1..(n + 1) <=> i \in 1..n \/ i = n + 1
      OBVIOUS
    <3> QED BY <1>1, <1>5, <3>1 DEF UseSet
  <2>2. n + 1 \notin UseSet(j, n)
    BY DEF UseSet
  <2>3. Cardinality(UseSet(j, n) \union {n + 1}) = Cardinality(UseSet(j, n)) + 1
    <3>1. IsFiniteSet(UseSet(j, n))
      BY UsesType
    <3> QED BY <2>2, <3>1, FS_AddElement
  <2>4. Uses(j, n + 1)' = Uses(j, n) + 1
    <3>1. n + 1 \in Nat /\ Uses(j, n) = Cardinality(UseSet(j, n))
      BY UsesType
    <3> QED BY <1>3, <2>1, <2>3, <3>1
  <2> QED BY <1>4, <1>5, <2>4
<1>6. CASE ~(e.by = j /\ e.outcome \in Using)
  <2>1. UseSet(j, n + 1)' = UseSet(j, n)
    <3> SUFFICES ASSUME NEW i
                 PROVE  i \in UseSet(j, n + 1)' <=> i \in UseSet(j, n)
      OBVIOUS
    <3>1. i \in 1..(n + 1) <=> i \in 1..n \/ i = n + 1
      OBVIOUS
    <3> QED BY <1>1, <1>6, <3>1 DEF UseSet
  <2>2. Uses(j, n + 1)' = Uses(j, n)
    BY <1>3, <2>1, UsesType
  <2>3. Uses(j, n) \in Nat
    BY UsesType
  <2> QED BY <1>4, <1>6, <2>2, <2>3
<1> QED BY <1>5, <1>6

-----------------------------------------------------------------------------
(* The steps that decide nothing.                                          *)

LEMMA PushStep ==
  ASSUME Inv, Push
  PROVE  Inv'
<1> USE DEF Inv, mutex, thread
<1>1. PICK x \in Expectation :
        /\ exps' = Append(exps, x) /\ x.left = x.times /\ x.calls = 0
        /\ UNCHANGED <<strict, poisoned, lock, pc, cmd, at, calls, answer, log>>
  <2>1. PICK covers \in SUBSET Cmds, responder \in Responders, times \in 0..MaxTimes :
          exps' = Append(exps, [covers |-> covers, responder |-> responder,
                                times |-> times, left |-> times, calls |-> 0])
    BY DEF Push
  <2>2. [covers |-> covers, responder |-> responder, times |-> times,
         left |-> times, calls |-> 0] \in Expectation
    BY DEF Expectation
  <2> QED BY <2>1, <2>2 DEF Push
<1>2. /\ exps' \in Seq(Expectation) /\ Len(exps') = Len(exps) + 1
      /\ Len(exps) \in Nat /\ exps'[Len(exps) + 1] = x
      /\ DOMAIN exps = 1..Len(exps) /\ DOMAIN exps' = 1..(Len(exps) + 1)
      /\ \A j \in DOMAIN exps : exps'[j] = exps[j]
  BY <1>1 DEF TypeOK
<1>3. \A t \in Threads : pc[t] # "scan"
  BY DEF Push
<1>4. TypeOK' /\ Scanning' /\ OnlyCallbacksPoison'
  BY <1>1, <1>2, <1>3 DEF TypeOK, Scanning, OnlyCallbacksPoison
<1>5. /\ log \in Seq(Entry) /\ Len(log) \in Nat /\ DOMAIN log = 1..Len(log)
      /\ \A k \in DOMAIN log : log[k].by \in Nat
  <2>1. log \in Seq(Entry) /\ Len(log) \in Nat /\ DOMAIN log = 1..Len(log)
    BY DEF TypeOK
  <2>2. \A k \in DOMAIN log : log[k] \in Entry
    BY <2>1
  <2> QED BY <2>1, <2>2 DEF Entry
<1>6. \A j, k : Uses(j, k)' = Uses(j, k)
  BY <1>1 DEF Uses
<1>7. Uses(Len(exps) + 1, Len(log)) = 0
  <2>1. UseSet(Len(exps) + 1, Len(log)) = {}
    BY <1>2, <1>5 DEF UseSet, Logged
  <2> QED BY <1>5, <2>1, UsesType, FS_EmptySet
<1>8. Logged'
  <2>1. \A k \in DOMAIN log : /\ log[k].by \in 1..(Len(exps') + 1)
                             /\ log[k].outcome \in Using => log[k].by \in DOMAIN exps'
    BY <1>2, <1>5 DEF Logged
  <2>2. \A j \in DOMAIN exps' : exps'[j].responder # "unlimited" =>
          Uses(j, Len(log)) + exps'[j].left = exps'[j].times
    <3>1. x.times \in Nat
      BY MockAssumption DEF Expectation
    <3> QED BY <1>1, <1>2, <1>7, <3>1 DEF Logged
  <2>3. \A k \in DOMAIN log : \A j \in 1..(log[k].by - 1) :
          log[k].cmd \in exps'[j].covers =>
            exps'[j].responder # "unlimited" /\ Uses(j, k - 1) = exps'[j].times
    <3>1. \A k \in DOMAIN log : \A j \in 1..(log[k].by - 1) : j \in DOMAIN exps
      BY <1>2, <1>5 DEF Logged
    <3> QED BY <1>2, <3>1 DEF Logged
  <2>4. \A j \in DOMAIN exps' :
          exps'[j].calls > 0 <=> \E k \in DOMAIN log :
                                   log[k].by = j /\ log[k].outcome = "answered"
    <3>1. \A k \in DOMAIN log :
            ~(log[k].by = Len(exps) + 1 /\ log[k].outcome = "answered")
      BY <1>2 DEF Logged, Using
    <3> QED BY <1>1, <1>2, <3>1 DEF Logged
  <2> QED BY <1>1, <1>6, <2>1, <2>2, <2>3, <2>4 DEF Logged
<1> QED BY <1>4, <1>8

LEMMA ReturnTypes ==
  ASSUME TypeOK, NEW t \in Threads, NEW a \in Answers, Return(t, a)
  PROVE  /\ pc' \in [Threads -> {"idle", "run", "scan", "verify"}]
         /\ cmd' \in [Threads -> Cmds \union {None}]
         /\ at' \in [Threads -> Nat] /\ answer' \in [Threads -> Answers]
         /\ pc'[t] = "idle"
         /\ \A u \in Threads \ {t} :
              pc'[u] = pc[u] /\ cmd'[u] = cmd[u] /\ at'[u] = at[u]
BY DEF TypeOK, Return

LEMMA QuietSteps ==
  ASSUME Inv, NEW t \in Threads, Call(t) \/ Lock(t) \/ Skip(t) \/ Verify(t)
  PROVE  Inv'
<1> USE DEF Inv, mutex, thread
<1>1. UNCHANGED <<strict, exps, poisoned, log>>
  BY DEF Call, Lock, Skip, Verify
<1>2. Logged' /\ OnlyCallbacksPoison'
  <2>1. \A j, k : Uses(j, k)' = Uses(j, k)
    BY <1>1 DEF Uses
  <2> QED BY <1>1, <2>1 DEF Logged, OnlyCallbacksPoison
<1>3. TypeOK'
  <2>1. CASE Call(t)
    <3>1. calls' \in [Threads -> 0..MaxCalls]
      BY <2>1, MockAssumption DEF Call, TypeOK
    <3>2. PICK p \in {"run", "verify"}, c \in Cmds \union {None} :
            /\ pc' = [pc EXCEPT ![t] = p] /\ cmd' = [cmd EXCEPT ![t] = c]
            /\ answer' = [answer EXCEPT ![t] = "none"] /\ UNCHANGED <<at, lock>>
      <4>1. answer' = [answer EXCEPT ![t] = "none"] /\ UNCHANGED <<at, lock>>
        BY <2>1 DEF Call
      <4>2. CASE /\ pc' = [pc EXCEPT ![t] = "run"]
                 /\ \E c \in Cmds : cmd' = [cmd EXCEPT ![t] = c]
        BY <4>1, <4>2
      <4>3. CASE pc' = [pc EXCEPT ![t] = "verify"] /\ UNCHANGED cmd
        <5>1. cmd[t] \in Cmds \union {None} /\ cmd = [cmd EXCEPT ![t] = cmd[t]]
          BY DEF TypeOK
        <5> QED BY <4>1, <4>3, <5>1
      <4>4. \/ /\ pc' = [pc EXCEPT ![t] = "run"]
               /\ \E c \in Cmds : cmd' = [cmd EXCEPT ![t] = c]
            \/ pc' = [pc EXCEPT ![t] = "verify"] /\ UNCHANGED cmd
        BY <2>1 DEF Call
      <4> QED BY <4>2, <4>3, <4>4
    <3>3. pc[t] # "scan"
      BY <2>1 DEF Call
    <3>4. \A u \in Threads : pc'[u] = "scan" => pc[u] = "scan" /\ cmd'[u] = cmd[u]
      BY <3>2, <3>3 DEF TypeOK
    <3>5. /\ pc' \in [Threads -> {"idle", "run", "scan", "verify"}]
          /\ cmd' \in [Threads -> Cmds \union {None}]
          /\ answer' \in [Threads -> Answers]
      BY <3>2 DEF TypeOK, Answers
    <3> QED BY <1>1, <3>1, <3>2, <3>4, <3>5 DEF TypeOK
  <2>2. CASE Lock(t) /\ ~poisoned
    <3>1. 1 \in Nat /\ 1 \in 1..(Len(exps) + 1)
      BY DEF TypeOK
    <3>2. \A u \in Threads : pc[u] # "scan"
      BY <2>2, MockAssumption DEF Lock, Scanning
    <3>3. /\ lock' = t /\ pc' = [pc EXCEPT ![t] = "scan"]
          /\ at' = [at EXCEPT ![t] = 1] /\ UNCHANGED <<cmd, answer, calls>>
      BY <2>2 DEF Lock
    <3>4. cmd[t] \in Cmds
      BY <2>2 DEF Lock, Scanning
    <3>5. /\ pc' \in [Threads -> {"idle", "run", "scan", "verify"}]
          /\ at' \in [Threads -> Nat]
      BY <3>3 DEF TypeOK
    <3>6. \A u \in Threads : pc'[u] = "scan" =>
            lock' = u /\ cmd'[u] \in Cmds /\ at'[u] \in 1..(Len(exps) + 1)
      BY <3>1, <3>2, <3>3, <3>4 DEF TypeOK
    <3> QED BY <1>1, <3>3, <3>5, <3>6 DEF TypeOK
  <2>4. CASE (Lock(t) /\ poisoned) \/ Verify(t)
    <3>1. PICK a \in Answers : Return(t, a)
      BY <2>4 DEF Lock, Verify, Answers
    <3>2. UNCHANGED <<lock, calls>> /\ pc[t] # "scan"
      BY <2>4 DEF Lock, Verify
    <3> QED BY <1>1, <3>1, <3>2, ReturnTypes DEF TypeOK
  <2>3. CASE Skip(t)
    BY <1>1, <2>3 DEF Skip, TypeOK
  <2> QED BY <2>1, <2>2, <2>3, <2>4
<1>4. Scanning'
  <2>1. CASE Call(t)
    BY <1>1, <2>1 DEF Call, Scanning, TypeOK
  <2>2. CASE Lock(t) \/ Verify(t)
    BY <1>1, <2>2, MockAssumption DEF Lock, Verify, Return, Scanning, TypeOK
  <2>3. CASE Skip(t)
    <3>1. at'[t] = at[t] + 1 /\ at[t] \in Nat /\ \A u \in Threads \ {t} : at'[u] = at[u]
      BY <2>3 DEF Skip, TypeOK
    <3>2. cmd[t] \in exps[at[t]].covers => Exhausted(exps[at[t]])
      BY <2>3 DEF Skip, Matches, Asked
    <3>3. \A j \in 1..(at'[t] - 1) : cmd[t] \in exps[j].covers => Exhausted(exps[j])
      BY <2>3, <3>1, <3>2 DEF Skip, Scanning
    <3> QED BY <1>1, <2>3, <3>1, <3>3 DEF Skip, Scanning, Exhausted
  <2> QED BY <2>1, <2>2, <2>3
<1> QED BY <1>2, <1>3, <1>4

-----------------------------------------------------------------------------
(* The steps that decide a run.                                            *)

(* What a decision on a scan at `by` does to the expectations.             *)
Decided(t, by, outcome) ==
  /\ pc[t] = "scan" /\ by = at[t] /\ lock' = None
  /\ log' = Append(log, [cmd |-> cmd[t], by |-> by, outcome |-> outcome])
  /\ outcome \in Using => by \in DOMAIN exps /\ ~Exhausted(exps[by])
  /\ exps' \in Seq(Expectation) /\ Len(exps') = Len(exps)
  /\ \A j \in DOMAIN exps :
       /\ exps'[j].covers = exps[j].covers
       /\ exps'[j].responder = exps[j].responder
       /\ exps'[j].times = exps[j].times
       /\ exps'[j].left = IF j = by /\ outcome \in Using
                             /\ exps[j].responder # "unlimited"
                          THEN exps[j].left - 1 ELSE exps[j].left
       /\ exps'[j].calls = IF j = by /\ outcome = "answered"
                           THEN exps[j].calls + 1 ELSE exps[j].calls

LEMMA DecidedLogged ==
  ASSUME Inv, NEW t \in Threads, NEW by, NEW outcome \in Outcomes,
         Decided(t, by, outcome)
  PROVE  Logged' /\ log' \in Seq(Entry)
<1> USE DEF Inv
<1> DEFINE e == [cmd |-> cmd[t], by |-> by, outcome |-> outcome]
<1>1. PICK n \in Nat : n = Len(log)
  BY DEF TypeOK
<1>2. by \in 1..(Len(exps) + 1) /\ by \in Nat /\ Len(exps) \in Nat /\ cmd[t] \in Cmds
  BY DEF Decided, TypeOK
<1>3. e \in Entry /\ e.by = by /\ e.outcome = outcome /\ e.cmd = cmd[t]
  BY <1>2 DEF Entry
<1>4. log \in Seq(Entry) /\ log' = Append(log, e)
  BY DEF TypeOK, Decided
<1> HIDE DEF e
<1>5. /\ log' \in Seq(Entry) /\ DOMAIN log = 1..n /\ DOMAIN log' = 1..(n + 1)
      /\ Len(log') = n + 1 /\ log'[n + 1] = e /\ \A k \in 1..n : log'[k] = log[k]
      /\ DOMAIN exps = 1..Len(exps) /\ DOMAIN exps' = DOMAIN exps
  BY <1>1, <1>3, <1>4 DEF Decided, TypeOK
<1>6. \A j : /\ \A k \in 0..n : Uses(j, k)' = Uses(j, k)
             /\ Uses(j, n + 1)' = Uses(j, n) + (IF by = j /\ outcome \in Using
                                               THEN 1 ELSE 0)
             /\ Uses(j, n) \in Nat
  BY <1>1, <1>3, <1>4, UsesGrow, UsesType
<1>7. \A j \in DOMAIN exps : exps[j] \in Expectation
  BY DEF TypeOK
<1>8. ASSUME NEW k \in DOMAIN log'
      PROVE  /\ log'[k].by \in 1..(Len(exps') + 1)
             /\ log'[k].outcome \in Using => log'[k].by \in DOMAIN exps'
  <2>1. CASE k = n + 1
    BY <1>2, <1>3, <1>5, <2>1 DEF Decided
  <2>2. CASE k \in 1..n
    BY <1>5, <2>2 DEF Decided, Logged
  <2> QED BY <1>5, <2>1, <2>2
<1>9. ASSUME NEW j \in DOMAIN exps', exps'[j].responder # "unlimited"
      PROVE  Uses(j, n + 1)' + exps'[j].left = exps'[j].times
  <2>1. Uses(j, n) + exps[j].left = exps[j].times /\ exps[j].responder # "unlimited"
    BY <1>1, <1>5, <1>9 DEF Logged, Decided
  <2>2. exps[j].left \in Nat
    BY <1>5, <1>7, MockAssumption DEF Expectation
  <2> QED BY <1>5, <1>6, <2>1, <2>2 DEF Decided
<1>10. ASSUME NEW k \in DOMAIN log', NEW j \in 1..(log'[k].by - 1),
              log'[k].cmd \in exps'[j].covers
       PROVE  exps'[j].responder # "unlimited" /\ Uses(j, k - 1)' = exps'[j].times
  <2>1. CASE k = n + 1
    <3>1. j \in 1..(at[t] - 1) /\ j \in DOMAIN exps /\ at[t] \in Nat
      BY <1>2, <1>3, <1>5, <2>1 DEF Decided
    <3>2. Exhausted(exps[j])
      <4>1. cmd[t] \in exps'[j].covers
        BY <1>3, <1>5, <1>10, <2>1
      <4>2. exps'[j].covers = exps[j].covers /\ pc[t] = "scan"
        BY <3>1 DEF Decided
      <4> QED BY <3>1, <4>1, <4>2 DEF Scanning
    <3>3. Uses(j, n) + exps[j].left = exps[j].times /\ exps[j].left = 0
      BY <1>1, <3>1, <3>2 DEF Exhausted, Logged
    <3> QED BY <1>6, <2>1, <3>1, <3>2, <3>3 DEF Exhausted, Decided
  <2>2. CASE k \in 1..n
    <3>1. log[k] \in Entry /\ log[k].by \in 1..(Len(exps) + 1) /\ log'[k] = log[k]
      BY <1>4, <1>5, <2>2 DEF Logged
    <3>2. j \in DOMAIN exps /\ log[k].cmd \in exps[j].covers
      <4>1. j \in DOMAIN exps
        BY <1>2, <1>5, <3>1
      <4>2. exps'[j].covers = exps[j].covers
        BY <4>1 DEF Decided
      <4> QED BY <1>10, <3>1, <4>1, <4>2
    <3>3. exps[j].responder # "unlimited" /\ Uses(j, k - 1) = exps[j].times
      BY <1>5, <2>2, <3>1, <3>2 DEF Logged
    <3>4. PICK i \in 0..n : i = k - 1
      BY <2>2
    <3>5. Uses(j, i)' = Uses(j, i)
      BY <1>6
    <3>6. Uses(j, k - 1)' = Uses(j, k - 1)
      BY <3>4, <3>5
    <3> QED BY <3>2, <3>3, <3>6 DEF Decided
  <2> QED BY <1>5, <2>1, <2>2
<1>11. ASSUME NEW j \in DOMAIN exps'
       PROVE  exps'[j].calls > 0 <=> \E k \in DOMAIN log' :
                log'[k].by = j /\ log'[k].outcome = "answered"
  <2>1. exps[j].calls \in Nat
    BY <1>5, <1>7 DEF Expectation
  <2>2. CASE j = by /\ outcome = "answered"
    BY <1>3, <1>5, <2>1, <2>2 DEF Decided
  <2>3. CASE ~(j = by /\ outcome = "answered")
    <3>1. exps'[j].calls = exps[j].calls
      BY <1>5, <2>3 DEF Decided
    <3> QED BY <1>3, <1>5, <2>3, <3>1 DEF Logged
  <2> QED BY <2>2, <2>3
<1>12. Logged'
  BY <1>5, <1>8, <1>9, <1>10, <1>11 DEF Logged
<1> QED BY <1>5, <1>12

LEMMA DecideSteps ==
  ASSUME Inv, NEW t \in Threads,
         Answer(t) \/ FactoryPanics(t) \/ MatcherPanics(t) \/ NoMatch(t)
  PROVE  Inv'
<1> USE DEF Inv
<1>1. PICK outcome \in Outcomes, a \in Answers :
        /\ Decide(t, at[t], outcome, a)
        /\ \/ /\ outcome = "answered" /\ Matches(t) /\ UNCHANGED poisoned
              /\ exps' = [exps EXCEPT ![at[t]] = Counted(Used(@))]
           \/ /\ outcome = "factory_panics" /\ Matches(t) /\ poisoned' = TRUE
              /\ exps' = [exps EXCEPT ![at[t]] = Used(@)]
           \/ /\ outcome = "matcher_panics" /\ poisoned' = TRUE /\ UNCHANGED exps
           \/ outcome = "no_match" /\ UNCHANGED <<exps, poisoned>>
  <2>1. CASE Answer(t)
    BY <2>1 DEF Answer, Outcomes, Answers
  <2>2. CASE FactoryPanics(t)
    BY <2>2 DEF FactoryPanics, Outcomes, Answers
  <2>3. CASE MatcherPanics(t)
    BY <2>3 DEF MatcherPanics, Outcomes, Answers
  <2>4. CASE NoMatch(t)
    <3>1. (IF strict THEN "panic" ELSE "no_match") \in Answers
      BY DEF Answers
    <3> QED BY <2>4, <3>1 DEF NoMatch, Outcomes, Answers
  <2> QED BY <2>1, <2>2, <2>3, <2>4
<1>2. /\ pc[t] = "scan" /\ lock' = None /\ Return(t, a) /\ UNCHANGED <<strict, calls>>
      /\ log' = Append(log, [cmd |-> cmd[t], by |-> at[t], outcome |-> outcome])
  BY <1>1 DEF Decide
<1>3. /\ outcome \in Using => at[t] \in DOMAIN exps /\ ~Exhausted(exps[at[t]])
      /\ outcome \in Using <=> outcome \in {"answered", "factory_panics"}
  BY <1>1 DEF Matches, Asked, Using
<1>4. Decided(t, at[t], outcome)
  <2>1. CASE UNCHANGED exps /\ outcome \notin Using
    <3>1. outcome # "answered"
      BY <1>3, <2>1
    <3> QED BY <1>2, <1>3, <2>1, <3>1 DEF Decided, TypeOK
  <2>2. CASE outcome \in Using
    <3> DEFINE b == at[t]  x == exps[b]
    <3>1. b \in DOMAIN exps /\ x \in Expectation /\ ~Exhausted(x)
      BY <1>3, <2>2 DEF TypeOK
    <3>2. /\ x.left \in 0..MaxTimes /\ x.calls \in Nat
          /\ x.responder # "unlimited" => x.left # 0 /\ x.left - 1 \in 0..MaxTimes
      BY <3>1, MockAssumption DEF Expectation, Exhausted
    <3>3. /\ Used(x) \in Expectation /\ Used(x).calls = x.calls
          /\ Used(x).covers = x.covers /\ Used(x).responder = x.responder
          /\ Used(x).times = x.times
          /\ Used(x).left = IF x.responder # "unlimited" THEN x.left - 1 ELSE x.left
      BY <3>1, <3>2 DEF Used, Expectation
    <3>4. PICK y \in Expectation :
            /\ exps' = [exps EXCEPT ![b] = y]
            /\ y.covers = x.covers /\ y.responder = x.responder /\ y.times = x.times
            /\ y.left = Used(x).left
            /\ y.calls = IF outcome = "answered" THEN x.calls + 1 ELSE x.calls
      <4>1. CASE outcome = "answered"
        <5>1. exps' = [exps EXCEPT ![b] = Counted(Used(x))]
          BY <1>1, <4>1
        <5>2. /\ Counted(Used(x)) \in Expectation
              /\ Counted(Used(x)) = [Used(x) EXCEPT !.calls = x.calls + 1]
          BY <3>2, <3>3 DEF Counted, Expectation
        <5> QED BY <3>3, <4>1, <5>1, <5>2 DEF Expectation
      <4>2. CASE outcome = "factory_panics"
        BY <1>1, <3>3, <4>2
      <4> QED BY <1>3, <2>2, <4>1, <4>2
    <3>5. /\ exps' \in Seq(Expectation) /\ Len(exps') = Len(exps)
          /\ \A j \in DOMAIN exps : exps'[j] = IF j = b THEN y ELSE exps[j]
      BY <3>1, <3>4 DEF TypeOK
    <3> HIDE DEF b, x
    <3>6. \A j \in DOMAIN exps :
            /\ exps'[j].covers = exps[j].covers
            /\ exps'[j].responder = exps[j].responder
            /\ exps'[j].times = exps[j].times
            /\ exps'[j].left = IF j = b /\ exps[j].responder # "unlimited"
                               THEN exps[j].left - 1 ELSE exps[j].left
            /\ exps'[j].calls = IF j = b /\ outcome = "answered"
                                THEN exps[j].calls + 1 ELSE exps[j].calls
      BY <3>3, <3>4, <3>5 DEF x
    <3> QED BY <1>2, <1>3, <2>2, <3>5, <3>6 DEF Decided, b
  <2> QED BY <1>1, <1>3, <2>1, <2>2
<1>5. Logged' /\ log' \in Seq(Entry)
  BY <1>4, DecidedLogged
<1>6. \A u \in Threads \ {t} : pc[u] # "scan"
  BY <1>2 DEF Scanning
<1>7. TypeOK'
  <2>1. poisoned' \in BOOLEAN
    BY <1>1 DEF TypeOK
  <2>2. exps' \in Seq(Expectation)
    BY <1>4 DEF Decided
  <2>3. /\ pc' \in [Threads -> {"idle", "run", "scan", "verify"}]
        /\ cmd' \in [Threads -> Cmds \union {None}] /\ at' \in [Threads -> Nat]
        /\ answer' \in [Threads -> Answers]
        /\ pc'[t] = "idle" /\ \A u \in Threads \ {t} : pc'[u] = pc[u]
    BY <1>2, ReturnTypes
  <2>4. \A u \in Threads : pc'[u] # "scan"
    BY <1>6, <2>3
  <2> QED BY <1>2, <1>5, <2>1, <2>2, <2>3, <2>4 DEF TypeOK
<1>8. Scanning'
  BY <1>2, <1>6, ReturnTypes, MockAssumption DEF Scanning
<1>9. OnlyCallbacksPoison'
  <2>1. PICK n \in Nat : n = Len(log)
    BY DEF TypeOK
  <2>2. /\ n + 1 \in DOMAIN log' /\ log'[n + 1].outcome = outcome
        /\ \A k \in DOMAIN log : k \in DOMAIN log' /\ log'[k] = log[k]
    BY <1>2, <2>1 DEF TypeOK
  <2>3. CASE UNCHANGED poisoned
    BY <2>2, <2>3 DEF OnlyCallbacksPoison
  <2>4. CASE outcome \in {"factory_panics", "matcher_panics"}
    BY <2>2, <2>4 DEF OnlyCallbacksPoison
  <2> QED BY <1>1, <2>3, <2>4
<1> QED BY <1>5, <1>7, <1>8, <1>9

THEOREM Invariance == Spec => []Inv
<1>1. ASSUME Inv, [Next]_vars PROVE Inv'
  <2>1. CASE UNCHANGED vars
    <3>1. \A j, k : Uses(j, k)' = Uses(j, k)
      BY <2>1 DEF vars, Uses
    <3> QED BY <1>1, <2>1, <3>1 DEF vars, mutex, thread, Inv, TypeOK, Scanning,
                                    Logged, OnlyCallbacksPoison
  <2>2. CASE Next
    BY <1>1, <2>2, PushStep, QuietSteps, DecideSteps DEF Next, Step
  <2> QED BY <1>1, <2>1, <2>2
<1> QED BY InitInv, <1>1, PTL DEF Spec

(* The first expectation that accepts a command and is not used up answers *)
(* it, in the order in which the runs of all the threads were decided, and *)
(* none answers more often than it may (MockRunner::run, Responder).       *)
THEOREM FirstMatchCorrect == Spec => []FirstMatchAnswers
<1>1. Inv => FirstMatchAnswers
  <2> SUFFICES ASSUME Inv PROVE FirstMatchAnswers
    OBVIOUS
  <2>1. \A j \in DOMAIN exps : exps[j].responder # "unlimited" =>
          Uses(j, Len(log)) <= exps[j].times
    <3> TAKE j \in DOMAIN exps
    <3> HAVE exps[j].responder # "unlimited"
    <3>1. exps[j] \in Expectation /\ Len(log) \in Nat
      BY DEF Inv, TypeOK
    <3>2. exps[j].left \in Nat /\ exps[j].times \in Nat
      BY <3>1, MockAssumption DEF Expectation
    <3>3. Uses(j, Len(log)) + exps[j].left = exps[j].times
      BY DEF Inv, Logged
    <3>4. Uses(j, Len(log)) \in Nat
      BY <3>1, UsesType
    <3> QED BY <3>2, <3>3, <3>4
  <2> QED BY <2>1 DEF Inv, Logged, FirstMatchAnswers
<1> QED BY <1>1, Invariance, PTL

(* A run without a match, which panics by default, poisons nothing; only a *)
(* matcher or a factory that panics does (the scope of the guard in run).  *)
THEOREM PoisonCorrect == Spec => []OnlyCallbacksPoison
<1>1. Inv => OnlyCallbacksPoison
  BY DEF Inv
<1> QED BY <1>1, Invariance, PTL

(* verify tells whether each expectation answered, however other threads   *)
(* run commands meanwhile (MockRunner::verify).                            *)
THEOREM VerifyCorrect == Spec => VerifyTells
<1> DEFINE met == {j \in DOMAIN exps : \E k \in DOMAIN log :
                     log[k].by = j /\ log[k].outcome = "answered"}
           told(t) == pc[t] = "verify" /\ pc'[t] = "idle" =>
             answer'[t] = IF poisoned THEN "panic"
                          ELSE IF met = DOMAIN exps THEN "ok" ELSE "unmet"
<1>1. ASSUME Inv, [Next]_vars PROVE [\A t \in Threads : told(t)]_vars
  <2> SUFFICES ASSUME Next, NEW t \in Threads, pc[t] = "verify", pc'[t] = "idle"
               PROVE  answer'[t] = IF poisoned THEN "panic"
                                   ELSE IF met = DOMAIN exps THEN "ok" ELSE "unmet"
    BY <1>1
  <2>1. Verify(t)
    <3>1. pc \in [Threads -> {"idle", "run", "scan", "verify"}]
      BY <1>1 DEF Inv, TypeOK
    <3>2. ~Push
      BY DEF Push, thread
    <3>3. ASSUME NEW u \in Threads, Call(u) PROVE FALSE
      BY <3>1, <3>3 DEF Call
    <3>4. ASSUME NEW u \in Threads, Lock(u) \/ Skip(u) PROVE FALSE
      BY <3>1, <3>4 DEF Lock, Skip, Return
    <3>5. ASSUME NEW u \in Threads,
                 Answer(u) \/ FactoryPanics(u) \/ MatcherPanics(u) \/ NoMatch(u)
          PROVE  FALSE
      <4>1. pc[u] = "scan" /\ pc' = [pc EXCEPT ![u] = "idle"]
        BY <3>5 DEF Answer, FactoryPanics, MatcherPanics, NoMatch, Decide, Return
      <4> QED BY <3>1, <4>1
    <3>6. ASSUME NEW u \in Threads, Verify(u), u # t PROVE FALSE
      BY <3>1, <3>6 DEF Verify, Return
    <3> QED BY <3>2, <3>3, <3>4, <3>5, <3>6 DEF Next, Step
  <2>2. Unmet = {} <=> met = DOMAIN exps
    <3>1. \A j \in DOMAIN exps : exps[j].calls \in Nat
      <4>1. \A j \in DOMAIN exps : exps[j] \in Expectation
        BY <1>1 DEF Inv, TypeOK
      <4> QED BY <4>1 DEF Expectation
    <3>2. \A j \in DOMAIN exps : j \in Unmet <=> j \notin met
      BY <1>1, <3>1 DEF Inv, Logged, Unmet
    <3>3. Unmet \subseteq DOMAIN exps /\ met \subseteq DOMAIN exps
      BY DEF Unmet
    <3> HIDE DEF met
    <3> QED BY <3>2, <3>3
  <2>3. answer'[t] = IF poisoned THEN "panic" ELSE IF Unmet = {} THEN "ok" ELSE "unmet"
    BY <1>1, <2>1 DEF Verify, Return, Inv, TypeOK
  <2> QED BY <2>2, <2>3
<1> QED BY <1>1, Invariance, PTL DEF Spec, VerifyTells
=============================================================================
