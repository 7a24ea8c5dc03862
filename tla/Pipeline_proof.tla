--------------------------- MODULE Pipeline_proof ---------------------------
(***************************************************************************)
(* Safety of Pipeline for every number of stages, proved.                  *)
(*                                                                         *)
(* IInv says, for each place the runner can be in, which stages run, whose *)
(* outcomes are in and what the loop of combine_outcomes has chosen.       *)
(***************************************************************************)
EXTENDS Pipeline, SequenceTheorems, TLAPS

Waiting == pc \in {"poll", "wait", "grace"}

Alive == {"running"} \union Exits

(* Which outcomes are in: one for each stage before cur.                   *)
LenOK ==
  /\ pc \in {"pipes", "spawn"} => outcomes = <<>>
  /\ Waiting => Len(outcomes) = cur - 1
  /\ pc \in {"combine", "return"} \/ (pc = "done" /\ result # "spawn_failed")
       => Len(outcomes) = N

(* Which stages run: those spawned and not yet waited for.                 *)
ProcOK ==
  /\ pc = "pipes" => cur = 1 /\ \A s \in Stages : proc[s] = "none"
  /\ pc = "spawn" => \A s \in Stages :
                       IF s < cur THEN proc[s] \in Alive ELSE proc[s] = "none"
  /\ Waiting => \A s \in Stages : s >= cur => proc[s] \in Alive
  /\ Waiting /\ mode = "sync" =>
       \A s \in Stages : s < cur => proc[s] \in {"reaped", "lost"}
  /\ pc \in {"combine", "return"} /\ mode = "sync" =>
       \A s \in Stages : proc[s] \in {"reaped", "lost"}

(* What an outcome says of the stage, and of the flag.                     *)
OutcomeOK ==
  /\ \A i \in DOMAIN outcomes : outcomes[i] = "ok" => proc[i] = "reaped"
  /\ Waiting => ~SomeCancelled
  /\ pc = "grace" \/ SomeCancelled => IsSet
  /\ ~Over /\ Failed = {} => killed = {} /\ (pc = "grace" \/ term = {})

(* The loop of combine_outcomes has seen the stages before cur.            *)
CombineOK ==
  /\ pc \in {"pipes", "spawn"} \/ Waiting => result = "none" /\ chosen = "none"
  /\ pc = "combine" =>
       /\ chosen = "none" <=> cur = 1
       /\ cur > 1 => ~SomeCancelled
       /\ chosen = "ok" => \A i \in Failed : i >= cur
       /\ chosen \notin {"none", "ok"} =>
            \E i \in Failed : /\ i < cur /\ chosen = outcomes[i]
                              /\ \A j \in Failed : j < cur => j <= i

TimeOK ==
  /\ timeout = Never => left = Never
  /\ timeout # Never => left \in Nat /\ spent + left = timeout

IInv ==
  /\ TypeOK /\ LenOK /\ ProcOK /\ OutcomeOK /\ CombineOK /\ TimeOK
  /\ NoOrphans /\ PipefailResult

-----------------------------------------------------------------------------
(* Every initial state satisfies the invariant.                            *)
LEMMA InitInv == Init => IInv
<1> SUFFICES ASSUME Init PROVE IInv
  OBVIOUS
<1> USE PipelineAssumption DEF Init, Stages, Countdown
<1>1. TypeOK
  BY EmptySeq DEF TypeOK, PCs, Procs, Result, Outcome
<1>2. Failed = {} /\ ~SomeCancelled
  BY DEF Failed, SomeCancelled
<1>3. LenOK /\ ProcOK
  BY DEF LenOK, ProcOK, Waiting
<1>4. OutcomeOK
  BY <1>2 DEF OutcomeOK, Waiting
<1>5. CombineOK /\ TimeOK
  BY DEF CombineOK, TimeOK, Waiting
<1>6. NoOrphans /\ PipefailResult
  BY DEF NoOrphans, Over, PipefailResult
<1> QED  BY <1>1, <1>3, <1>4, <1>5, <1>6 DEF IInv

-----------------------------------------------------------------------------
(* The outcomes after one more stage.                                      *)
LEMMA NextStageFacts ==
  ASSUME TypeOK, LenOK, Waiting, NEW o \in Outcome, NextStage(o)
  PROVE  /\ outcomes' \in Seq(Outcome)
         /\ Len(outcomes) = cur - 1
         /\ DOMAIN outcomes = 1..(cur - 1)
         /\ Len(outcomes') = cur
         /\ DOMAIN outcomes' = 1..cur
         /\ outcomes'[cur] = o
         /\ \A i \in 1..(cur - 1) : outcomes'[i] = outcomes[i]
         /\ cur < N => cur' = cur + 1 /\ pc' \in {"poll", "wait"}
         /\ cur = N => cur' = 1 /\ pc' = "combine"
<1> USE PipelineAssumption DEF Stages
<1>1. outcomes \in Seq(Outcome) /\ Len(outcomes) = cur - 1 /\ cur \in 1..N
  BY DEF TypeOK, LenOK
<1>2. outcomes' = Append(outcomes, o)
  BY DEF NextStage
<1>3. /\ outcomes' \in Seq(Outcome)
      /\ Len(outcomes') = cur
      /\ outcomes'[cur] = o
      /\ \A i \in 1..(cur - 1) : outcomes'[i] = outcomes[i]
  BY <1>1, <1>2, AppendProperties
<1>4. DOMAIN outcomes = 1..(cur - 1) /\ DOMAIN outcomes' = 1..cur
  BY <1>1, <1>3, LenProperties
<1>5. /\ cur < N => cur' = cur + 1 /\ pc' \in {"poll", "wait"}
      /\ cur = N => cur' = 1 /\ pc' = "combine"
  BY <1>1 DEF NextStage, BeginWait
<1> QED  BY <1>1, <1>3, <1>4, <1>5

(* The outcomes after a cancellation.                                      *)
LEMMA CancelFacts ==
  ASSUME TypeOK, LenOK, CancelStages
  PROVE  /\ outcomes' \in Seq(Outcome)
         /\ Len(outcomes') = N
         /\ DOMAIN outcomes' = 1..N
         /\ DOMAIN outcomes = 1..(cur - 1)
         /\ \A i \in 1..(cur - 1) : outcomes'[i] = outcomes[i]
         /\ \A i \in cur..N : outcomes'[i] = "cancelled"
<1> USE PipelineAssumption DEF Stages
<1> DEFINE rest == [k \in 1..(N - cur + 1) |-> "cancelled"]
<1>1. outcomes \in Seq(Outcome) /\ Len(outcomes) = cur - 1 /\ cur \in 1..N
  BY DEF TypeOK, LenOK, Waiting, CancelStages
<1>2. rest \in Seq(Outcome) /\ Len(rest) = N - cur + 1
  <2> DEFINE n == N - cur + 1
  <2>1. n \in Nat /\ rest \in [1..n -> Outcome]
    BY <1>1 DEF Outcome
  <2>2. rest \in Seq(Outcome)
    BY <2>1, SeqDef
  <2>3. 1..Len(rest) = 1..n /\ Len(rest) \in Nat
    BY <2>1, <2>2, LenProperties
  <2> QED  BY <2>1, <2>2, <2>3
<1>3. outcomes' = outcomes \o rest
  BY DEF CancelStages
<1>4. \A i \in cur..N : rest[i - Len(outcomes)] = "cancelled"
  BY <1>1
<1> HIDE DEF rest
<1>5. /\ outcomes \o rest \in Seq(Outcome)
      /\ Len(outcomes \o rest) = Len(outcomes) + Len(rest)
      /\ \A i \in 1..(Len(outcomes) + Len(rest)) :
           (outcomes \o rest)[i] = IF i <= Len(outcomes) THEN outcomes[i]
                                    ELSE rest[i - Len(outcomes)]
  BY <1>1, <1>2, ConcatProperties
<1>6. Len(outcomes) + Len(rest) = N
  BY <1>1, <1>2
<1>7. /\ outcomes' \in Seq(Outcome)
      /\ Len(outcomes') = N
      /\ \A i \in 1..N : outcomes'[i] = IF i <= Len(outcomes) THEN outcomes[i]
                                         ELSE rest[i - Len(outcomes)]
  BY <1>3, <1>5, <1>6
<1>8. DOMAIN outcomes' = 1..N /\ DOMAIN outcomes = 1..(cur - 1)
  BY <1>1, <1>7, LenProperties
<1>9. \A i \in 1..(cur - 1) : outcomes'[i] = outcomes[i]
  BY <1>1, <1>7
<1>10. ASSUME NEW i \in cur..N PROVE outcomes'[i] = "cancelled"
  <2>1. i \in 1..N /\ ~(i <= Len(outcomes))
    BY <1>1
  <2>2. outcomes'[i] = rest[i - Len(outcomes)]
    BY <1>7, <2>1
  <2> QED  BY <1>4, <2>2
<1> QED  BY <1>1, <1>7, <1>8, <1>9, <1>10

(* KillAndWait reaps the stages it is given that run or are zombies.       *)
LEMMA KillFacts ==
  ASSUME TypeOK, NEW S \in SUBSET Stages, KillAndWait(S)
  PROVE  /\ proc' \in [Stages -> Procs]
         /\ killed' \subseteq Stages
         /\ \A s \in Stages : proc[s] = "none" => proc'[s] = "none"
         /\ \A s \in Stages : proc[s] = "lost" => proc'[s] = "lost"
         /\ \A s \in Stages : proc[s] = "reaped" => proc'[s] = "reaped"
         /\ \A s \in S : proc[s] \in Alive => proc'[s] = "reaped"
         /\ \A s \in Stages \ S : proc'[s] = proc[s]
         /\ S \intersect Running = {} => killed' = killed
BY DEF KillAndWait, TypeOK, Procs, Running, Alive, Exits

(* KillAndWait of every stage leaves none that runs.                       *)
LEMMA KillAllFacts ==
  ASSUME TypeOK, KillAndWait(Stages)
  PROVE  /\ proc' \in [Stages -> Procs] /\ killed' \subseteq Stages
         /\ \A s \in Stages : proc[s] = "lost" <=> proc'[s] = "lost"
         /\ \A s \in Stages : proc'[s] \in {"none", "reaped", "lost"}
         /\ \A s \in Stages : proc[s] = "reaped" => proc'[s] = "reaped"
         /\ \A s \in Stages : proc[s] \in Alive => proc'[s] = "reaped"
         /\ Running = {} => killed' = killed
BY KillFacts DEF KillAndWait, TypeOK, Procs, Alive, Exits, Running

(* An outcome for stage cur other than a cancellation: the common part of  *)
(* SeeExit, TimeOut and WaitFails.                                         *)
LEMMA NextStageInv ==
  ASSUME IInv, pc \in {"poll", "wait"},
         NEW o \in Outcome \ {"cancelled"}, NextStage(o),
         UNCHANGED <<config, flag, left, grace, combine, term, spent>>,
         proc' \in [Stages -> Procs], killed' \subseteq Stages,
         \A s \in Stages : s # cur => proc'[s] = proc[s],
         mode = "sync" => proc'[cur] \in {"reaped", "lost"},
         proc'[cur] = "lost" => ~cancel /\ timeout = Never,
         o = "ok" => proc'[cur] = "reaped" /\ killed' = killed
  PROVE  IInv'
<1> USE PipelineAssumption DEF Stages, IInv
<1>1. UNCHANGED <<mode, cancel, timeout, flag, left, grace, chosen, result, term,
                  spent>>
  BY DEF config, combine
<1>2. cur \in 1..N /\ Waiting
  BY DEF TypeOK, Waiting
<1>3. /\ outcomes' \in Seq(Outcome)
      /\ Len(outcomes) = cur - 1
      /\ DOMAIN outcomes = 1..(cur - 1)
      /\ Len(outcomes') = cur
      /\ DOMAIN outcomes' = 1..cur
      /\ outcomes'[cur] = o
      /\ \A i \in 1..(cur - 1) : outcomes'[i] = outcomes[i]
  BY <1>2, NextStageFacts
<1>4. \/ cur < N /\ cur' = cur + 1 /\ pc' \in {"poll", "wait"}
      \/ cur = N /\ cur' = 1 /\ pc' = "combine"
  BY <1>2, NextStageFacts
<1>5. Failed' = Failed \union (IF o = "ok" THEN {} ELSE {cur})
  BY <1>2, <1>3 DEF Failed
<1>6. ~SomeCancelled /\ ~SomeCancelled'
  BY <1>2, <1>3 DEF OutcomeOK, SomeCancelled
<1>7. TypeOK'
  BY <1>1, <1>2, <1>3, <1>4 DEF TypeOK, PCs
<1>8. LenOK'
  BY <1>2, <1>3, <1>4 DEF LenOK, Waiting
<1>9. ProcOK'
  <2>1. Waiting' => \A s \in Stages : s >= cur' => proc'[s] \in Alive
    BY <1>2, <1>4 DEF ProcOK, Waiting
  <2>2. mode = "sync" => \A s \in Stages : s < cur + 1 => proc'[s] \in {"reaped", "lost"}
    BY <1>2 DEF ProcOK
  <2> QED  BY <1>1, <1>2, <1>4, <2>1, <2>2 DEF ProcOK, Waiting
<1>10. OutcomeOK'
  <2>1. \A i \in DOMAIN outcomes' : outcomes'[i] = "ok" => proc'[i] = "reaped"
    BY <1>2, <1>3 DEF OutcomeOK
  <2>2. Failed' = {} => killed' = {} /\ term' = {}
    BY <1>1, <1>5 DEF OutcomeOK, Over
  <2> QED  BY <1>4, <1>6, <2>1, <2>2 DEF OutcomeOK
<1>11. CombineOK'
  <2>1. result = "none" /\ chosen = "none"
    BY <1>2 DEF CombineOK
  <2> QED  BY <1>1, <1>4, <2>1 DEF CombineOK
<1>12. TimeOK'
  BY <1>1 DEF TimeOK
<1>13. NoOrphans'
  BY <1>1, <1>4 DEF NoOrphans, Over
<1>14. PipefailResult'
  BY <1>4 DEF PipefailResult
<1> QED  BY <1>7, <1>8, <1>9, <1>10, <1>11, <1>12, <1>13, <1>14

(* Every step preserves the invariant.                                     *)
LEMMA StepInv == IInv /\ [Next]_vars => IInv'
<1> SUFFICES ASSUME IInv, [Next]_vars PROVE IInv'
  OBVIOUS
<1> USE PipelineAssumption DEF Stages, IInv
<1>1. CASE MakePipes
  <2>1. TypeOK'
    BY <1>1 DEF MakePipes, config, combine, history, TypeOK, PCs, Result
  <2>2. LenOK'
    BY <1>1 DEF MakePipes, config, combine, history, LenOK, Waiting
  <2>3. ProcOK'
    BY <1>1 DEF MakePipes, config, combine, history, ProcOK, Waiting
  <2>4. OutcomeOK'
    BY <1>1 DEF MakePipes, config, combine, history, OutcomeOK, Waiting,
       SomeCancelled, Failed, IsSet, Over
  <2>5. CombineOK'
    BY <1>1 DEF MakePipes, config, combine, history, CombineOK, Waiting,
       SomeCancelled, Failed
  <2>6. TimeOK'
    BY <1>1 DEF MakePipes, config, combine, history, TimeOK
  <2>7. NoOrphans'
    BY <1>1 DEF MakePipes, config, combine, history, NoOrphans, Over, ProcOK
  <2>8. PipefailResult'
    BY <1>1 DEF MakePipes, config, combine, history, PipefailResult,
       SomeCancelled, Failed, IsSet
  <2> QED  BY <2>1, <2>2, <2>3, <2>4, <2>5, <2>6, <2>7, <2>8
<1>2. CASE SpawnStage
  <2>1. outcomes = <<>> /\ outcomes' = <<>>
    BY <1>2 DEF SpawnStage, LenOK
  <2>2. ~SomeCancelled'
    BY <2>1 DEF SomeCancelled
  <2>3. killed' = {} /\ term' = {}
    BY <1>2, <2>1 DEF SpawnStage, history, OutcomeOK, Failed, Over
  <2>4. TypeOK'
    BY <1>2 DEF SpawnStage, config, combine, history, BeginWait, TypeOK,
       PCs, Procs
  <2>5. LenOK'
    BY <1>2 DEF SpawnStage, config, combine, history, BeginWait, LenOK,
       Waiting, TypeOK
  <2>6. ProcOK'
    BY <1>2 DEF SpawnStage, config, BeginWait, ProcOK, Waiting, TypeOK, Alive
  <2>7. OutcomeOK'
    BY <1>2, <2>1, <2>2, <2>3 DEF SpawnStage, BeginWait, OutcomeOK
  <2>8. CombineOK'
    BY <1>2 DEF SpawnStage, config, combine, history, BeginWait,
       CombineOK, Waiting
  <2>9. TimeOK'
    BY <1>2 DEF SpawnStage, config, combine, history, TimeOK
  <2>10. NoOrphans'
    BY <1>2 DEF SpawnStage, config, combine, history, BeginWait,
       NoOrphans, Over, TypeOK
  <2>11. PipefailResult'
    BY <1>2 DEF SpawnStage, config, combine, history, BeginWait, PipefailResult
  <2> QED  BY <2>4, <2>5, <2>6, <2>7, <2>8, <2>9, <2>10, <2>11
<1>3. CASE SpawnFails
  <2>1. /\ proc' \in [Stages -> Procs] /\ killed' \subseteq Stages
        /\ \A s \in Stages : proc[s] = "lost" <=> proc'[s] = "lost"
        /\ \A s \in Stages : proc'[s] \in {"none", "reaped", "lost"}
        /\ \A s \in Stages : proc[s] = "reaped" => proc'[s] = "reaped"
        /\ \A s \in Stages : proc[s] \in Alive => proc'[s] = "reaped"
        /\ Running = {} => killed' = killed
    BY <1>3, KillAllFacts DEF SpawnFails
  <2>2. TypeOK'
    BY <1>3, <2>1 DEF SpawnFails, config, combine, TypeOK, PCs, Result
  <2>3. LenOK'
    BY <1>3 DEF SpawnFails, config, combine, history, LenOK, Waiting
  <2>4. ProcOK'
    BY <1>3 DEF SpawnFails, config, combine, history, ProcOK, Waiting
  <2>5. OutcomeOK'
    BY <1>3, <2>1 DEF SpawnFails, LenOK, OutcomeOK, Waiting,
       SomeCancelled, Over
  <2>6. CombineOK'
    BY <1>3 DEF SpawnFails, config, combine, history, CombineOK,
       Waiting, SomeCancelled, Failed
  <2>7. TimeOK'
    BY <1>3 DEF SpawnFails, config, combine, history, TimeOK
  <2>8. NoOrphans'
    BY <1>3, <2>1 DEF SpawnFails, config, NoOrphans, Over
  <2>9. PipefailResult'
    BY <1>3 DEF SpawnFails, config, combine, history, PipefailResult,
       SomeCancelled, Failed, IsSet
  <2> QED  BY <2>2, <2>3, <2>4, <2>5, <2>6, <2>7, <2>8, <2>9
<1>4. ASSUME NEW s \in Stages, StageExits(s) PROVE IInv'
  <2>1. TypeOK'
    BY <1>4 DEF StageExits, config, combine, history, TypeOK, Exits, Procs
  <2>2. LenOK'
    BY <1>4 DEF StageExits, config, combine, history, LenOK, Waiting
  <2>3. ProcOK'
    BY <1>4 DEF StageExits, config, ProcOK, Waiting, Alive, Exits, TypeOK
  <2>4. OutcomeOK'
    BY <1>4 DEF StageExits, config, combine, history, OutcomeOK,
       Waiting, SomeCancelled, Failed, IsSet, Over
  <2>5. CombineOK'
    BY <1>4 DEF StageExits, config, combine, history, CombineOK,
       Waiting, SomeCancelled, Failed
  <2>6. TimeOK'
    BY <1>4 DEF StageExits, config, combine, history, TimeOK
  <2>7. NoOrphans'
    BY <1>4 DEF StageExits, config, NoOrphans, Over, TypeOK, Exits
  <2>8. PipefailResult'
    BY <1>4 DEF StageExits, config, combine, history, PipefailResult,
       SomeCancelled, Failed, IsSet
  <2> QED  BY <2>1, <2>2, <2>3, <2>4, <2>5, <2>6, <2>7, <2>8
<1>5. CASE SeeExit
  <2>1. pc \in {"poll", "wait"} /\ cur \in Stages /\ proc[cur] \in Exits
    BY <1>5 DEF SeeExit, Probing, TypeOK
  <2>2. proc' = [proc EXCEPT ![cur] = "reaped"] /\ NextStage(proc[cur])
    BY <1>5 DEF SeeExit
  <2>3. proc' \in [Stages -> Procs] /\ proc'[cur] = "reaped"
    BY <2>1, <2>2 DEF TypeOK, Procs
  <2>4. UNCHANGED <<config, flag, left, grace, combine, term, killed, spent>>
    BY <1>5 DEF SeeExit, history
  <2>5. killed' = killed /\ killed \subseteq Stages
    BY <2>4 DEF TypeOK
  <2>6. proc[cur] \in Outcome \ {"cancelled"}
    BY <2>1 DEF Exits, Outcome
  <2> QED  BY <2>1, <2>2, <2>3, <2>4, <2>5, <2>6, NextStageInv DEF TypeOK
<1>6. CASE TimeOut
  <2>1. pc \in {"poll", "wait"} /\ cur \in Stages /\ proc[cur] \in Alive
    BY <1>6 DEF TimeOut, ProcOK, TypeOK, Waiting
  <2>2. KillAndWait({cur}) /\ NextStage("timeout")
    BY <1>6 DEF TimeOut
  <2>3. /\ proc' \in [Stages -> Procs] /\ killed' \subseteq Stages
        /\ \A s \in Stages : s # cur => proc'[s] = proc[s]
        /\ proc'[cur] = "reaped"
    BY <2>1, <2>2, KillFacts
  <2>4. UNCHANGED <<config, flag, left, grace, combine, term, spent>>
    BY <1>6 DEF TimeOut
  <2>5. "timeout" \in Outcome \ {"cancelled"}
    BY DEF Outcome
  <2> QED  BY <2>1, <2>2, <2>3, <2>4, <2>5, NextStageInv
<1>7. CASE WaitFails
  <2>1. pc \in {"poll", "wait"} /\ cur \in Stages /\ proc[cur] \in Alive
    BY <1>7 DEF WaitFails, Probing, ProcOK, TypeOK, Waiting
  <2>2. NextStage("wait_failed")
    BY <1>7 DEF WaitFails
  <2>3. /\ proc' \in [Stages -> Procs] /\ killed' \subseteq Stages
        /\ \A s \in Stages : s # cur => proc'[s] = proc[s]
        /\ mode = "sync" => proc'[cur] \in {"reaped", "lost"}
        /\ proc'[cur] = "lost" => ~cancel /\ timeout = Never
    <3>1. CASE mode = "async"
      <4>1. UNCHANGED <<proc, killed>>
        BY <1>7, <3>1 DEF WaitFails
      <4> QED  BY <2>1, <3>1, <4>1 DEF TypeOK, Alive, Exits
    <3>2. CASE mode # "async" /\ ~cancel /\ timeout = Never
      <4>1. proc' = [proc EXCEPT ![cur] = "lost"] /\ UNCHANGED killed
        BY <1>7, <3>2 DEF WaitFails
      <4> QED  BY <2>1, <3>2, <4>1 DEF TypeOK, Procs
    <3>3. CASE mode # "async" /\ ~(~cancel /\ timeout = Never)
      <4>1. KillAndWait({cur})
        BY <1>7, <3>3 DEF WaitFails
      <4> QED  BY <2>1, <4>1, KillFacts
    <3> QED  BY <3>1, <3>2, <3>3
  <2>4. UNCHANGED <<config, flag, left, grace, combine, term, spent>>
    BY <1>7 DEF WaitFails
  <2>5. "wait_failed" \in Outcome \ {"cancelled"}
    BY DEF Outcome
  <2> QED  BY <2>1, <2>2, <2>3, <2>4, <2>5, NextStageInv
<1>8. CASE PollAgain
  <2>1. TypeOK'
    BY <1>8 DEF PollAgain, config, combine, history, TypeOK, PCs
  <2>2. LenOK'
    BY <1>8 DEF PollAgain, config, combine, history, LenOK, Waiting
  <2>3. ProcOK'
    BY <1>8 DEF PollAgain, config, combine, history, ProcOK, Waiting
  <2>4. OutcomeOK'
    BY <1>8 DEF PollAgain, config, combine, history, OutcomeOK, Waiting,
       SomeCancelled, Failed, IsSet, Over
  <2>5. CombineOK'
    BY <1>8 DEF PollAgain, config, combine, history, CombineOK, Waiting,
       SomeCancelled, Failed
  <2>6. TimeOK'
    BY <1>8 DEF PollAgain, config, combine, history, TimeOK
  <2>7. NoOrphans'
    BY <1>8 DEF PollAgain, config, combine, history, NoOrphans, Over
  <2>8. PipefailResult'
    BY <1>8 DEF PollAgain, config, combine, history, PipefailResult,
       SomeCancelled, Failed, IsSet
  <2> QED  BY <2>1, <2>2, <2>3, <2>4, <2>5, <2>6, <2>7, <2>8
<1>9. CASE Lapse
  <2>1. TypeOK'
    BY <1>9 DEF Lapse, config, combine, history, TypeOK, PCs
  <2>2. LenOK'
    BY <1>9 DEF Lapse, config, combine, history, LenOK, Waiting
  <2>3. ProcOK'
    BY <1>9 DEF Lapse, config, combine, history, ProcOK, Waiting
  <2>4. OutcomeOK'
    BY <1>9 DEF Lapse, config, combine, history, OutcomeOK, Waiting,
       SomeCancelled, Failed, IsSet, Over
  <2>5. CombineOK'
    BY <1>9 DEF Lapse, config, combine, history, CombineOK, Waiting,
       SomeCancelled, Failed
  <2>6. TimeOK'
    BY <1>9 DEF Lapse, config, combine, history, TimeOK
  <2>7. NoOrphans'
    BY <1>9 DEF Lapse, config, combine, history, NoOrphans, Over
  <2>8. PipefailResult'
    BY <1>9 DEF Lapse, config, combine, history, PipefailResult,
       SomeCancelled, Failed, IsSet
  <2> QED  BY <2>1, <2>2, <2>3, <2>4, <2>5, <2>6, <2>7, <2>8
<1>10. CASE Terminate
  <2>1. TypeOK'
    BY <1>10 DEF Terminate, config, combine, history, TypeOK, PCs
  <2>2. LenOK'
    BY <1>10 DEF Terminate, config, combine, history, LenOK, Waiting
  <2>3. ProcOK'
    BY <1>10 DEF Terminate, config, combine, history, ProcOK, Waiting
  <2>4. OutcomeOK'
    BY <1>10 DEF Terminate, config, combine, history, OutcomeOK,
       Waiting, SomeCancelled, Failed, IsSet, Over
  <2>5. CombineOK'
    BY <1>10 DEF Terminate, config, combine, history, CombineOK,
       Waiting, SomeCancelled, Failed
  <2>6. TimeOK'
    BY <1>10 DEF Terminate, config, combine, history, TimeOK
  <2>7. NoOrphans'
    BY <1>10 DEF Terminate, config, combine, history, NoOrphans, Over
  <2>8. PipefailResult'
    BY <1>10 DEF Terminate, config, combine, history, PipefailResult,
       SomeCancelled, Failed, IsSet
  <2> QED  BY <2>1, <2>2, <2>3, <2>4, <2>5, <2>6, <2>7, <2>8
<1>11. CASE CancelStages
  <2>1. /\ proc' \in [Stages -> Procs] /\ killed' \subseteq Stages
        /\ \A s \in Stages : proc[s] = "lost" <=> proc'[s] = "lost"
        /\ \A s \in Stages : proc'[s] \in {"none", "reaped", "lost"}
        /\ \A s \in Stages : proc[s] = "reaped" => proc'[s] = "reaped"
        /\ \A s \in Stages : proc[s] \in Alive => proc'[s] = "reaped"
        /\ Running = {} => killed' = killed
    BY <1>11, KillAllFacts DEF CancelStages
  <2>2. /\ outcomes' \in Seq(Outcome) /\ Len(outcomes') = N
        /\ DOMAIN outcomes = 1..(cur - 1) /\ DOMAIN outcomes' = 1..N
        /\ \A i \in 1..(cur - 1) : outcomes'[i] = outcomes[i]
        /\ \A i \in cur..N : outcomes'[i] = "cancelled"
    BY <1>11, CancelFacts
  <2>3. cur \in 1..N /\ mode \in {"sync", "async"} /\ Waiting
    BY <1>11 DEF CancelStages, TypeOK, Waiting
  <2>4. mode = "sync" => \A s \in Stages : proc'[s] \in {"reaped", "lost"}
    BY <2>1, <2>3 DEF ProcOK
  <2>5. cur \in Failed'
    BY <2>2, <2>3 DEF Failed
  <2>6. \A i \in DOMAIN outcomes' : outcomes'[i] = "ok" => proc'[i] = "reaped"
    BY <2>1, <2>2, <2>3 DEF OutcomeOK
  <2>7. IsSet'
    BY <1>11 DEF CancelStages, config, OutcomeOK, IsSet
  <2>8. TypeOK'
    BY <1>11, <2>1, <2>2, <2>3 DEF CancelStages, config, combine, TypeOK, PCs
  <2>9. LenOK'
    BY <1>11, <2>2 DEF CancelStages, LenOK, Waiting
  <2>10. ProcOK'
    BY <1>11, <2>1, <2>4 DEF CancelStages, config, ProcOK, Waiting
  <2>11. OutcomeOK'
    BY <1>11, <2>5, <2>6, <2>7 DEF CancelStages, OutcomeOK, Waiting
  <2>12. CombineOK'
    BY <1>11, <2>5 DEF CancelStages, config, combine, CombineOK, Waiting
  <2>13. TimeOK'
    BY <1>11 DEF CancelStages, config, combine, history, TimeOK
  <2>14. NoOrphans'
    BY <1>11, <2>1 DEF CancelStages, config, NoOrphans, Over
  <2>15. PipefailResult'
    BY <1>11 DEF CancelStages, config, combine, history, PipefailResult,
       SomeCancelled, Failed, IsSet
  <2> QED  BY <2>8, <2>9, <2>10, <2>11, <2>12, <2>13, <2>14, <2>15
<1>12. CASE CombineCancelled
  <2>1. SomeCancelled /\ SomeCancelled'
    BY <1>12 DEF CombineCancelled, SomeCancelled
  <2>2. Failed # {} /\ Failed' = Failed
    BY <1>12 DEF CombineCancelled, SomeCancelled, Failed
  <2>3. IsSet' /\ Len(outcomes') = N
    BY <1>12, <2>1 DEF CombineCancelled, config, OutcomeOK, LenOK, IsSet
  <2>4. TypeOK'
    BY <1>12 DEF CombineCancelled, config, combine, history, TypeOK,
       PCs, Result, Outcome
  <2>5. LenOK'
    BY <1>12 DEF CombineCancelled, config, combine, history, LenOK, Waiting
  <2>6. ProcOK'
    BY <1>12 DEF CombineCancelled, config, combine, history, ProcOK, Waiting
  <2>7. OutcomeOK'
    BY <1>12 DEF CombineCancelled, config, combine, history, OutcomeOK,
       Waiting, SomeCancelled, Failed, IsSet, Over
  <2>8. CombineOK'
    BY <1>12 DEF CombineCancelled, config, combine, history, CombineOK,
       Waiting, SomeCancelled, Failed
  <2>9. TimeOK'
    BY <1>12 DEF CombineCancelled, config, combine, history, TimeOK
  <2>10. NoOrphans'
    BY <1>12 DEF CombineCancelled, config, combine, history, NoOrphans, Over, ProcOK
  <2>11. PipefailResult'
    BY <1>12, <2>1, <2>2, <2>3 DEF CombineCancelled, config, PipefailResult
  <2> QED  BY <2>4, <2>5, <2>6, <2>7, <2>8, <2>9, <2>10, <2>11
<1>13. CASE CombineStage
  <2>1. /\ cur \in 1..N /\ DOMAIN outcomes = 1..N /\ Len(outcomes) = N
        /\ outcomes[cur] \in Outcome \ {"cancelled"}
        /\ outcomes' = outcomes
    <3>1. Len(outcomes) = N /\ outcomes \in Seq(Outcome) /\ cur \in 1..N
      BY <1>13 DEF CombineStage, LenOK, TypeOK
    <3>2. DOMAIN outcomes = 1..N /\ outcomes[cur] \in Outcome
      BY <3>1, LenProperties, ElementOfSeq
    <3> QED  BY <1>13, <3>1, <3>2 DEF CombineStage, SomeCancelled
  <2>2. chosen' \in Outcome
    BY <1>13, <2>1 DEF CombineStage, Choose, TypeOK
  <2>3. ~SomeCancelled' /\ Failed' = Failed
    BY <1>13, <2>1 DEF CombineStage, SomeCancelled, Failed
  <2>4. chosen' = "ok" => \A i \in Failed : i >= cur + 1
    BY <1>13, <2>1 DEF CombineStage, Choose, CombineOK, Failed
  <2>5. chosen' # "ok" =>
          \E i \in Failed : /\ i < cur + 1 /\ chosen' = outcomes[i]
                            /\ \A j \in Failed : j < cur + 1 => j <= i
    <3>1. CASE outcomes[cur] = "ok"
      BY <1>13, <2>1, <3>1 DEF CombineStage, Choose, CombineOK, Failed
    <3>2. CASE outcomes[cur] # "ok"
      <4>1. cur \in Failed /\ chosen' = outcomes[cur]
        BY <1>13, <2>1, <3>2 DEF CombineStage, Choose, Failed
      <4>2. \A j \in Failed : j < cur + 1 => j <= cur
        BY <2>1 DEF Failed
      <4> QED  BY <2>1, <4>1, <4>2
    <3> QED  BY <3>1, <3>2
  <2>6. Failed = {} => term = {} /\ killed = {}
    BY <1>13 DEF CombineStage, OutcomeOK, Over
  <2>7. TypeOK'
    BY <1>13, <2>1, <2>2 DEF CombineStage, config, history, TypeOK, PCs, Result
  <2>8. LenOK'
    BY <1>13, <2>1 DEF CombineStage, LenOK, Waiting
  <2>9. ProcOK'
    BY <1>13 DEF CombineStage, config, ProcOK, Waiting
  <2>10. OutcomeOK'
    BY <1>13, <2>3 DEF CombineStage, config, history, OutcomeOK,
       Waiting, IsSet, Over
  <2>11. CombineOK'
    <3>1. CASE cur < N
      <4>1. pc' = "combine" /\ cur' = cur + 1
        BY <1>13, <3>1 DEF CombineStage
      <4>2. chosen' # "none" /\ cur' # 1
        BY <2>1, <2>2, <4>1 DEF Outcome, Exits
      <4> QED  BY <2>1, <2>3, <2>4, <2>5, <4>1, <4>2 DEF CombineOK, Waiting
    <3>2. CASE cur = N
      BY <1>13, <3>2 DEF CombineStage, CombineOK, Waiting
    <3> QED  BY <2>1, <3>1, <3>2
  <2>12. TimeOK'
    BY <1>13 DEF CombineStage, config, combine, history, TimeOK
  <2>13. NoOrphans'
    BY <1>13 DEF CombineStage, config, NoOrphans, Over, ProcOK
  <2>14. PipefailResult'
    <3>1. CASE cur < N
      BY <1>13, <3>1 DEF CombineStage, PipefailResult
    <3>2. CASE cur = N
      <4>1. result' = chosen' /\ term' = term /\ killed' = killed
        BY <1>13, <3>2 DEF CombineStage, history
      <4>2. Failed \subseteq 1..N
        BY <2>1 DEF Failed
      <4>3. result' = "ok" <=> Failed = {}
        BY <2>4, <2>5, <3>2, <4>1, <4>2
      <4>4. result' # "cancelled"
        <5>1. CASE chosen' = "ok"
          BY <4>1, <5>1
        <5>2. CASE chosen' # "ok"
          BY <2>1, <2>3, <2>5, <4>1, <4>2, <5>2 DEF SomeCancelled
        <5> QED  BY <5>1, <5>2
      <4>5. Failed # {} =>
              \E i \in Failed : result' = outcomes[i] /\ \A j \in Failed : j <= i
        <5>1. CASE Failed = {}
          BY <5>1
        <5>2. CASE Failed # {}
          <6>1. chosen' # "ok"
            BY <4>1, <4>3, <5>2
          <6>2. PICK i \in Failed : /\ chosen' = outcomes[i]
                                    /\ \A j \in Failed : j < cur + 1 => j <= i
            BY <2>5, <6>1
          <6>3. \A j \in Failed : j <= i
            BY <2>1, <3>2, <4>2, <6>2
          <6> QED  BY <4>1, <6>2, <6>3
        <5> QED  BY <5>1, <5>2
      <4> QED  BY <2>1, <2>3, <2>6, <4>1, <4>3, <4>4, <4>5 DEF PipefailResult
    <3> QED  BY <2>1, <3>1, <3>2
  <2> QED  BY <2>7, <2>8, <2>9, <2>10, <2>11, <2>12, <2>13, <2>14
<1>14. CASE DropChildren
  <2>1. /\ proc' \in [Stages -> Procs] /\ killed' \subseteq Stages
        /\ \A s \in Stages : proc[s] = "lost" <=> proc'[s] = "lost"
        /\ \A s \in Stages : proc'[s] \in {"none", "reaped", "lost"}
        /\ \A s \in Stages : proc[s] = "reaped" => proc'[s] = "reaped"
        /\ Running = {} => killed' = killed
    <3>1. CASE mode = "async"
      BY <1>14, <3>1, KillAllFacts DEF DropChildren
    <3>2. CASE mode = "sync"
      BY <1>14, <3>2 DEF DropChildren, ProcOK, TypeOK
    <3> QED  BY <3>1, <3>2 DEF TypeOK
  <2>2. result = "ok" => killed' = killed
    <3>1. SUFFICES ASSUME result = "ok" PROVE Running = {}
      BY <2>1
    <3>2. DOMAIN outcomes = Stages /\ Failed = {}
      <4>1. Len(outcomes) = N /\ outcomes \in Seq(Outcome) /\ Failed = {}
        BY <1>14, <3>1 DEF DropChildren, PipefailResult, TypeOK
      <4> QED  BY <4>1, LenProperties
    <3> QED  BY <3>2 DEF Failed, OutcomeOK, Running
  <2>3. DOMAIN outcomes \subseteq Stages
    BY LenProperties DEF TypeOK
  <2>4. TypeOK'
    BY <1>14, <2>1 DEF DropChildren, config, combine, TypeOK, PCs
  <2>5. LenOK'
    BY <1>14 DEF DropChildren, combine, LenOK, Waiting
  <2>6. ProcOK'
    BY <1>14 DEF DropChildren, config, combine, history, ProcOK, Waiting
  <2>7. OutcomeOK'
    BY <1>14, <2>1, <2>3 DEF DropChildren, config, OutcomeOK, Waiting,
       SomeCancelled, IsSet, Over
  <2>8. CombineOK'
    BY <1>14 DEF DropChildren, config, combine, history, CombineOK,
       Waiting, SomeCancelled, Failed
  <2>9. TimeOK'
    BY <1>14 DEF DropChildren, config, combine, history, TimeOK
  <2>10. NoOrphans'
    BY <1>14, <2>1 DEF DropChildren, config, NoOrphans, Over
  <2>11. PipefailResult'
    BY <1>14, <2>2 DEF DropChildren, config, combine, PipefailResult,
       SomeCancelled, Failed, IsSet
  <2> QED  BY <2>4, <2>5, <2>6, <2>7, <2>8, <2>9, <2>10, <2>11
<1>15. CASE DropFuture
  <2>1. /\ proc' \in [Stages -> Procs] /\ killed' \subseteq Stages
        /\ \A s \in Stages : proc[s] = "lost" <=> proc'[s] = "lost"
        /\ \A s \in Stages : proc'[s] \in {"none", "reaped", "lost"}
        /\ \A s \in Stages : proc[s] = "reaped" => proc'[s] = "reaped"
        /\ \A s \in Stages : proc[s] \in Alive => proc'[s] = "reaped"
        /\ Running = {} => killed' = killed
    BY <1>15, KillAllFacts DEF DropFuture
  <2>2. DOMAIN outcomes \subseteq Stages
    BY LenProperties DEF TypeOK
  <2>3. TypeOK'
    BY <1>15, <2>1 DEF DropFuture, config, combine, TypeOK, PCs
  <2>4. LenOK'
    BY <1>15 DEF DropFuture, combine, LenOK, Waiting
  <2>5. ProcOK'
    BY <1>15 DEF DropFuture, config, combine, history, ProcOK, Waiting
  <2>6. OutcomeOK'
    BY <1>15, <2>1, <2>2 DEF DropFuture, config, OutcomeOK, Waiting,
       SomeCancelled, IsSet, Over
  <2>7. CombineOK'
    BY <1>15 DEF DropFuture, combine, CombineOK, Waiting
  <2>8. TimeOK'
    BY <1>15 DEF DropFuture, config, combine, history, TimeOK
  <2>9. NoOrphans'
    BY <1>15, <2>1 DEF DropFuture, config, NoOrphans, Over
  <2>10. PipefailResult'
    BY <1>15 DEF DropFuture, PipefailResult
  <2> QED  BY <2>3, <2>4, <2>5, <2>6, <2>7, <2>8, <2>9, <2>10
<1>16. CASE SetFlag
  <2>1. TypeOK'
    BY <1>16 DEF SetFlag, config, combine, history, TypeOK
  <2>2. LenOK'
    BY <1>16 DEF SetFlag, config, combine, history, LenOK, Waiting
  <2>3. ProcOK'
    BY <1>16 DEF SetFlag, config, combine, history, ProcOK, Waiting
  <2>4. OutcomeOK'
    BY <1>16 DEF SetFlag, config, combine, history, OutcomeOK, Waiting,
       SomeCancelled, Failed, IsSet, Over
  <2>5. CombineOK'
    BY <1>16 DEF SetFlag, config, combine, history, CombineOK, Waiting,
       SomeCancelled, Failed
  <2>6. TimeOK'
    BY <1>16 DEF SetFlag, config, combine, history, TimeOK
  <2>7. NoOrphans'
    BY <1>16 DEF SetFlag, config, combine, history, NoOrphans, Over
  <2>8. PipefailResult'
    BY <1>16 DEF SetFlag, config, combine, history, PipefailResult,
       SomeCancelled, Failed, IsSet
  <2> QED  BY <2>1, <2>2, <2>3, <2>4, <2>5, <2>6, <2>7, <2>8
<1>17. CASE Tick
  <2>1. left' \in Countdown /\ grace' \in Nat /\ spent' \in Nat
    BY <1>17 DEF Tick, TypeOK, Countdown, history
  <2>2. UNCHANGED <<config, flag, pc, cur, proc, outcomes, chosen, result, term,
                    killed>>
    BY <1>17 DEF Tick, combine, history
  <2>3. TypeOK'
    BY <1>17, <2>1, <2>2 DEF config, TypeOK
  <2>4. LenOK'
    BY <1>17 DEF Tick, config, combine, history, LenOK, Waiting
  <2>5. ProcOK'
    BY <1>17 DEF Tick, config, combine, history, ProcOK, Waiting
  <2>6. OutcomeOK'
    BY <1>17 DEF Tick, config, combine, history, OutcomeOK, Waiting,
       SomeCancelled, Failed, IsSet, Over
  <2>7. CombineOK'
    BY <1>17 DEF Tick, config, combine, history, CombineOK, Waiting,
       SomeCancelled, Failed
  <2>8. TimeOK'
    BY <1>17 DEF Tick, config, combine, history, TimeOK, TypeOK, Countdown
  <2>9. NoOrphans'
    BY <1>17 DEF Tick, config, combine, history, NoOrphans, Over
  <2>10. PipefailResult'
    BY <1>17 DEF Tick, config, combine, history, PipefailResult,
       SomeCancelled, Failed, IsSet
  <2> QED  BY <2>3, <2>4, <2>5, <2>6, <2>7, <2>8, <2>9, <2>10
<1>18. CASE UNCHANGED vars
  <2>1. TypeOK'
    BY <1>18 DEF vars, config, combine, history, TypeOK
  <2>2. LenOK'
    BY <1>18 DEF vars, config, combine, history, LenOK, Waiting
  <2>3. ProcOK'
    BY <1>18 DEF vars, config, combine, history, ProcOK, Waiting
  <2>4. OutcomeOK'
    BY <1>18 DEF vars, config, combine, history, OutcomeOK, Waiting,
       SomeCancelled, Failed, IsSet, Over
  <2>5. CombineOK'
    BY <1>18 DEF vars, config, combine, history, CombineOK, Waiting,
       SomeCancelled, Failed
  <2>6. TimeOK'
    BY <1>18 DEF vars, config, combine, history, TimeOK
  <2>7. NoOrphans'
    BY <1>18 DEF vars, config, combine, history, NoOrphans, Over
  <2>8. PipefailResult'
    BY <1>18 DEF vars, config, combine, history, PipefailResult,
       SomeCancelled, Failed, IsSet
  <2> QED  BY <2>1, <2>2, <2>3, <2>4, <2>5, <2>6, <2>7, <2>8
<1> QED  BY <1>1, <1>2, <1>3, <1>4, <1>5, <1>6, <1>7, <1>8, <1>9, <1>10, <1>11, <1>12, <1>13, <1>14, <1>15, <1>16, <1>17, <1>18 DEF Next, Runner

LEMMA Invariance == Spec => []IInv
BY InitInv, StepInv, PTL DEF Spec

-----------------------------------------------------------------------------
(* The variables keep their types: in particular cur stays a stage while   *)
(* the loops of execute_pipeline, wait_stages and combine_outcomes run.    *)
THEOREM TypeCorrect == Spec => []TypeOK
<1>1. IInv => TypeOK
  BY DEF IInv
<1> QED  BY <1>1, Invariance, PTL

(* No stage outlives an attempt, however it ends.                          *)
THEOREM NoOrphansCorrect == Spec => []NoOrphans
<1>1. IInv => NoOrphans
  BY DEF IInv
<1> QED  BY <1>1, Invariance, PTL

(* The result of combine_outcomes is the pipefail rule, for any number of  *)
(* stages.                                                                 *)
THEOREM PipefailCorrect == Spec => []PipefailResult
<1>1. IInv => PipefailResult
  BY DEF IInv
<1> QED  BY <1>1, Invariance, PTL

(* The stages together are waited for no longer than the timeout.          *)
THEOREM SharedTimeoutCorrect == Spec => []SharedTimeout
<1>1. IInv => SharedTimeout
  BY PipelineAssumption DEF IInv, TimeOK, SharedTimeout, TypeOK, Countdown
<1> QED  BY <1>1, Invariance, PTL

(* What GraceForTheWaited rests on: nobody has been killed or sent SIGTERM *)
(* before the first wait, and only stages waited for since.                *)
GraceOK ==
  /\ pc \in {"pipes", "spawn"} => killed = {}
  /\ pc \in {"pipes", "spawn", "poll", "wait"} => term = {}
  /\ pc = "grace" => term = {cur}
  /\ Waiting => \A s \in killed : s < cur

(* SIGTERM and the grace period are for the stage that was waited for,     *)
(* and for no other, among any number of stages.                           *)
THEOREM GraceCorrect == Spec => []GraceForTheWaited
<1> USE PipelineAssumption DEF Stages
<1>1. Init => GraceOK /\ GraceForTheWaited
  BY DEF Init, GraceOK, GraceForTheWaited, SomeCancelled, Waiting
<1>2. ASSUME IInv, GraceOK, GraceForTheWaited, [Next]_vars
      PROVE  GraceOK' /\ GraceForTheWaited'
  <2> USE <1>2 DEF IInv
  <2>1. cur \in 1..N /\ killed \subseteq 1..N /\ term \subseteq 1..N
    BY DEF TypeOK
  <2>2. ASSUME UNCHANGED <<pc, cur, outcomes, term, killed>>
        PROVE  GraceOK' /\ GraceForTheWaited'
    BY <2>2 DEF GraceOK, GraceForTheWaited, SomeCancelled, Waiting
  <2>3. ASSUME UNCHANGED <<outcomes, term>>, ~Waiting', pc' \notin {"pipes", "spawn"}
        PROVE  GraceOK' /\ GraceForTheWaited'
    BY <2>3 DEF GraceOK, GraceForTheWaited, SomeCancelled, Waiting
  <2>4. ASSUME NEW o \in Outcome \ {"cancelled"}, NextStage(o), term' = term,
               pc \in {"poll", "wait"}, killed' \subseteq killed \union {cur}
        PROVE  GraceOK' /\ GraceForTheWaited'
    <3>1. /\ DOMAIN outcomes = 1..(cur - 1) /\ DOMAIN outcomes' = 1..cur
          /\ outcomes'[cur] = o
          /\ \A i \in 1..(cur - 1) : outcomes'[i] = outcomes[i]
          /\ cur < N => cur' = cur + 1 /\ pc' \in {"poll", "wait"}
          /\ cur = N => cur' = 1 /\ pc' = "combine"
      BY <2>4, NextStageFacts DEF Waiting
    <3>2. ~SomeCancelled /\ ~SomeCancelled'
      BY <2>1, <2>4, <3>1 DEF OutcomeOK, Waiting, SomeCancelled
    <3>3. term' = {} /\ \A s \in killed' : s < cur + 1
      BY <2>1, <2>4 DEF GraceOK, Waiting
    <3> QED  BY <2>1, <3>1, <3>2, <3>3 DEF GraceOK, GraceForTheWaited, Waiting
  <2>5. CASE MakePipes
    BY <2>5 DEF MakePipes, history, GraceOK, GraceForTheWaited, SomeCancelled,
       Waiting, LenOK
  <2>6. CASE SpawnStage
    BY <2>6 DEF SpawnStage, history, BeginWait, GraceOK, GraceForTheWaited,
       SomeCancelled, Waiting
  <2>7. CASE SpawnFails \/ CombineCancelled \/ CombineStage \/ DropChildren
             \/ DropFuture
    BY <2>3, <2>7 DEF SpawnFails, CombineCancelled, CombineStage, DropChildren,
       DropFuture, combine, history, Waiting
  <2>8. CASE PollAgain \/ Lapse
    BY <2>8 DEF PollAgain, Lapse, history, GraceOK, GraceForTheWaited,
       SomeCancelled, Waiting
  <2>9. CASE SetFlag \/ Tick \/ (\E s \in Stages : StageExits(s)) \/ UNCHANGED vars
    BY <2>2, <2>9 DEF SetFlag, Tick, StageExits, vars, history
  <2>10. CASE SeeExit
    <3>1. pc \in {"poll", "wait"} /\ proc[cur] \in Outcome \ {"cancelled"}
      BY <2>10 DEF SeeExit, Probing, Exits, Outcome
    <3> QED  BY <2>4, <2>10, <3>1 DEF SeeExit, history
  <2>11. CASE TimeOut \/ WaitFails
    <3>1. pc \in {"poll", "wait"}
      BY <2>11 DEF TimeOut, WaitFails, Probing
    <3>2. killed' \subseteq killed \union {cur} /\ term' = term
      BY <2>11 DEF TimeOut, WaitFails, KillAndWait
    <3>3. NextStage("timeout") \/ NextStage("wait_failed")
      BY <2>11 DEF TimeOut, WaitFails
    <3> QED  BY <2>4, <3>1, <3>2, <3>3 DEF Outcome
  <2>12. CASE Terminate
    <3>1. /\ pc = "poll" /\ pc' = "grace" /\ cur' = cur /\ term' = {cur}
          /\ UNCHANGED <<outcomes, killed>>
      BY <2>12 DEF Terminate, GraceOK
    <3>2. ~SomeCancelled /\ \A s \in killed : s < cur
      BY <3>1 DEF OutcomeOK, GraceOK, Waiting
    <3>3. \A i \in DOMAIN outcomes : i < cur
      BY <2>1, <3>1, LenProperties DEF LenOK, Waiting, TypeOK
    <3>4. outcomes' = outcomes /\ ~SomeCancelled'
      BY <3>1, <3>2 DEF SomeCancelled
    <3>5. \A s \in term', i \in DOMAIN outcomes' : outcomes'[i] = "cancelled" <=> i >= s
      <4>1. \A i \in DOMAIN outcomes : outcomes[i] # "cancelled" /\ ~(i >= cur)
        BY <2>1, <3>2, <3>3, LenProperties DEF SomeCancelled, TypeOK
      <4> QED  BY <3>1, <3>4, <4>1
    <3>6. GraceForTheWaited'
      BY <3>1, <3>2, <3>4, <3>5 DEF GraceForTheWaited
    <3> QED  BY <3>1, <3>2, <3>6 DEF GraceOK, Waiting
  <2>13. CASE CancelStages
    <3>1. /\ DOMAIN outcomes' = 1..N /\ DOMAIN outcomes = 1..(cur - 1)
          /\ \A i \in 1..(cur - 1) : outcomes'[i] = outcomes[i]
          /\ \A i \in cur..N : outcomes'[i] = "cancelled"
      BY <2>13, CancelFacts
    <3>2. /\ pc = "grace" /\ pc' = "combine" /\ term' = term /\ term = {cur}
      BY <2>13 DEF CancelStages, GraceOK
    <3>3. \A i \in 1..(cur - 1) : outcomes[i] # "cancelled"
      BY <3>1, <3>2 DEF OutcomeOK, SomeCancelled, Waiting
    <3>4. \A i \in 1..N : outcomes'[i] = "cancelled" <=> i >= cur
      <4> SUFFICES ASSUME NEW i \in 1..N
                   PROVE  outcomes'[i] = "cancelled" <=> i >= cur
        OBVIOUS
      <4>1. i \in 1..(cur - 1) \/ i \in cur..N
        BY <2>1
      <4> QED  BY <2>1, <3>1, <3>3, <4>1
    <3> QED  BY <3>1, <3>2, <3>4 DEF GraceOK, GraceForTheWaited, Waiting
  <2> QED  BY <2>5, <2>6, <2>7, <2>8, <2>9, <2>10, <2>11, <2>12, <2>13
           DEF Next, Runner
<1> QED  BY <1>1, <1>2, Invariance, PTL DEF Spec

(* SIGTERM only ever goes to a stage not yet reaped.                       *)
THEOREM SignalCorrect == Spec => NoSignalToReapedPid
<1> DEFINE Safe == \A s \in term' \ term : proc[s] \in {"running"} \union Exits
<1>1. ASSUME IInv, [Next]_vars PROVE [Safe]_vars
  <2>1. CASE Terminate
    <3>1. proc[cur] \in Alive /\ term' = term \union {cur}
      BY <1>1, <2>1 DEF Terminate, IInv, ProcOK, Waiting, TypeOK, Stages
    <3> QED  BY <3>1 DEF Alive
  <2>2. CASE ~Terminate
    <3>1. term' = term
      BY <1>1, <2>2 DEF Next, Runner, vars, history, MakePipes, SpawnStage,
         SpawnFails, StageExits, SeeExit, TimeOut, PollAgain, Lapse,
         CancelStages, CombineCancelled, CombineStage, DropChildren, WaitFails,
         DropFuture, SetFlag, Tick
    <3> QED  BY <3>1
  <2> QED  BY <2>1, <2>2
<1> QED  BY <1>1, Invariance, PTL DEF Spec, NoSignalToReapedPid
=============================================================================
