------------------------- MODULE AsyncSpawned_proof -------------------------
(***************************************************************************)
(* What is proved of AsyncSpawned, for any number of stages, any output    *)
(* and any number of calls: an outcome, once returned, is returned for     *)
(* ever, and it is complete unless a future was dropped inside finalize.   *)
(***************************************************************************)
EXTENDS AsyncSpawned, TLAPS

LEMMA Numbers ==
  /\ N \in Nat /\ N > 0 /\ 1 \in Stages /\ N \in Stages
  /\ MaxChunks \in Nat /\ MaxCalls \in Nat
  /\ \A s \in Stages : s \in Nat /\ s > 0 /\ s <= N
  /\ \A s \in Stages : s < N => s + 1 \in Stages
BY AsyncSpawnedAssumption DEF Stages

(* What the local variables of the call hold at each of its places.  Only  *)
(* a call that found no state waits for one.                               *)
Local ==
  /\ pc = "idle" => at = 1 /\ stats = <<>>
  /\ pc = "stages" /\ op \in WaitOps => Len(stats) = at - 1
  /\ pc \in {"join", "drain"} => op \in WaitOps /\ Len(stats) = N
  /\ pc # "idle" /\ op \in WaitOps => final = <<>>
  /\ pc # "drain" => got = 0

(* An outcome that was returned is the one that is kept.                   *)
Kept == answer.kind = "outcome" => final # <<>> /\ answer.state = final

(* Until finalize has run, and unless it was cut short, what it needs is   *)
(* there; nobody but the drain reads the pipe it took.                     *)
Whole ==
  ~cut =>
    /\ final = <<>> /\ pc # "drain" => tasks /\ stdout \in {"child", "caller"}
    /\ pc = "drain" => stdout = "drain" /\ err = "all" /\ got = read
    /\ stdout = "child" => read = 0
    /\ final # <<>> => /\ final[1].stderr = "all"
                       /\ stdout \in {"caller", "closed"}
                       /\ stdout = "closed" => final[1].stdout = written

Inv == TypeOK /\ Local /\ Kept /\ Whole

LEMMA InitInv == Init => Inv
<1> SUFFICES ASSUME Init PROVE Inv
  OBVIOUS
<1>1. TypeOK
  <2>1. tasks \in BOOLEAN /\ cut \in BOOLEAN
    BY DEF Init
  <2>2. answer \in Answer /\ final \in Seq(Finals) /\ Len(final) <= 1
    BY DEF Init, Answer
  <2>3. written \in 0..MaxChunks /\ read \in 0..written /\ got \in 0..read
        /\ calls \in 0..MaxCalls
    BY Numbers DEF Init
  <2>4. stats \in Seq(Exits) /\ Len(stats) <= N
    BY Numbers DEF Init
  <2> QED BY <2>1, <2>2, <2>3, <2>4, Numbers DEF Init, TypeOK, Ops, WaitOps
<1>2. Local /\ Kept /\ Whole
  BY DEF Init, Local, Kept, Whole
<1> QED BY <1>1, <1>2 DEF Inv

(* The statuses of all the stages, the chunks and the stderr make a state. *)
LEMMA StoreTypes ==
  ASSUME TypeOK, Len(stats) = N, NEW chunks \in 0..MaxChunks,
         NEW errors \in {"all", "empty"}, Store(chunks, errors)
  PROVE  /\ final' \in Seq(Finals) /\ Len(final') = 1 /\ final' # <<>>
         /\ final'[1].stdout = chunks /\ final'[1].stderr = errors
         /\ answer' \in Answer /\ answer'.state = final'
         /\ answer'.kind = "outcome"
<1> DEFINE f == [statuses |-> stats, stdout |-> chunks, stderr |-> errors]
<1>1. stats \in [Stages -> Exits]
  BY Numbers DEF TypeOK, Stages
<1>2. f \in Finals
  BY <1>1 DEF Finals
<1>3. final' = <<f>> /\ answer' = [kind |-> "outcome", state |-> final']
  BY DEF Store, Answers
<1> HIDE DEF f
<1>4. final' \in Seq(Finals) /\ Len(final') = 1 /\ final'[1] = f
  BY <1>2, <1>3
<1>5. answer' \in Answer
  BY <1>3, <1>4 DEF Answer
<1> QED BY <1>3, <1>4, <1>5 DEF f

LEMMA ReturnTypes ==
  ASSUME Return
  PROVE  /\ pc' = "idle" /\ op' \in Ops /\ at' \in Stages /\ at' = 1
         /\ stats' \in Seq(Exits) /\ stats' = <<>> /\ Len(stats') <= N
         /\ err' \in {"all", "empty"} /\ got' = 0
BY Numbers DEF Return, Ops, WaitOps

(* The steps that leave the call and what it found alone.                  *)
LEMMA QuietSteps ==
  ASSUME Inv,
         \/ \E s \in Stages : Spawn(s) \/ StageExits(s)
         \/ StageWrites \/ HolderExits \/ SpawnFails \/ DropHandle
         \/ TakeStdout \/ CallerReads
  PROVE  Inv' /\ answer' = answer
<1> USE DEF Inv, TypeOK, Local, Kept, Whole, os, pipe, locals
<1>1. ASSUME NEW s \in Stages, Spawn(s) PROVE Inv' /\ answer' = answer
  BY <1>1 DEF Spawn
<1>2. ASSUME NEW s \in Stages, StageExits(s) PROVE Inv' /\ answer' = answer
  BY <1>2 DEF StageExits, Exits
<1>3. CASE StageWrites
  <2>1. written + 1 \in 0..MaxChunks /\ read \in 0..(written + 1)
    BY <1>3, Numbers DEF StageWrites
  <2> QED BY <1>3, <2>1 DEF StageWrites
<1>4. CASE HolderExits
  <2>1. holder' \in BOOLEAN
    BY <1>4 DEF HolderExits
  <2> QED BY <1>4, <2>1 DEF HolderExits
<1>5. CASE SpawnFails \/ DropHandle
  <2>1. exit' \in [Stages -> {"none", "running"} \union Exits]
    BY <1>5 DEF SpawnFails, DropHandle, DropChildren, Exits
  <2> QED BY <1>5, <2>1 DEF SpawnFails, DropHandle
<1>6. CASE TakeStdout
  BY <1>6 DEF TakeStdout
<1>7. CASE CallerReads
  <2>1. read + 1 \in 0..written /\ got \in 0..(read + 1)
    BY <1>7 DEF CallerReads
  <2> QED BY <1>7, <2>1 DEF CallerReads
<1> QED BY <1>1, <1>2, <1>3, <1>4, <1>5, <1>6, <1>7

(* The steps of a call that return without a state.                        *)
LEMMA FruitlessSteps ==
  ASSUME Inv, StageRuns \/ WaitFails \/ DropFuture \/ Lapse
  PROVE  Inv' /\ (answer.kind = "outcome" => answer' = answer)
<1> USE DEF Inv, TypeOK, Local, Kept, Whole, os, pipe, locals
<1>1. Return
  BY DEF StageRuns, WaitFails, DropFuture, Lapse, DropLocals
<1>2. CASE StageRuns \/ WaitFails
  <2>1. answer' \in Answer /\ answer'.kind # "outcome" /\ final = <<>>
    BY <1>2 DEF StageRuns, WaitFails, Answers, Answer, WaitOps
  <2> QED BY <1>1, <1>2, <2>1, ReturnTypes DEF StageRuns, WaitFails
<1>a. ASSUME DropLocals
      PROVE  /\ tasks' \in BOOLEAN /\ cut' \in BOOLEAN /\ (cut => cut')
             /\ stdout' \in {"child", "drain", "caller", "closed"}
             /\ ~cut' => /\ tasks' = tasks /\ stdout' = stdout
                         /\ pc \notin {"join", "drain"}
  BY <1>a DEF DropLocals
<1>3. CASE DropFuture
  <2>1. TypeOK' /\ answer' = answer
    BY <1>1, <1>3, <1>a, ReturnTypes DEF DropFuture
  <2>2. Local' /\ Kept'
    BY <1>1, <1>3, ReturnTypes DEF DropFuture
  <2>3. Whole'
    BY <1>1, <1>3, <1>a, ReturnTypes DEF DropFuture
  <2> QED BY <2>1, <2>2, <2>3
<1>4. CASE Lapse
  <2>1. answer' \in Answer /\ answer'.kind # "outcome" /\ final = <<>>
    BY <1>4 DEF Lapse, Answers, Answer, WaitOps
  <2>2. TypeOK'
    BY <1>1, <1>4, <1>a, <2>1, ReturnTypes DEF Lapse
  <2>3. Local' /\ Kept'
    BY <1>1, <1>4, <2>1, ReturnTypes DEF Lapse
  <2>4. Whole'
    BY <1>1, <1>4, <1>a, ReturnTypes DEF Lapse
  <2> QED BY <1>4, <2>1, <2>2, <2>3, <2>4 DEF Lapse, WaitOps
<1> QED BY <1>2, <1>3, <1>4

(* The steps of a call up to finalize.                                     *)
LEMMA EarlySteps ==
  ASSUME Inv, (\E o \in Ops : Begin(o)) \/ KillStage \/ StageDone
  PROVE  Inv' /\ (answer.kind = "outcome" => answer' = answer)
<1> USE DEF Inv, TypeOK, Local, Kept, Whole, os, pipe, locals
<1>1. ASSUME NEW o \in Ops, Begin(o)
      PROVE  Inv' /\ (answer.kind = "outcome" => answer' = answer)
  <2>1. calls' \in 0..MaxCalls
    BY <1>1, Numbers DEF Begin
  <2>2. CASE o \in WaitOps /\ final # <<>>
    <3>1. answer' = [kind |-> "outcome", state |-> final]
      BY <1>1, <2>2 DEF Begin, Answers
    <3>2. answer' \in Answer
      BY <3>1 DEF Answer
    <3>3. answer.kind = "outcome" => answer = [kind |-> "outcome", state |-> final]
      BY DEF Answer
    <3> QED BY <1>1, <2>1, <2>2, <3>1, <3>2, <3>3 DEF Begin
  <2>3. CASE ~(o \in WaitOps /\ final # <<>>)
    <3>1. op' = o /\ pc' = "stages" /\ UNCHANGED answer
      BY <1>1, <2>3 DEF Begin
    <3>2. Len(stats) = 0 /\ at = 1
      BY <1>1 DEF Begin
    <3> QED BY <1>1, <2>1, <2>3, <3>1, <3>2 DEF Begin
  <2> QED BY <2>2, <2>3
<1>2. CASE KillStage
  <2>1. exit' \in [Stages -> {"none", "running"} \union Exits]
    BY <1>2 DEF KillStage, Exits
  <2>2. CASE at < N
    BY <1>2, <2>1, <2>2, Numbers DEF KillStage, WaitOps
  <2>3. CASE ~(at < N)
    BY <1>2, <2>1, <2>3, ReturnTypes DEF KillStage
  <2> QED BY <2>2, <2>3
<1>3. CASE StageDone
  <2>1. Len(stats) = at - 1 /\ at \in Nat /\ at <= N /\ N \in Nat
    BY <1>3, Numbers DEF StageDone
  <2>2. stats' \in Seq(Exits) /\ Len(stats') = at
    BY <1>3, <2>1 DEF StageDone, Exited
  <2>3. CASE at < N
    <3>1. at + 1 \in Stages /\ Len(stats') = (at + 1) - 1 /\ Len(stats') <= N
      BY <2>1, <2>2, <2>3, Numbers
    <3> QED BY <1>3, <2>2, <2>3, <3>1 DEF StageDone
  <2>4. CASE ~(at < N)
    <3>1. Len(stats') = N /\ Len(stats') <= N
      BY <2>1, <2>2, <2>4
    <3> QED BY <1>3, <2>2, <2>4, <3>1 DEF StageDone
  <2> QED BY <2>3, <2>4
<1> QED BY <1>1, <1>2, <1>3

(* finalize.                                                               *)
LEMMA LateSteps ==
  ASSUME Inv, JoinStderr \/ Drain
  PROVE  Inv' /\ (answer.kind = "outcome" => answer' = answer)
<1> USE DEF Inv, os, pipe, locals
<1>0. final = <<>> /\ Len(stats) = N /\ answer.kind # "outcome"
  BY DEF JoinStderr, Drain, Local, Kept
<1>1. CASE JoinStderr
  <2> DEFINE errors == IF tasks THEN "all" ELSE "empty"
  <2>1. errors \in {"all", "empty"} /\ (~cut => errors = "all") /\ 0 \in 0..MaxChunks
    BY <1>0, <1>1, Numbers DEF JoinStderr, Whole
  <2>2. CASE stdout = "child"
    <3>1. /\ stdout' = "drain" /\ err' = errors /\ pc' = "drain" /\ tasks' = FALSE
          /\ UNCHANGED <<final, op, at, stats, got, answer, phase, exit, holder,
                         written, read, calls, cut>>
      BY <1>1, <2>2 DEF JoinStderr
    <3>2. TypeOK'
      BY <2>1, <3>1 DEF TypeOK
    <3>3. Local'
      BY <1>1, <3>1 DEF JoinStderr, Local
    <3>4. ~cut => got = read
      BY <1>1, <2>2 DEF JoinStderr, Local, Whole
    <3>5. Kept' /\ Whole'
      BY <1>0, <2>1, <3>1, <3>4 DEF Kept, Whole
    <3> QED BY <1>0, <3>2, <3>3, <3>5
  <2>3. CASE stdout # "child"
    <3>1. /\ Store(0, errors) /\ tasks' = FALSE
          /\ UNCHANGED <<stdout, phase, exit, holder, written, read, calls, cut>>
      BY <1>1, <2>3 DEF JoinStderr
    <3> HIDE DEF errors
    <3>2. /\ final' \in Seq(Finals) /\ Len(final') = 1 /\ final' # <<>>
          /\ final'[1].stderr = errors /\ answer' \in Answer
          /\ answer'.state = final' /\ Return
      BY <1>0, <2>1, <3>1, StoreTypes DEF Store
    <3>3. TypeOK'
      <4>1. tasks' \in BOOLEAN
        BY <3>1
      <4> QED BY <3>1, <3>2, <4>1, ReturnTypes DEF TypeOK
    <3>4. Local' /\ Kept'
      BY <3>1, <3>2, ReturnTypes DEF Local, Kept
    <3>5. ~cut => stdout = "caller"
      BY <1>0, <1>1, <2>3 DEF JoinStderr, Whole
    <3>6. Whole'
      BY <2>1, <3>1, <3>2, <3>5, ReturnTypes DEF Whole
    <3> QED BY <1>0, <3>3, <3>4, <3>6
  <2> QED BY <2>2, <2>3
<1>2. CASE Drain /\ ~Return
  <2>1. /\ read < written /\ read' = read + 1 /\ got' = got + 1
        /\ UNCHANGED <<stdout, final, answer, op, pc, at, stats, err, phase, exit,
                       holder, written, tasks, calls, cut>>
    BY <1>2 DEF Drain, Store
  <2>2. read + 1 \in 0..written /\ got + 1 \in 0..(read + 1)
    BY <2>1 DEF TypeOK
  <2>3. TypeOK'
    BY <2>1, <2>2 DEF TypeOK
  <2>4. Local' /\ Kept'
    BY <1>2, <2>1 DEF Drain, Local, Kept
  <2>5. Whole'
    BY <1>2, <2>1 DEF Drain, Whole
  <2> QED BY <1>0, <2>3, <2>4, <2>5
<1>3. CASE Drain /\ Return
  <2>1. /\ StdoutEnds /\ Store(got, err) /\ stdout' = "closed" /\ UNCHANGED read
        /\ UNCHANGED <<phase, exit, holder, written, tasks, calls, cut>>
    BY <1>3 DEF Drain, Return
  <2>2. got \in 0..MaxChunks /\ err \in {"all", "empty"} /\ read = written
    BY <2>1, Numbers DEF TypeOK, StdoutEnds
  <2>3. /\ final' \in Seq(Finals) /\ Len(final') = 1 /\ final' # <<>>
        /\ final'[1].stderr = err /\ final'[1].stdout = got
        /\ answer' \in Answer /\ answer'.state = final'
    BY <1>0, <2>1, <2>2, StoreTypes
  <2>4. TypeOK'
    BY <1>3, <2>1, <2>3, ReturnTypes DEF TypeOK
  <2>5. Local' /\ Kept'
    BY <1>3, <2>1, <2>3, ReturnTypes DEF Local, Kept
  <2>6. Whole'
    BY <1>3, <2>1, <2>2, <2>3, ReturnTypes DEF Drain, Whole
  <2> QED BY <1>0, <2>4, <2>5, <2>6
<1> QED BY <1>1, <1>2, <1>3

LEMMA NextInv ==
  ASSUME Inv, [Next]_vars
  PROVE  Inv' /\ (answer.kind = "outcome" => answer' = answer)
<1>1. CASE UNCHANGED vars
  BY <1>1 DEF vars, os, pipe, locals, Inv, TypeOK, Local, Kept, Whole
<1>2. CASE Next
  BY <1>2, QuietSteps, FruitlessSteps, EarlySteps, LateSteps DEF Next, Proceed
<1> QED BY <1>1, <1>2

THEOREM Invariance == Spec => []Inv
<1>1. Inv /\ [Next]_vars => Inv'
  BY NextInv
<1> QED BY InitInv, <1>1, PTL DEF Spec

(* Every variable keeps its type: a state has a status for each stage, and *)
(* no more of stdout than was read (finalize).                             *)
THEOREM TypeCorrect == Spec => []TypeOK
<1>1. Inv => TypeOK
  BY DEF Inv
<1> QED BY <1>1, Invariance, PTL

(* No dropped future, kill or lapsed wait_timeout changes an outcome that  *)
(* was returned (finalize).                                                *)
THEOREM IdempotentCorrect == Spec => Idempotent
<1>1. Inv /\ [Next]_vars => [answer.kind = "outcome" => answer' = answer]_vars
  BY NextInv
<1> QED BY <1>1, Invariance, PTL DEF Spec, Idempotent

(* The outcome is complete, unless a future was dropped after finalize had *)
(* taken the stderr tasks or the pipe (wait, finalize).                    *)
THEOREM CompleteCorrect == Spec => []CompleteUnlessCut
<1>1. Inv => CompleteUnlessCut
  BY DEF Inv, TypeOK, Whole, CompleteUnlessCut, Complete
<1> QED BY <1>1, Invariance, PTL
=============================================================================
