-------------------------- MODULE CaptureIO_proof --------------------------
(***************************************************************************)
(* What is proved of CaptureIO, for any number of stages, any capacity of  *)
(* their pipes and any amount of data: the result of an attempt has all    *)
(* that its captured streams carried.                                      *)
(***************************************************************************)
EXTENDS CaptureIO, TLAPS

LEMMA Numbers ==
  /\ N \in Nat /\ N > 0
  /\ 0 \in Pipes
  /\ \A s \in Stages : s \in Nat /\ s > 0 /\ s <= N
  /\ \A s \in Stages : s \in Pipes /\ N + s \in Pipes /\ s - 1 \in Pipes
  /\ N \in Pipes /\ \A p \in N..(2 * N) : p \in Pipes
  /\ \A p \in Pipes : p \in Nat
  /\ 1 \in Stages /\ \A s \in Stages : s < N => s + 1 \in Stages
BY CaptureAssumption DEF Stages, Pipes

(* Pipe p >= N is written by one stage.                                    *)
LEMMA Writer ==
  ASSUME NEW p \in N..(2 * N)
  PROVE  p # 0 /\ (p <= N => p \in Stages) /\ (~(p <= N) => p - N \in Stages)
BY CaptureAssumption DEF Stages

LEMMA Types ==
  ASSUME TypeOK, [Next]_vars
  PROVE  TypeOK'
<1> USE DEF TypeOK, config, program, data, stdin, runner
<1>a. ASSUME NEW p \in Pipes, Write(p)
      PROVE  wrote' \in [Pipes -> Nat] /\ read' = read
             /\ \A q \in Pipes : read'[q] <= wrote'[q]
  BY <1>a DEF Write
<1>b. ASSUME NEW p \in Pipes, HasData(p), ReadChunk(p)
      PROVE  read' \in [Pipes -> Nat] /\ wrote' = wrote
             /\ \A q \in Pipes : read'[q] <= wrote'[q]
  BY <1>b DEF HasData, ReadChunk
<1>1. CASE StageSeen \/ KillStage
  <2>1. cur' \in Stages /\ pc' \in {"stages", "stdin", "stdout"}
    BY <1>1, Numbers DEF StageSeen, KillStage, NextStage
  <2> QED BY <1>1, <2>1 DEF StageSeen, KillStage
<1>2. CASE JoinStdin \/ JoinStdout
  BY <1>2 DEF JoinStdin, JoinStdout
<1>3. CASE JoinStderr
  <2>1. cur' \in Stages
    BY <1>3, Numbers DEF JoinStderr
  <2> QED BY <1>3, <2>1 DEF JoinStderr
<1>4. CASE Stop
  BY <1>4 DEF Stop
<1>5. CASE FeederWrites
  <2>1. CASE Write(0)
    BY <1>5, <2>1, <1>a, Numbers DEF FeederWrites, Write
  <2>2. CASE UNCHANGED data
    BY <1>5, <2>2 DEF FeederWrites
  <2> QED BY <1>5, <2>1, <2>2 DEF FeederWrites
<1>6. CASE FeederEnds
  BY <1>6 DEF FeederEnds
<1>7. CASE Source
  <2>1. source \in 0..Feed /\ Feed \in Nat
    BY CaptureAssumption
  <2>2. source < Feed => source + 1 \in 0..Feed
    BY <2>1
  <2> QED BY <1>7, <2>2 DEF Source, SourceYields, SourceEnds
<1>8. CASE HolderExits
  BY <1>8, Numbers DEF HolderExits
<1>9. ASSUME NEW s \in Stages, Stage(s) PROVE TypeOK'
  <2>1. CASE StageReads(s)
    <3>1. s - 1 \in Pipes
      BY Numbers
    <3>2. blocked' \in [Stages -> {"none", "read", "stdout", "stderr"}]
      BY <2>1 DEF StageReads, Unblocked
    <3>3. CASE HasData(s - 1) /\ ReadChunk(s - 1) /\ UNCHANGED ended
      BY <2>1, <3>1, <3>2, <3>3, <1>b DEF StageReads
    <3>4. CASE ended' = ended \union {s} /\ UNCHANGED data
      BY <2>1, <3>2, <3>4 DEF StageReads
    <3> QED BY <2>1, <3>3, <3>4 DEF StageReads
  <2>2. ASSUME NEW op \in {"stdout", "stderr"}, StageWrites(s, op) PROVE TypeOK'
    <3>1. Target(s, op) \in Pipes
      BY Numbers DEF Target, Stdout, Stderr
    <3>2. blocked' \in [Stages -> {"none", "read", "stdout", "stderr"}]
      BY <2>2 DEF StageWrites, Unblocked
    <3>3. CASE Write(Target(s, op)) /\ UNCHANGED exit
      BY <2>2, <3>1, <3>2, <3>3, <1>a DEF StageWrites
    <3>4. CASE exit' = [exit EXCEPT ![s] = "exited"] /\ UNCHANGED data
      BY <2>2, <3>2, <3>4 DEF StageWrites
    <3> QED BY <2>2, <3>3, <3>4 DEF StageWrites
  <2>3. CASE StageBlocks(s)
    BY <2>3 DEF StageBlocks
  <2>4. CASE StageExits(s)
    BY <2>4 DEF StageExits
  <2> QED BY <1>9, <2>1, <2>2, <2>3, <2>4 DEF Stage
<1>10. ASSUME NEW p \in Pipes, Drain(p) PROVE TypeOK'
  BY <1>10, <1>b DEF Drain
<1>11. CASE UNCHANGED vars
  BY <1>11 DEF vars
<1> QED
  BY <1>1, <1>2, <1>3, <1>4, <1>5, <1>6, <1>7, <1>8, <1>9, <1>10, <1>11
     DEF Next, Runner, Feeder

-----------------------------------------------------------------------------
(* A stage that is gone stays gone.                                        *)
LEMMA GoneForGood ==
  ASSUME TypeOK, [Next]_vars, NEW s \in Stages, ~Alive(s)
  PROVE  ~Alive(s)'
<1> USE DEF TypeOK, Alive, program
<1>1. exit' = exit \/ \E t \in Stages, x \in {"exited", "killed"} :
                         exit' = [exit EXCEPT ![t] = x]
  <2>1. CASE KillStage
    BY <2>1 DEF KillStage
  <2>2. ASSUME NEW t \in Stages, Stage(t)
        PROVE  exit' = exit \/ exit' = [exit EXCEPT ![t] = "exited"]
    BY <2>2 DEF Stage, StageReads, StageWrites, StageBlocks, StageExits
  <2>3. CASE UNCHANGED vars
    BY <2>3 DEF vars
  <2> QED
    BY <2>1, <2>2, <2>3 DEF Next, Runner, Feeder, Source, StageSeen, JoinStdin,
       JoinStdout, JoinStderr, Stop, FeederWrites, FeederEnds, SourceYields,
       SourceEnds, HolderExits, Drain
<1> QED BY <1>1

(* The end of a stream that a reader thread has is for good.               *)
LEMMA EndsForGood ==
  ASSUME TypeOK, [Next]_vars, NEW p \in N..(2 * N), Ends(p)
  PROVE  Ends(p)'
<1> DEFINE w == IF p <= N THEN p ELSE p - N
<1> USE DEF TypeOK, config, program, data, stdin, runner
<1>1. p \in Pipes /\ p \in Nat /\ p # 0 /\ w \in Stages
  BY Numbers, Writer
<1>2. ~Alive(w) /\ holder # w
  BY <1>1 DEF Ends, HasWriter
<1>3. ~Alive(w)' /\ ~(holder' = w)
  <2>1. ~Alive(w)'
    BY <1>1, <1>2, GoneForGood
  <2>2. holder' = holder \/ holder' = 0
    BY DEF Next, Runner, Feeder, Source, StageSeen, KillStage, JoinStdin,
       JoinStdout, JoinStderr, Stop, FeederWrites, FeederEnds, SourceYields,
       SourceEnds, HolderExits, Drain, Stage, StageReads, StageWrites,
       StageBlocks, StageExits, vars
  <2> QED BY <2>1, <2>2, <1>1, <1>2, Numbers
<1>4. read'[p] >= read[p] /\ wrote'[p] = wrote[p] /\ read'[p] \in Nat /\ wrote'[p] \in Nat
  <2>0. wrote[p] \in Nat /\ read[p] \in Nat
    BY <1>1
  <2>1. CASE FeederWrites
    <3>1. wrote'[p] = wrote[p] /\ read' = read
      BY <2>1, <1>1, Numbers DEF FeederWrites, Write
    <3> QED BY <3>1, <2>0
  <2>2. ASSUME NEW s \in Stages, Stage(s)
        PROVE  wrote'[p] = wrote[p] /\ (read' = read \/ \E q \in Pipes : ReadChunk(q))
    <3>1. CASE StageReads(s)
      BY <3>1, <1>1, Numbers DEF StageReads, ReadChunk
    <3>2. ASSUME NEW op \in {"stdout", "stderr"}, StageWrites(s, op)
          PROVE  wrote'[p] = wrote[p] /\ read' = read
      <4>1. CASE UNCHANGED data
        BY <4>1
      <4>2. CASE Write(Target(s, op))
        <5>1. s # w
          BY <3>2, <1>2 DEF StageWrites, Wants
        <5>2. Target(s, op) # p \/ (op = "stdout" /\ p = s)
          BY <5>1, <1>1, Numbers DEF Target, Stdout, Stderr
        <5>3. op = "stdout" /\ p = s => w = s
          BY Numbers
        <5> QED BY <4>2, <5>1, <5>2, <5>3, <1>1 DEF Write
      <4> QED BY <3>2, <4>1, <4>2 DEF StageWrites
    <3>3. CASE StageBlocks(s) \/ StageExits(s)
      BY <3>3 DEF StageBlocks, StageExits
    <3> QED BY <2>2, <3>1, <3>2, <3>3 DEF Stage
  <2>3. ASSUME NEW q \in Pipes, ReadChunk(q)
        PROVE  read'[p] >= read[p] /\ wrote'[p] = wrote[p] /\ read'[p] \in Nat
    BY <2>3, <2>0, <1>1 DEF ReadChunk
  <2>4. \/ UNCHANGED data \/ FeederWrites \/ (\E q \in Pipes : ReadChunk(q))
        \/ \E s \in Stages : Stage(s)
    BY DEF Next, Runner, Feeder, Source, StageSeen, KillStage, JoinStdin,
       JoinStdout, JoinStderr, Stop, FeederEnds, SourceYields, SourceEnds,
       HolderExits, Drain, vars
  <2>5. CASE \E s \in Stages : Stage(s)
    BY <2>5, <2>2, <2>3, <2>0
  <2>6. CASE UNCHANGED data
    BY <2>6, <2>0
  <2> QED BY <2>1, <2>3, <2>4, <2>5, <2>6, <2>0
<1>5. ~HasData(p)'
  <2>1. wrote[p] \in Nat /\ read[p] \in Nat /\ ~(read[p] < wrote[p])
    BY <1>1 DEF Ends, HasData
  <2> QED BY <2>1, <1>4 DEF HasData
<1>6. ~HasWriter(p)'
  BY <1>1, <1>3 DEF HasWriter
<1> QED BY <1>5, <1>6 DEF Ends

-----------------------------------------------------------------------------
(* The invariant: the stages that were waited for are gone, and the readers*)
(* that were joined had the end of their stream.                           *)
GoneOK ==
  \A s \in Stages : pc # "stages" \/ s < cur => ~Alive(s)

JoinedOK ==
  /\ pc \in {"stdin", "stdout"} => cur = 1
  /\ pc \in {"stderr", "done"} /\ Captured(N) => Ends(N)
  /\ \A s \in Stages :
       (pc = "stderr" /\ s < cur) \/ pc = "done" =>
         (Captured(N + s) => Ends(N + s))

IInv == TypeOK /\ GoneOK /\ JoinedOK

LEMMA InitOK == Init => IInv
<1> SUFFICES ASSUME Init PROVE IInv
  OBVIOUS
<1> USE DEF Init
<1>1. PICK a \in Attempts : mode = a.mode /\ kind = a.kind /\ capture = a.capture
  OBVIOUS
<1>2. a \in Config
  BY CaptureAssumption
<1>3. a = [mode |-> mode, kind |-> kind, capture |-> capture]
  BY <1>1, <1>2 DEF Config
<1>4. source \in 0..Feed
  BY CaptureAssumption
<1>5. TypeOK
  <2>1. dry \in BOOLEAN /\ feeder \in {"copying", "done"}
    OBVIOUS
  <2>2. wrote \in [Pipes -> Nat] /\ read \in [Pipes -> Nat]
        /\ \A p \in Pipes : read[p] <= wrote[p]
    OBVIOUS
  <2>3. cur \in Stages
    BY Numbers
  <2> QED BY <1>1, <1>3, <1>4, <2>1, <2>2, <2>3 DEF TypeOK
<1>6. GoneOK /\ JoinedOK
  BY Numbers DEF GoneOK, JoinedOK
<1> QED BY <1>5, <1>6 DEF IInv

LEMMA StepOK == IInv /\ [Next]_vars => IInv'
<1> SUFFICES ASSUME IInv, [Next]_vars PROVE IInv'
  OBVIOUS
<1> USE DEF IInv
<1>1. TypeOK'
  BY Types
<1>2. /\ \A s \in Stages : ~Alive(s) => ~Alive(s)'
      /\ \A p \in N..(2 * N) : Ends(p) => Ends(p)'
  BY GoneForGood, EndsForGood
<1>3. /\ N \in N..(2 * N) /\ \A s \in Stages : N + s \in N..(2 * N)
      /\ cur \in Stages /\ cur' \in Stages
  <2>1. N \in N..(2 * N) /\ \A s \in Stages : N + s \in N..(2 * N)
    BY CaptureAssumption DEF Stages
  <2> QED BY <1>1, <2>1 DEF TypeOK
<1>4. capture' = capture /\ \A p : Captured(p)' <=> Captured(p)
  <2>1. capture' = capture
    BY DEF Next, Runner, Feeder, Source, StageSeen, KillStage, JoinStdin,
       JoinStdout, JoinStderr, Stop, FeederWrites, FeederEnds, SourceYields,
       SourceEnds, HolderExits, Drain, Stage, StageReads, StageWrites,
       StageBlocks, StageExits, vars, config
  <2> QED BY <2>1 DEF Captured
<1>5. CASE StageSeen \/ KillStage
  <2>1. pc = "stages"
    BY <1>5 DEF StageSeen, KillStage
  <2>2. \/ cur < N /\ cur' = cur + 1 /\ pc' = "stages"
        \/ ~(cur < N) /\ cur' = 1 /\ pc' \in {"stdin", "stdout"}
    BY <1>5, <2>1 DEF StageSeen, KillStage, NextStage
  <2>3. \A s \in Stages : s \in Nat /\ s <= N /\ s > 0
    BY Numbers
  <2>4. GoneOK'
    <3> SUFFICES ASSUME NEW s \in Stages, pc' # "stages" \/ s < cur'
                 PROVE  ~Alive(s)'
      BY DEF GoneOK
    <3>1. s < cur \/ s = cur
      BY <2>2, <2>3, <1>3, Numbers
    <3>3. CASE s = cur
      BY <3>3, <1>5, <1>3 DEF StageSeen, KillStage, Alive, TypeOK, program
    <3>4. CASE s < cur
      BY <3>4, <1>2 DEF GoneOK
    <3> QED BY <3>1, <3>3, <3>4
  <2>5. JoinedOK'
    BY <2>1, <2>2 DEF JoinedOK
  <2> QED BY <1>1, <2>4, <2>5
<1>6. CASE JoinStdin
  <2>1. pc = "stdin" /\ pc' = "stdout" /\ cur' = cur
    BY <1>6 DEF JoinStdin
  <2> QED BY <1>1, <1>2, <2>1 DEF GoneOK, JoinedOK
<1>7. CASE JoinStdout
  <2>1. Captured(N) => Ends(N)
    BY <1>7, Numbers DEF JoinStdout, Captured, Stdout
  <2>2. GoneOK'
    BY <1>2, <1>7 DEF JoinStdout, GoneOK
  <2>3. pc = "stdout" /\ pc' = "stderr" /\ cur = 1 /\ cur' = 1
    BY <1>7 DEF JoinStdout, JoinedOK
  <2>4. \A s \in Stages : ~(s < 1)
    BY Numbers
  <2>5. JoinedOK'
    BY <2>1, <2>3, <2>4, <1>2, <1>3, <1>4 DEF JoinedOK
  <2> QED BY <1>1, <2>2, <2>5
<1>8. CASE JoinStderr
  <2>1. Captured(N + cur) => Ends(N + cur)
    BY <1>8, <1>3, Numbers DEF JoinStderr, Captured, Stderr
  <2>2. /\ pc = "stderr"
        /\ \/ cur < N /\ cur' = cur + 1 /\ pc' = "stderr"
           \/ ~(cur < N) /\ cur' = 1 /\ pc' = "done"
    BY <1>8 DEF JoinStderr
  <2>3. GoneOK'
    BY <1>2, <2>2 DEF GoneOK
  <2>4. ASSUME NEW s \in Stages, (pc' = "stderr" /\ s < cur') \/ pc' = "done",
               Captured(N + s)
        PROVE  Ends(N + s)'
    <3>1. s < cur \/ s = cur
      BY <2>2, <2>4, <1>3, Numbers
    <3>2. Ends(N + s)
      BY <3>1, <2>1, <2>2, <2>4 DEF JoinedOK
    <3> QED BY <3>2, <1>2, <1>3
  <2>5. Captured(N) => Ends(N)'
    BY <2>2, <1>2, <1>3 DEF JoinedOK
  <2>6. JoinedOK'
    <3>1. pc' \notin {"stdin", "stdout"}
      BY <2>2
    <3> QED BY <3>1, <2>4, <2>5, <1>4 DEF JoinedOK
  <2> QED BY <1>1, <2>3, <2>6
<1>9. CASE UNCHANGED <<pc, cur>>
  <2>1. GoneOK'
    BY <1>2, <1>9 DEF GoneOK
  <2>2. JoinedOK'
    BY <1>2, <1>3, <1>4, <1>9 DEF JoinedOK
  <2> QED BY <1>1, <2>1, <2>2
<1>10. \/ UNCHANGED <<pc, cur>> \/ StageSeen \/ KillStage
       \/ JoinStdin \/ JoinStdout \/ JoinStderr
  BY DEF Next, Runner, Feeder, Source, Stop, FeederWrites, FeederEnds,
     SourceYields, SourceEnds, HolderExits, Drain, Stage, StageReads,
     StageWrites, StageBlocks, StageExits, vars, runner
<1> QED BY <1>5, <1>6, <1>7, <1>8, <1>9, <1>10

THEOREM Invariance == Spec => []IInv
BY InitOK, StepOK, PTL DEF Spec

-----------------------------------------------------------------------------
(* The theorems.                                                           *)

(* The type invariant; in particular no more is read from a pipe than was  *)
(* written to it.                                                          *)
THEOREM TypeCorrect == Spec => []TypeOK
BY Invariance, PTL DEF IInv

(* An attempt is only over when every captured stream was read to its end, *)
(* which nobody can write to any more, stopped or not.                     *)
THEOREM CaptureCorrect == Spec => []CaptureComplete
<1>1. ASSUME IInv PROVE CaptureComplete
  <2> SUFFICES ASSUME pc = "done", NEW p \in N..(2 * N), Captured(p) PROVE Ends(p)
    BY DEF CaptureComplete
  <2>1. CASE p = N
    BY <1>1, <2>1 DEF IInv, JoinedOK
  <2>2. CASE p # N
    <3>1. p - N \in Stages /\ N + (p - N) = p
      BY <2>2, CaptureAssumption DEF Stages
    <3> QED BY <1>1, <3>1 DEF IInv, JoinedOK
  <2> QED BY <2>1, <2>2
<1> QED BY <1>1, Invariance, PTL
=============================================================================
