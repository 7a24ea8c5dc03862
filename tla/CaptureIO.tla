----------------------------- MODULE CaptureIO -----------------------------
(***************************************************************************)
(* The pipes of one attempt: the feeder of stdin, the readers of stdout    *)
(* and stderr, and the joins after the wait (execute_single,               *)
(* execute_pipeline and their async counterparts).                         *)
(*                                                                         *)
(* All the stages are spawned at the start.  The waits and kills, which    *)
(* module Pipeline opens up, are short here: the runner waits for the      *)
(* stages left to right until a timeout or the flag stops the attempt,     *)
(* and then kills those still alive.  No wait fails.                       *)
(*                                                                         *)
(* Pipe 0 is the stdin of stage 1, pipe s the stdout of stage s, which     *)
(* stage s + 1 or a reader thread reads, and pipe N + s its stderr.  Data  *)
(* is a number of chunks.                                                  *)
(***************************************************************************)
EXTENDS Integers

CONSTANTS
  N,        \* the number of stages
  Attempts, \* the configurations an attempt may have (records, see Config)
  Feed,     \* bound: the chunks stdin holds
  Writes,   \* bound: the chunks a stage writes to its stdout
  Errors,   \* bound: the chunks a stage writes to its stderr
  Capacity  \* the chunks that fit into a pipe

Stages == 1..N
Pipes  == 0..(2 * N)

(* The runner, the kind of stdin, and the streams that are captured.       *)
Config == [mode: {"sync", "async"},
           kind: {"none", "bytes", "reader", "async_reader"},
           capture: SUBSET {"stdout", "stderr"}]

(* The sync runner has refused an async reader before it comes here.       *)
ASSUME CaptureAssumption ==
  /\ N \in Nat \ {0}
  /\ Attempts \subseteq Config
  /\ \A a \in Attempts : a.mode = "sync" => a.kind # "async_reader"
  /\ Feed \in Nat /\ Writes \in Nat /\ Errors \in Nat /\ Capacity \in Nat \ {0}

VARIABLES
  mode, kind, capture,  \* the configuration; fixed
  holder,   \* the stage a descendant of which has its descriptors, or 0
  exit,     \* the stages: "running", "exited" or "killed"
  blocked,  \* the operation a stage is blocked in, or "none"
  ended,    \* the stages that saw the end of their stdin
  wrote,    \* chunks written to each pipe
  read,     \* chunks read from it
  source,   \* chunks the caller's reader has yielded so far
  dry,      \* ... and whether that was all
  feeder,   \* the stdin feeder: "copying" or "done"
  pc,       \* what the runner waits for
  cur,      \* the stage it is at
  stopped   \* the timeout has fired, or the flag was seen

config  == <<mode, kind, capture>>
program == <<exit, blocked, ended>>
data    == <<wrote, read>>
stdin   == <<source, dry, feeder>>
runner  == <<pc, cur, stopped>>
vars    == <<config, holder, program, data, stdin, runner>>

TypeOK ==
  /\ [mode |-> mode, kind |-> kind, capture |-> capture] \in Attempts
  /\ holder \in 0..N
  /\ exit \in [Stages -> {"running", "exited", "killed"}]
  /\ blocked \in [Stages -> {"none", "read", "stdout", "stderr"}]
  /\ ended \subseteq Stages
  /\ wrote \in [Pipes -> Nat]
  /\ read \in [Pipes -> Nat] /\ \A p \in Pipes : read[p] <= wrote[p]
  /\ source \in 0..Feed /\ dry \in BOOLEAN
  /\ feeder \in {"copying", "done"}
  /\ pc \in {"stages", "stdin", "stdout", "stderr", "done"}
  /\ cur \in Stages
  /\ stopped \in BOOLEAN

(* Bytes are all there at once; a reader yields its chunks when it likes.  *)
Init ==
  /\ \E a \in Attempts : mode = a.mode /\ kind = a.kind /\ capture = a.capture
  /\ holder \in 0..N
  /\ exit = [s \in Stages |-> "running"]
  /\ blocked = [s \in Stages |-> "none"]
  /\ ended = {}
  /\ wrote = [p \in Pipes |-> 0] /\ read = [p \in Pipes |-> 0]
  /\ source \in (IF kind = "bytes" THEN 0..Feed ELSE {0})
  /\ dry = (kind \in {"none", "bytes"})
  /\ feeder = IF kind = "none" THEN "done" ELSE "copying"
  /\ pc = "stages" /\ cur = 1
  /\ stopped = FALSE

-----------------------------------------------------------------------------
(* The pipes.                                                              *)

Alive(s) == exit[s] = "running"

Stdout(s) == s
Stderr(s) == N + s

(* The parent keeps no end of a pipe between stages.                       *)
HasWriter(p) ==
  IF p = 0 THEN feeder = "copying"
  ELSE LET s == IF p <= N THEN p ELSE p - N IN Alive(s) \/ holder = s

HasReader(p) == p < N => Alive(p + 1) \/ holder = p + 1

Captured(p) ==
  p >= N => (IF p = N THEN "stdout" ELSE "stderr") \in capture

HasRoom(p) == wrote[p] - read[p] < Capacity

HasData(p) == read[p] < wrote[p]

Ends(p) == ~HasData(p) /\ ~HasWriter(p)

Write(p) == wrote' = [wrote EXCEPT ![p] = @ + 1] /\ UNCHANGED read

ReadChunk(p) == read' = [read EXCEPT ![p] = @ + 1] /\ UNCHANGED wrote

-----------------------------------------------------------------------------
(* The stages run programs of their own: each reads its stdin, writes and  *)
(* exits in any order, and is blocked in an operation that cannot go on.   *)

Wants(s, op) == Alive(s) /\ blocked[s] \in {"none", op}

Unblocked(s) == blocked' = [blocked EXCEPT ![s] = "none"]

StageReads(s) ==
  /\ Wants(s, "read") /\ s \notin ended
  /\ \/ HasData(s - 1) /\ ReadChunk(s - 1) /\ UNCHANGED ended
     \/ Ends(s - 1) /\ ended' = ended \union {s} /\ UNCHANGED data
  /\ Unblocked(s)
  /\ UNCHANGED <<config, holder, exit, stdin, runner>>

(* The pipe an operation writes to; what is not captured never blocks.     *)
Target(s, op) == IF op = "stdout" THEN Stdout(s) ELSE Stderr(s)

WillWrite(s, op) ==
  /\ Captured(Target(s, op))
  /\ wrote[Target(s, op)] < IF op = "stdout" THEN Writes ELSE Errors

(* A write to a pipe without a reader is SIGPIPE.                          *)
StageWrites(s, op) ==
  LET p == Target(s, op) IN
  /\ Wants(s, op) /\ WillWrite(s, op)
  /\ \/ HasReader(p) /\ HasRoom(p) /\ Write(p) /\ UNCHANGED exit
     \/ ~HasReader(p) /\ exit' = [exit EXCEPT ![s] = "exited"] /\ UNCHANGED data
  /\ Unblocked(s)
  /\ UNCHANGED <<config, holder, ended, stdin, runner>>

StageBlocks(s) ==
  /\ Alive(s) /\ blocked[s] = "none"
  /\ \/ /\ s \notin ended /\ ~HasData(s - 1) /\ HasWriter(s - 1)
        /\ blocked' = [blocked EXCEPT ![s] = "read"]
     \/ \E op \in {"stdout", "stderr"} :
          /\ WillWrite(s, op)
          /\ HasReader(Target(s, op)) /\ ~HasRoom(Target(s, op))
          /\ blocked' = [blocked EXCEPT ![s] = op]
  /\ UNCHANGED <<config, holder, exit, ended, data, stdin, runner>>

StageExits(s) ==
  /\ Alive(s) /\ blocked[s] = "none"
  /\ exit' = [exit EXCEPT ![s] = "exited"]
  /\ UNCHANGED <<config, holder, blocked, ended, data, stdin, runner>>

Stage(s) ==
  \/ StageReads(s) \/ StageBlocks(s) \/ StageExits(s)
  \/ \E op \in {"stdout", "stderr"} : StageWrites(s, op)

HolderExits ==
  /\ holder # 0 /\ holder' = 0
  /\ UNCHANGED <<config, program, data, stdin, runner>>

-----------------------------------------------------------------------------
(* spawn_stdin_feeder and spawn_stdin_feeder_tokio.                        *)

SourceYields ==
  /\ ~dry /\ source < Feed
  /\ source' = source + 1
  /\ UNCHANGED <<config, holder, program, data, dry, feeder, runner>>

SourceEnds ==
  /\ ~dry /\ dry' = TRUE
  /\ UNCHANGED <<config, holder, program, data, source, feeder, runner>>

(* The async runner reads a blocking reader to its end before it writes.   *)
MayWrite ==
  /\ feeder = "copying" /\ wrote[0] < source
  /\ mode = "async" /\ kind = "reader" => dry

\* mutant of FeederWrites: a broken pipe does not end the feeder
FeederInsists ==
  /\ MayWrite
  /\ HasReader(0) /\ HasRoom(0) /\ Write(0) /\ UNCHANGED feeder
  /\ UNCHANGED <<config, holder, program, source, dry, runner>>

FeederWrites ==
  /\ MayWrite
  /\ \/ HasReader(0) /\ HasRoom(0) /\ Write(0) /\ UNCHANGED feeder
     \/ ~HasReader(0) /\ feeder' = "done" /\ UNCHANGED data
  /\ UNCHANGED <<config, holder, program, source, dry, runner>>

(* The pipe is dropped at the end, which closes it.                        *)
FeederEnds ==
  /\ feeder = "copying" /\ dry /\ wrote[0] = source
  /\ feeder' = "done"
  /\ UNCHANGED <<config, holder, program, data, source, dry, runner>>

-----------------------------------------------------------------------------
\* mutant of Drain: stdout is read only after the wait
DrainLate(p) ==
  /\ p >= N /\ Captured(p) /\ HasData(p)
  /\ p = N => pc # "stages"
  /\ ReadChunk(p)
  /\ UNCHANGED <<config, holder, program, stdin, runner>>

(* read_to_end and drain_async: a thread or task for each captured stream. *)
Drain(p) ==
  /\ p >= N /\ Captured(p) /\ HasData(p)
  /\ ReadChunk(p)
  /\ UNCHANGED <<config, holder, program, stdin, runner>>

(* The stages are waited for; the joins come next.  Only the sync runner   *)
(* joins the feeder.                                                       *)
NextStage ==
  IF cur < N THEN cur' = cur + 1 /\ UNCHANGED pc
  ELSE /\ cur' = 1
       /\ pc' = IF mode = "sync" THEN "stdin" ELSE "stdout"

StageSeen ==
  /\ pc = "stages" /\ ~Alive(cur)
  /\ NextStage
  /\ UNCHANGED <<config, holder, program, data, stdin, stopped>>

Stop ==
  /\ pc = "stages" /\ ~stopped /\ stopped' = TRUE
  /\ UNCHANGED <<config, holder, program, data, stdin, pc, cur>>

KillStage ==
  /\ pc = "stages" /\ stopped /\ Alive(cur)
  /\ exit' = [exit EXCEPT ![cur] = "killed"]
  /\ NextStage
  /\ UNCHANGED <<config, holder, blocked, ended, data, stdin, stopped>>

JoinStdin ==
  /\ pc = "stdin" /\ feeder = "done"
  /\ pc' = "stdout"
  /\ UNCHANGED <<config, holder, program, data, stdin, cur, stopped>>

\* mutant of JoinStdout: what a killed stage wrote is not waited for
JoinStdoutOfExited ==
  /\ pc = "stdout"
  /\ ~stopped /\ "stdout" \in capture => Ends(Stdout(N))
  /\ pc' = "stderr"
  /\ UNCHANGED <<config, holder, program, data, stdin, cur, stopped>>

JoinStdout ==
  /\ pc = "stdout"
  /\ "stdout" \in capture => Ends(Stdout(N))
  /\ pc' = "stderr"
  /\ UNCHANGED <<config, holder, program, data, stdin, cur, stopped>>

\* mutant of JoinStderr: one reader too many is joined
JoinStderrOneMore ==
  /\ pc = "stderr"
  /\ "stderr" \in capture => Ends(Stderr(cur))
  /\ IF cur <= N THEN cur' = cur + 1 /\ UNCHANGED pc
                 ELSE cur' = 1 /\ pc' = "done"
  /\ UNCHANGED <<config, holder, program, data, stdin, stopped>>

(* The readers of stderr are joined in the order of the stages.            *)
JoinStderr ==
  /\ pc = "stderr"
  /\ "stderr" \in capture => Ends(Stderr(cur))
  /\ IF cur < N THEN cur' = cur + 1 /\ UNCHANGED pc
                ELSE cur' = 1 /\ pc' = "done"
  /\ UNCHANGED <<config, holder, program, data, stdin, stopped>>

Runner == StageSeen \/ KillStage \/ JoinStdin \/ JoinStdout \/ JoinStderr

Feeder == FeederWrites \/ FeederEnds

Source == SourceYields \/ SourceEnds

Next ==
  \/ Runner \/ Stop \/ Feeder \/ Source \/ HolderExits
  \/ \E s \in Stages : Stage(s)
  \/ \E p \in Pipes : Drain(p)

(* The threads of procpilot run; nothing is assumed of anybody else.       *)
Fairness ==
  /\ WF_vars(Runner) /\ WF_vars(Feeder)
  /\ \A p \in Pipes : WF_vars(Drain(p))

(* A premise of NoPipeDeadlock: the programs go on when they can, the      *)
(* reader of stdin has an end, and descendants exit.                       *)
Willing ==
  /\ \A s \in Stages : WF_vars(Stage(s))
  /\ WF_vars(Source) /\ WF_vars(HolderExits)

Spec == Init /\ [][Next]_vars

FairSpec == Spec /\ Fairness

-----------------------------------------------------------------------------
(* Properties.                                                             *)

(* Whatever a captured stream carried is in the result, that of killed     *)
(* stages included, and nobody can write to it any more                    *)
(* (execute_pipeline, finalize_outcome).                                   *)
CaptureComplete ==
  pc = "done" =>
    \A p \in N..(2 * N) : Captured(p) => Ends(p)

(* No attempt of willing programs hangs, however much they read and write  *)
(* and in whatever order: not the feeder, the stages and the readers on    *)
(* each other's full pipes (spawn_stdin_feeder, read_to_end).              *)
NoPipeDeadlock == Willing => <>(pc = "done")

(* A stopped attempt ends though its programs do nothing more, if nobody   *)
(* else has its pipes - for the sync runner, once the reader of stdin has  *)
(* ended.  The feeder, which the async runner does not join, ends as well. *)
StoppedEnds ==
  /\ stopped /\ holder = 0 /\ (mode = "sync" => dry) ~> pc = "done"
  /\ stopped /\ holder = 0 /\ dry ~> feeder = "done"

-----------------------------------------------------------------------------
(* What the documentation says and the code does not do.                   *)

(* Cmd::run: blocks until the command completes, or its timeout fires -    *)
(* here, of an attempt that killed a stage for its timeout.                *)
StopReturns == (\E s \in Stages : exit[s] = "killed") ~> pc = "done"
=============================================================================
