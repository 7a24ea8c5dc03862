---------------------------- MODULE AsyncSpawned ----------------------------
(***************************************************************************)
(* AsyncSpawnedProcess: the tokio counterpart of SpawnedProcess            *)
(* (async_spawned.rs, and spawn_single_async and spawn_pipeline_async).    *)
(*                                                                         *)
(* The handle has one owner, who makes one call after another and may drop *)
(* the future of a call wherever it is suspended, as tokio::select! does.  *)
(* wait_timeout drops the future of a wait of its own.  The pipes are as   *)
(* in module Spawned; stderr is captured.                                  *)
(***************************************************************************)
EXTENDS Integers, Sequences

CONSTANTS
  N,         \* the number of stages
  MaxChunks, \* bound: the chunks the rightmost stage writes
  Capacity,  \* the chunks that fit into the pipe
  MaxCalls   \* bound: the calls the owner makes

Stages == 1..N

ASSUME AsyncSpawnedAssumption ==
  /\ N \in Nat \ {0}
  /\ MaxChunks \in Nat /\ Capacity \in Nat \ {0} /\ MaxCalls \in Nat

VARIABLES
  phase,    \* "spawning", "live", or how the handle ended
  exit,     \* the status of each stage, or whether it runs
  holder,   \* a descendant has the write ends of stdout and stderr
  written,  \* how many chunks were written to stdout
  read,     \* how many were read from it
  stdout,   \* who has the read end: "child", "drain", "caller" or "closed"
  tasks,    \* the stderr tasks have not been joined
  final,    \* finalized: empty, or the one FinalizedState
  op,       \* the call under way
  pc,       \* where it is
  at,       \* the stage it is at
  stats,    \* the statuses it has collected
  err,      \* the stderr it has collected
  got,      \* the chunks of stdout it has collected
  calls,    \* how many calls were made
  answer,   \* what the last wait, try_wait or wait_timeout returned
  cut       \* history: a future was dropped in the middle of finalize

os     == <<exit, holder, written>>
pipe   == <<read, stdout>>
locals == <<at, stats, err, got>>
vars   == <<phase, os, pipe, tasks, final, op, pc, locals, calls, answer, cut>>

Exits   == {"ok", "failed", "killed"}
WaitOps == {"wait", "try_wait", "wait_timeout"}
Ops     == WaitOps \union {"kill"}
Finals  == [statuses: [Stages -> Exits], stdout: 0..MaxChunks,
            stderr: {"all", "empty"}]
Answer  == [kind: {"none", "running", "error", "outcome"}, state: Seq(Finals)]

TypeOK ==
  /\ phase \in {"spawning", "live", "failed", "dropped"}
  /\ exit \in [Stages -> {"none", "running"} \union Exits]
  /\ holder \in BOOLEAN
  /\ written \in 0..MaxChunks /\ read \in 0..written
  /\ stdout \in {"child", "drain", "caller", "closed"}
  /\ tasks \in BOOLEAN
  /\ final \in Seq(Finals) /\ Len(final) <= 1
  /\ op \in Ops /\ pc \in {"idle", "stages", "join", "drain"}
  /\ at \in Stages /\ stats \in Seq(Exits) /\ Len(stats) <= N
  /\ err \in {"all", "empty"} /\ got \in 0..read
  /\ calls \in 0..MaxCalls
  /\ answer \in Answer
  /\ cut \in BOOLEAN

Init ==
  /\ phase = "spawning"
  /\ exit = [s \in Stages |-> "none"]
  /\ holder \in BOOLEAN
  /\ written = 0 /\ read = 0 /\ stdout = "child" /\ tasks = TRUE
  /\ final = <<>>
  /\ op = "wait" /\ pc = "idle"
  /\ at = 1 /\ stats = <<>> /\ err = "empty" /\ got = 0
  /\ calls = 0
  /\ answer = [kind |-> "none", state |-> <<>>]
  /\ cut = FALSE

-----------------------------------------------------------------------------
(* The operating system.                                                   *)

Exited(s) == exit[s] \in Exits

AllExited == \A s \in Stages : Exited(s)

StageExits(s) ==
  /\ exit[s] = "running"
  /\ \E status \in {"ok", "failed"} : exit' = [exit EXCEPT ![s] = status]
  /\ UNCHANGED <<phase, holder, written, pipe, tasks, final, op, pc, locals,
                 calls, answer, cut>>

StageWrites ==
  /\ exit[N] = "running" \/ (holder /\ exit[N] # "none")
  /\ stdout # "closed"
  /\ written < MaxChunks /\ written - read < Capacity
  /\ written' = written + 1
  /\ UNCHANGED <<phase, exit, holder, pipe, tasks, final, op, pc, locals,
                 calls, answer, cut>>

HolderExits ==
  /\ holder /\ holder' = FALSE
  /\ UNCHANGED <<phase, exit, written, pipe, tasks, final, op, pc, locals,
                 calls, answer, cut>>

StdoutEnds == Exited(N) /\ ~holder /\ read = written

StderrEnds == AllExited /\ ~holder

-----------------------------------------------------------------------------
Spawn(s) ==
  /\ phase = "spawning"
  /\ exit[s] = "none" /\ \A r \in 1..(s - 1) : exit[r] # "none"
  /\ exit' = [exit EXCEPT ![s] = "running"]
  /\ phase' = IF s = N THEN "live" ELSE phase
  /\ UNCHANGED <<holder, written, pipe, tasks, final, op, pc, locals, calls,
                 answer, cut>>

(* kill_on_drop: whoever drops the children kills those that run.          *)
DropChildren ==
  exit' = [s \in Stages |-> IF exit[s] = "running" THEN "killed" ELSE exit[s]]

SpawnFails ==
  /\ phase = "spawning" /\ phase' = "failed"
  /\ DropChildren
  /\ UNCHANGED <<holder, written, pipe, tasks, final, op, pc, locals, calls,
                 answer, cut>>

DropHandle ==
  /\ phase = "live" /\ pc = "idle" /\ phase' = "dropped"
  /\ DropChildren
  /\ UNCHANGED <<holder, written, pipe, tasks, final, op, pc, locals, calls,
                 answer, cut>>

-----------------------------------------------------------------------------
Answers(kind, state) == answer' = [kind |-> kind, state |-> state]

Return ==
  /\ pc' = "idle" /\ op' = "wait"
  /\ at' = 1 /\ stats' = <<>> /\ err' = "empty" /\ got' = 0

(* A call begins; a cached state is all that the wait operations return.   *)
Begin(o) ==
  /\ phase = "live" /\ pc = "idle" /\ calls < MaxCalls
  /\ calls' = calls + 1
  /\ IF o \in WaitOps /\ final # <<>>
     THEN Answers("outcome", final) /\ UNCHANGED <<op, pc>>
     ELSE op' = o /\ pc' = "stages" /\ UNCHANGED answer
  /\ UNCHANGED <<phase, os, pipe, tasks, final, locals, cut>>

TakeStdout ==
  /\ phase = "live" /\ pc = "idle"
  /\ stdout = "child" /\ stdout' = "caller"
  /\ UNCHANGED <<phase, os, read, tasks, final, op, pc, locals, calls, answer,
                 cut>>

CallerReads ==
  /\ stdout = "caller" /\ read < written
  /\ read' = read + 1
  /\ UNCHANGED <<phase, os, stdout, tasks, final, op, pc, locals, calls,
                 answer, cut>>

\* mutant of KillStage: a stage that has exited ends the loop
KillStageStops ==
  /\ pc = "stages" /\ op = "kill" /\ exit[at] = "running"
  /\ exit' = [exit EXCEPT ![at] = "killed"]
  /\ IF at < N THEN at' = at + 1 /\ UNCHANGED <<op, pc, stats, err, got>>
               ELSE Return
  /\ UNCHANGED <<phase, holder, written, pipe, tasks, final, calls, answer,
                 cut>>

(* tokio's kill and its wait, one stage after another.                     *)
KillStage ==
  /\ pc = "stages" /\ op = "kill"
  /\ exit' = [exit EXCEPT ![at] = IF @ = "running" THEN "killed" ELSE @]
  /\ IF at < N THEN at' = at + 1 /\ UNCHANGED <<op, pc, stats, err, got>>
               ELSE Return
  /\ UNCHANGED <<phase, holder, written, pipe, tasks, final, calls, answer,
                 cut>>

\* mutant of StageDone: the loop over the stages runs once too often
StageDoneOneMore ==
  /\ pc = "stages" /\ op \in WaitOps /\ Exited(at)
  /\ stats' = Append(stats, exit[at])
  /\ IF at <= N THEN at' = at + 1 /\ UNCHANGED pc
                ELSE pc' = "join" /\ UNCHANGED at
  /\ UNCHANGED <<phase, os, pipe, tasks, final, op, err, got, calls, answer,
                 cut>>

StageDone ==
  /\ pc = "stages" /\ op \in WaitOps /\ Exited(at)
  /\ stats' = Append(stats, exit[at])
  /\ IF at < N THEN at' = at + 1 /\ UNCHANGED pc
               ELSE pc' = "join" /\ UNCHANGED at
  /\ UNCHANGED <<phase, os, pipe, tasks, final, op, err, got, calls, answer,
                 cut>>

StageRuns ==
  /\ pc = "stages" /\ op = "try_wait" /\ exit[at] = "running"
  /\ Answers("running", <<>>) /\ Return
  /\ UNCHANGED <<phase, os, pipe, tasks, final, calls, cut>>

WaitFails ==
  /\ pc = "stages" /\ op \in WaitOps
  /\ Answers("error", <<>>) /\ Return
  /\ UNCHANGED <<phase, os, pipe, tasks, final, calls, cut>>

-----------------------------------------------------------------------------
(* finalize.                                                               *)

\* mutant of Store: the state is returned and not kept
StoreNothing(chunks, errors) ==
  /\ UNCHANGED final
  /\ Answers("outcome", <<[statuses |-> stats, stdout |-> chunks,
                           stderr |-> errors]>>)
  /\ Return

Store(chunks, errors) ==
  /\ final' = <<[statuses |-> stats, stdout |-> chunks, stderr |-> errors]>>
  /\ Answers("outcome", final')
  /\ Return

(* drain_stderr_tasks: each task reads to the end; then the pipe of stdout *)
(* is taken, if the child still has it.                                    *)
JoinStderr ==
  /\ pc = "join"
  /\ tasks => StderrEnds
  /\ tasks' = FALSE
  /\ LET errors == IF tasks THEN "all" ELSE "empty" IN
     IF stdout = "child"
     THEN /\ stdout' = "drain" /\ err' = errors /\ pc' = "drain"
          /\ UNCHANGED <<final, op, at, stats, got, answer>>
     ELSE Store(0, errors) /\ UNCHANGED stdout
  /\ UNCHANGED <<phase, os, read, calls, cut>>

\* mutant of Drain: a single read instead of read_to_end
DrainOnce ==
  /\ pc = "drain"
  /\ \/ /\ read < written
        /\ read' = read + 1
        /\ Store(got + 1, err) /\ stdout' = "closed"
     \/ /\ StdoutEnds
        /\ Store(got, err) /\ stdout' = "closed"
        /\ UNCHANGED read
  /\ UNCHANGED <<phase, os, tasks, calls, cut>>

Drain ==
  /\ pc = "drain"
  /\ \/ /\ read < written
        /\ read' = read + 1 /\ got' = got + 1
        /\ UNCHANGED <<stdout, final, answer, op, pc, at, stats, err>>
     \/ /\ StdoutEnds
        /\ Store(got, err) /\ stdout' = "closed"
        /\ UNCHANGED read
  /\ UNCHANGED <<phase, os, tasks, calls, cut>>

(* A future is dropped: the handles of the stderr tasks, the pipe of stdout*)
(* and whatever was read so far go with it.                                *)
DropLocals ==
  /\ tasks' = (tasks /\ pc # "join")
  /\ stdout' = IF pc = "drain" THEN "closed" ELSE stdout
  /\ cut' = (cut \/ pc \in {"join", "drain"})
  /\ Return

(* try_wait does not wait for stages and cannot be dropped there.          *)
DropFuture ==
  /\ pc # "idle" /\ ~(op = "try_wait" /\ pc = "stages")
  /\ DropLocals
  /\ UNCHANGED <<phase, os, read, final, calls, answer>>

Lapse ==
  /\ op = "wait_timeout"
  /\ pc \in {"join", "drain"} \/ (pc = "stages" /\ exit[at] = "running")
  /\ DropLocals
  /\ Answers("running", <<>>)
  /\ UNCHANGED <<phase, os, read, final, calls>>

Proceed == KillStage \/ StageDone \/ StageRuns \/ JoinStderr \/ Drain

Next ==
  \/ \E s \in Stages : Spawn(s) \/ StageExits(s)
  \/ StageWrites \/ HolderExits \/ SpawnFails \/ DropHandle
  \/ \E o \in Ops : Begin(o)
  \/ TakeStdout \/ CallerReads
  \/ Proceed \/ WaitFails \/ DropFuture \/ Lapse

Spec == Init /\ [][Next]_vars

(* The runtime polls the future of the call.                               *)
FairSpec == Spec /\ WF_vars(Proceed)

-----------------------------------------------------------------------------
(* Properties.                                                             *)

(* Once an outcome was returned, every later call returns the same one,    *)
(* whatever was dropped, killed or timed out before (finalize).            *)
Idempotent == [][answer.kind = "outcome" => answer' = answer]_vars

(* The outcome has the whole of stderr and, unless the caller took it, of  *)
(* stdout, if no future was dropped inside finalize; one dropped while it  *)
(* waited for the stages costs nothing (wait, finalize).                   *)
Complete ==
  final # <<>> =>
    /\ final[1].stderr = "all"
    /\ stdout # "caller" => final[1].stdout = written

CompleteUnlessCut == ~cut => Complete

(* kill always gets to its end, and a call on stages that have all exited  *)
(* gets its answer unless a descendant keeps the pipes (kill, wait).       *)
CallsEnd ==
  (pc # "idle" /\ (op = "kill" \/ (AllExited /\ ~holder))) ~> pc = "idle"

-----------------------------------------------------------------------------
(* What the documentation says and the code does not do.                   *)

(* Wait idempotency: it is there for a pending wait that is dropped and    *)
(* another one issued: the outcome still has the captured output.          *)
DroppedWaitLosesNothing == Complete
=============================================================================
