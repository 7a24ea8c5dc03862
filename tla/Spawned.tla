------------------------------ MODULE Spawned ------------------------------
(***************************************************************************)
(* SpawnedProcess: the handle of a spawned command or pipeline, shared by  *)
(* reference between threads (spawned.rs, and spawn in cmd.rs).            *)
(*                                                                         *)
(* Each thread makes calls on the handle one after another; a call takes   *)
(* a step wherever it can block or lets go of a lock.  The handle is       *)
(* dropped when no call is under way.                                      *)
(*                                                                         *)
(* The output of the rightmost stage is a series of chunks in a bounded    *)
(* pipe.  A descendant of the stages (holder) may keep the pipes open, and *)
(* write to them, after every stage has exited.  stderr is captured.       *)
(***************************************************************************)
EXTENDS Integers, Sequences

CONSTANTS
  Threads,   \* the threads that share the handle
  N,         \* the number of stages
  MaxChunks, \* bound: the chunks the rightmost stage writes
  Capacity,  \* the chunks that fit into the pipe
  MaxCalls,  \* bound: the calls each thread makes
  None       \* no thread

Stages == 1..N

ASSUME SpawnedAssumption ==
  /\ N \in Nat \ {0}
  /\ MaxChunks \in Nat /\ Capacity \in Nat \ {0} /\ MaxCalls \in Nat
  /\ None \notin Threads

VARIABLES
  phase,    \* "spawning", "live", the kill loop, or how the handle ended
  exit,     \* the status of each stage, or whether it runs
  reaped,   \* the stages whose status was collected
  gone,     \* how many stages the kill loop is done with
  missed,   \* history: the stages that loop had no status of
  holder,   \* a descendant has the write ends of stdout and stderr
  written,  \* how many chunks were written to stdout
  who,      \* who read each chunk out of the pipe, in order
  stdout,   \* StdoutState
  taken,    \* the caller has the ChildStdout
  stdoutBy, \* the thread that holds the stdout Mutex
  stderrTo, \* the thread that joined the stderr threads, if one did
  final,    \* the finalized cell: empty, or the one FinalizedState
  finalBy,  \* the thread that holds the finalized Mutex
  pc,       \* what each thread is doing
  at,       \* the stage it is at
  stats,    \* the statuses it has collected
  calls,    \* how many calls it has made
  answer    \* what its last wait, try_wait or wait_timeout returned

loop    == <<gone, missed>>
os      == <<exit, reaped, loop, holder, written>>
pipe    == <<who, stdout, taken, stdoutBy>>
cell    == <<stderrTo, final, finalBy>>
thread  == <<pc, at, stats, calls>>
locals  == <<at, stats>>
vars    == <<phase, os, pipe, cell, thread, answer>>

Exits   == {"ok", "failed", "killed"}
Readers == {"caller", "read", "finalize"}
WaitOps == {"wait", "try_wait", "wait_timeout"}
Ops     == WaitOps \union {"read", "take_stdout", "kill"}
PCs     == Ops \union {"idle", "finalize", "join", "stdout", "drain", "reading"}
Finals  == [statuses: [Stages -> Exits], stdout: SUBSET (1..MaxChunks),
            stderr: {"all", "empty"}]
Answer  == [kind: {"none", "running", "error", "outcome"}, state: Seq(Finals)]

TypeOK ==
  /\ phase \in {"spawning", "live", "aborting", "dropping", "failed", "dropped"}
  /\ exit \in [Stages -> {"none", "running"} \union Exits]
  /\ reaped \subseteq Stages
  /\ gone \in 0..N /\ missed \subseteq Stages
  /\ holder \in BOOLEAN
  /\ written \in 0..MaxChunks
  /\ who \in Seq(Readers) /\ Len(who) <= written
  /\ stdout \in {"NotTaken", "Cached", "GivenAway"}
  /\ taken \in BOOLEAN
  /\ stdoutBy \in Threads \union {None}
  /\ stderrTo \in Threads \union {None}
  /\ final \in Seq(Finals) /\ Len(final) <= 1
  /\ finalBy \in Threads \union {None}
  /\ pc \in [Threads -> PCs]
  /\ at \in [Threads -> Stages]
  /\ stats \in [Threads -> Seq(Exits)]
  /\ calls \in [Threads -> 0..MaxCalls]
  /\ answer \in [Threads -> Answer]

NoAnswer == [kind |-> "none", state |-> <<>>]

Init ==
  /\ phase = "spawning"
  /\ exit = [s \in Stages |-> "none"]
  /\ reaped = {} /\ gone = 0 /\ missed = {}
  /\ holder \in BOOLEAN
  /\ written = 0
  /\ who = <<>>
  /\ stdout = "NotTaken" /\ taken = FALSE /\ stdoutBy = None
  /\ stderrTo = None /\ final = <<>> /\ finalBy = None
  /\ pc = [t \in Threads |-> "idle"]
  /\ at = [t \in Threads |-> 1]
  /\ stats = [t \in Threads |-> <<>>]
  /\ calls = [t \in Threads |-> 0]
  /\ answer = [t \in Threads |-> NoAnswer]

-----------------------------------------------------------------------------
(* The operating system.                                                   *)

Exited(s) == exit[s] \in Exits

AllExited == \A s \in Stages : Exited(s)

StageExits(s) ==
  /\ exit[s] = "running"
  /\ \E status \in {"ok", "failed"} : exit' = [exit EXCEPT ![s] = status]
  /\ UNCHANGED <<phase, reaped, loop, holder, written, pipe, cell, thread,
                 answer>>

StageWrites ==
  /\ exit[N] = "running" \/ (holder /\ exit[N] # "none")
  /\ written < MaxChunks /\ written - Len(who) < Capacity
  /\ written' = written + 1
  /\ UNCHANGED <<phase, exit, reaped, loop, holder, pipe, cell, thread, answer>>

HolderExits ==
  /\ holder /\ holder' = FALSE
  /\ UNCHANGED <<phase, exit, reaped, loop, written, pipe, cell, thread,
                 answer>>

StdoutEnds == Exited(N) /\ ~holder /\ Len(who) = written

StderrEnds == AllExited /\ ~holder

-----------------------------------------------------------------------------
(* spawn_single_stage, spawn_pipeline_stages.                              *)
Spawn(s) ==
  /\ phase = "spawning"
  /\ exit[s] = "none" /\ \A r \in 1..(s - 1) : exit[r] # "none"
  /\ exit' = [exit EXCEPT ![s] = "running"]
  /\ phase' = IF s = N THEN "live" ELSE phase
  /\ UNCHANGED <<reaped, loop, holder, written, pipe, cell, thread, answer>>

SpawnFails ==
  /\ phase = "spawning"
  /\ phase' = "aborting"
  /\ UNCHANGED <<os, pipe, cell, thread, answer>>

DropHandle ==
  /\ phase = "live" /\ \A t \in Threads : pc[t] = "idle"
  /\ phase' = "dropping"
  /\ UNCHANGED <<os, pipe, cell, thread, answer>>

Killed(s) == [exit EXCEPT ![s] = IF @ = "running" THEN "killed" ELSE @]

(* The stage is killed and waited for, or found to have exited.            *)
Clears(s) ==
  /\ exit' = Killed(s)
  /\ reaped' = IF exit[s] = "none" THEN reaped ELSE reaped \union {s}
  /\ UNCHANGED missed

(* The wait fails; or, in Drop, try_wait did, and the stage is let be.     *)
Misses(s) ==
  /\ exit[s] # "none" /\ s \notin reaped
  /\ exit' = Killed(s) \/ (phase = "dropping" /\ UNCHANGED exit)
  /\ missed' = missed \union {s}
  /\ UNCHANGED reaped

\* mutant of ClearStage: the loop ends with the leftmost stage
ClearStageFirst ==
  /\ phase \in {"aborting", "dropping"}
  /\ LET s == gone + 1 IN
       /\ Clears(s) \/ Misses(s)
       /\ gone' = s
       /\ phase' = IF phase = "aborting" THEN "failed" ELSE "dropped"
  /\ UNCHANGED <<holder, written, pipe, cell, thread, answer>>

(* One turn of the loop of kill_and_wait_shared_children, over the stages  *)
(* that were spawned, or of Drop's.                                        *)
ClearStage ==
  /\ phase \in {"aborting", "dropping"}
  /\ LET s == gone + 1 IN
       /\ Clears(s) \/ Misses(s)
       /\ gone' = s
       /\ phase' = IF s < N THEN phase
                   ELSE IF phase = "aborting" THEN "failed" ELSE "dropped"
  /\ UNCHANGED <<holder, written, pipe, cell, thread, answer>>

-----------------------------------------------------------------------------
(* The calls.                                                              *)
Call(t) ==
  /\ phase = "live" /\ pc[t] = "idle" /\ calls[t] < MaxCalls
  /\ \E o \in Ops : pc' = [pc EXCEPT ![t] = o]
  /\ calls' = [calls EXCEPT ![t] = @ + 1]
  /\ UNCHANGED <<phase, os, pipe, cell, locals, answer>>

Goto(t, label) == pc' = [pc EXCEPT ![t] = label] /\ UNCHANGED locals

(* A call returns, and its local variables are gone.                       *)
Return(t) ==
  /\ pc' = [pc EXCEPT ![t] = "idle"]
  /\ at' = [at EXCEPT ![t] = 1]
  /\ stats' = [stats EXCEPT ![t] = <<>>]

\* mutant of Pipefail: a later success replaces a failure
PipefailLast(statuses) == statuses[Len(statuses)]

(* pipefail_status: the rightmost failure, else the last success.          *)
Pipefail(statuses) ==
  LET chosen[i \in DOMAIN statuses] ==
        IF i = 1 \/ statuses[i] # "ok" \/ chosen[i - 1] = "ok"
        THEN statuses[i] ELSE chosen[i - 1]
  IN  chosen[Len(statuses)]

(* What a call of WaitOps returns.                                         *)
Answers(t, kind, state) ==
  answer' = [answer EXCEPT ![t] = [kind |-> kind, state |-> state]]

(* The status in the outcome that is made of a state (reconstruct).        *)
StatusOf(state) == Pipefail(state[1].statuses)

\* mutant of KillStage: kill waits for the stdout Mutex
KillStageLocking(t) ==
  /\ pc[t] = "kill" /\ stdoutBy = None
  /\ exit' = [exit EXCEPT ![at[t]] = IF @ = "running" THEN "killed" ELSE @]
  /\ IF at[t] < N THEN at' = [at EXCEPT ![t] = @ + 1] /\ UNCHANGED <<pc, stats>>
                  ELSE Return(t)
  /\ UNCHANGED <<phase, reaped, loop, holder, written, pipe, cell, calls,
                 answer>>

(* SharedChild::kill of one stage after another; it spares a reaped stage. *)
KillStage(t) ==
  /\ pc[t] = "kill"
  /\ exit' = [exit EXCEPT ![at[t]] = IF @ = "running" THEN "killed" ELSE @]
  /\ IF at[t] < N THEN at' = [at EXCEPT ![t] = @ + 1] /\ UNCHANGED <<pc, stats>>
                  ELSE Return(t)
  /\ UNCHANGED <<phase, reaped, loop, holder, written, pipe, cell, calls,
                 answer>>

\* mutant of StageDone: the loop over the stages runs once too often
StageDoneOneMore(t) ==
  /\ pc[t] \in WaitOps /\ Exited(at[t])
  /\ reaped' = reaped \union {at[t]}
  /\ stats' = [stats EXCEPT ![t] = Append(@, exit[at[t]])]
  /\ IF at[t] <= N THEN at' = [at EXCEPT ![t] = @ + 1] /\ UNCHANGED pc
                   ELSE pc' = [pc EXCEPT ![t] = "finalize"] /\ UNCHANGED at
  /\ UNCHANGED <<phase, exit, loop, holder, written, pipe, cell, calls, answer>>

(* wait, try_wait and wait_timeout collect the statuses left to right.     *)
StageDone(t) ==
  /\ pc[t] \in WaitOps /\ Exited(at[t])
  /\ reaped' = reaped \union {at[t]}
  /\ stats' = [stats EXCEPT ![t] = Append(@, exit[at[t]])]
  /\ IF at[t] < N THEN at' = [at EXCEPT ![t] = @ + 1] /\ UNCHANGED pc
                  ELSE pc' = [pc EXCEPT ![t] = "finalize"] /\ UNCHANGED at
  /\ UNCHANGED <<phase, exit, loop, holder, written, pipe, cell, calls, answer>>

StageRuns(t) ==
  /\ pc[t] \in {"try_wait", "wait_timeout"}
  /\ exit[at[t]] = "running"
  /\ Answers(t, "running", <<>>)
  /\ Return(t)
  /\ UNCHANGED <<phase, os, pipe, cell, calls>>

WaitFails(t) ==
  /\ pc[t] \in WaitOps
  /\ Answers(t, "error", <<>>)
  /\ Return(t)
  /\ UNCHANGED <<phase, os, pipe, cell, calls>>

-----------------------------------------------------------------------------
(* finalize_or_cached, under the finalized Mutex.                          *)

\* mutant of Finalize: the cache is not looked at again under the Mutex
FinalizeAgain(t) ==
  /\ pc[t] = "finalize" /\ finalBy = None
  /\ finalBy' = t /\ Goto(t, "join")
  /\ UNCHANGED <<phase, os, pipe, stderrTo, final, calls, answer>>

Finalize(t) ==
  /\ pc[t] = "finalize" /\ finalBy = None
  /\ IF final # <<>> THEN /\ Answers(t, "outcome", final)
                          /\ Return(t)
                          /\ UNCHANGED finalBy
                     ELSE /\ finalBy' = t /\ Goto(t, "join")
                          /\ UNCHANGED answer
  /\ UNCHANGED <<phase, os, pipe, stderrTo, final, calls>>

(* join_stderr_threads: they read to the end of stderr, which goes to the  *)
(* first thread that joins them.                                           *)
JoinStderr(t) ==
  /\ pc[t] = "join"
  /\ stderrTo # None \/ StderrEnds
  /\ stderrTo' = IF stderrTo = None THEN t ELSE stderrTo
  /\ Goto(t, "stdout")
  /\ UNCHANGED <<phase, os, pipe, final, finalBy, calls, answer>>

(* FinalizedState is stored and returned, and its Mutex let go of.         *)
Store(t, chunks) ==
  /\ final' = <<[statuses |-> stats[t], stdout |-> chunks,
                 stderr |-> IF stderrTo = t THEN "all" ELSE "empty"]>>
  /\ finalBy' = None
  /\ Answers(t, "outcome", final')
  /\ Return(t)

(* drain_remaining_stdout, under the stdout Mutex as well.                 *)
LockStdout(t) ==
  /\ pc[t] = "stdout" /\ stdoutBy = None
  /\ stdout' = "GivenAway"
  /\ IF stdout = "GivenAway"
     THEN Store(t, {}) /\ UNCHANGED stdoutBy
     ELSE /\ stdoutBy' = t /\ Goto(t, "drain")
          /\ UNCHANGED <<final, finalBy, answer>>
  /\ UNCHANGED <<phase, os, who, taken, stderrTo, calls>>

Drain(t) ==
  /\ pc[t] = "drain"
  /\ \/ /\ Len(who) < written
        /\ who' = Append(who, "finalize")
        /\ UNCHANGED <<stdoutBy, final, finalBy, answer, pc, locals>>
     \/ /\ StdoutEnds
        /\ Store(t, {i \in DOMAIN who : who[i] = "finalize"})
        /\ stdoutBy' = None
        /\ UNCHANGED who
  /\ UNCHANGED <<phase, os, stdout, taken, stderrTo, calls>>

-----------------------------------------------------------------------------
(* Read for &SpawnedProcess: the stdout Mutex is held while read blocks.   *)
ReadLock(t) ==
  /\ pc[t] = "read" /\ stdoutBy = None
  /\ IF stdout = "GivenAway"
     THEN Return(t) /\ UNCHANGED <<stdout, stdoutBy>>
     ELSE stdout' = "Cached" /\ stdoutBy' = t /\ Goto(t, "reading")
  /\ UNCHANGED <<phase, os, who, taken, cell, calls, answer>>

Reading(t) ==
  /\ pc[t] = "reading"
  /\ \/ Len(who) < written /\ who' = Append(who, "read")
     \/ StdoutEnds /\ UNCHANGED who
  /\ stdoutBy' = None
  /\ Return(t)
  /\ UNCHANGED <<phase, os, stdout, taken, cell, calls, answer>>

\* mutant of TakeStdout: a pipe cached by Read is given away too
TakeStdoutTwice(t) ==
  /\ pc[t] = "take_stdout" /\ stdoutBy = None
  /\ stdout' = "GivenAway"
  /\ taken' = (taken \/ stdout # "GivenAway")
  /\ Return(t)
  /\ UNCHANGED <<phase, os, who, stdoutBy, cell, calls, answer>>

TakeStdout(t) ==
  /\ pc[t] = "take_stdout" /\ stdoutBy = None
  /\ stdout' = IF stdout = "NotTaken" THEN "GivenAway" ELSE stdout
  /\ taken' = (taken \/ stdout = "NotTaken")
  /\ Return(t)
  /\ UNCHANGED <<phase, os, who, stdoutBy, cell, calls, answer>>

(* The caller reads the ChildStdout it took.                               *)
CallerReads ==
  /\ taken /\ Len(who) < written
  /\ who' = Append(who, "caller")
  /\ UNCHANGED <<phase, os, stdout, stdoutBy, taken, cell, thread, answer>>

-----------------------------------------------------------------------------
Thread(t) ==
  \/ KillStage(t) \/ StageDone(t) \/ StageRuns(t) \/ Finalize(t)
  \/ JoinStderr(t) \/ LockStdout(t) \/ Drain(t) \/ ReadLock(t) \/ Reading(t)
  \/ TakeStdout(t)

Next ==
  \/ \E s \in Stages : Spawn(s) \/ StageExits(s)
  \/ StageWrites \/ HolderExits \/ SpawnFails \/ DropHandle
  \/ ClearStage \/ CallerReads
  \/ \E t \in Threads : Call(t) \/ Thread(t) \/ WaitFails(t)

(* The threads run.  Nothing is assumed of the stages, of the holder or of *)
(* the caller.                                                             *)
Fairness == \A t \in Threads : WF_vars(Thread(t))

Spec == Init /\ [][Next]_vars

FairSpec == Spec /\ Fairness

-----------------------------------------------------------------------------
(* Properties.                                                             *)

(* The promise (abstract): see module OneOutcome.  The handle implements   *)
(* it: concurrent and repeated waits agree on one outcome, and "running"   *)
(* is said only while a stage runs (finalize_or_cached, try_wait).         *)
Promise == INSTANCE OneOutcome WITH
             Outcomes <- Finals, done <- AllExited, outcome <- final,
             said <- answer

KeepsPromise == Promise!Spec

(* Every chunk of stdout goes to one consumer: take_stdout gives the whole *)
(* of it to the caller, and what Read left over is in the outcome of       *)
(* wait, in order, with none missing (take_stdout, read_via_handle,        *)
(* drain_remaining_stdout).                                                *)
StdoutAccounting ==
  /\ taken => \A i \in DOMAIN who : who[i] = "caller"
  /\ \A i, j \in DOMAIN who : i < j /\ who[i] = "finalize" => who[j] = "finalize"
  /\ final # <<>> =>
       /\ final[1].stderr = "all"
       /\ ~taken => \A i \in 1..written :
                      i \in DOMAIN who /\ (who[i] = "read" \/ i \in final[1].stdout)

(* An outcome carries the status of the rightmost stage that failed, as    *)
(* the stages in fact ended, whoever collected their statuses and however  *)
(* kill came in between (pipefail_status).                                 *)
StatusIsPipefail ==
  \A t \in Threads : answer[t].kind = "outcome" =>
    LET failed == {s \in Stages : exit[s] # "ok"}
        status == StatusOf(answer[t].state) IN
    IF failed = {} THEN status = "ok"
    ELSE \E s \in failed : status = exit[s] /\ \A r \in failed : r <= s

(* When a spawn that failed half way has been cleaned up after, or the     *)
(* handle dropped after any calls, while stages go on and exit: no stage   *)
(* runs but one whose try_wait failed in Drop, and none is a zombie but    *)
(* one whose wait failed (kill_and_wait_shared_children, Drop).            *)
NoneLeft ==
  phase \in {"failed", "dropped"} =>
    \A s \in Stages :
      /\ exit[s] = "running" => phase = "dropped" /\ s \in missed
      /\ exit[s] # "none" => s \in reaped \union missed

(* kill frees everyone: a thread blocked in read, in wait or behind a      *)
(* Mutex gets its answer, unless a descendant keeps the pipes open.        *)
KillFreesAll ==
  \A t \in Threads :
    pc[t] = "kill" /\ ~holder ~> \A u \in Threads : pc[u] = "idle"
=============================================================================
