------------------------------ MODULE Pipeline ------------------------------
(***************************************************************************)
(* One attempt of a pipeline: execute_pipeline, abort_stages, wait_stages, *)
(* kill_with_grace, combine_outcomes, and their async counterparts.        *)
(*                                                                         *)
(* Stages 1..N are spawned left to right and waited for left to right,     *)
(* under one timeout that all the stages share.  A single command is the   *)
(* pipeline of one stage (execute_single).                                 *)
(*                                                                         *)
(* The readers and writers of the stages' output, and the joins of them    *)
(* after the last wait, are left to module CaptureIO; a child here exits   *)
(* when it likes, and is a zombie until the runner reaps it.               *)
(***************************************************************************)
EXTENDS Integers, Sequences

CONSTANTS
  N,        \* the number of stages
  Modes,    \* the runners: a subset of {"sync", "async"}
  Timeouts, \* the timeouts of an attempt, in ticks, or Never
  Grace,    \* ticks from SIGTERM to SIGKILL
  Never     \* no timeout

Stages    == 1..N
Countdown == Nat \union {Never}

ASSUME PipelineAssumption ==
  /\ N \in Nat \ {0}
  /\ Modes \subseteq {"sync", "async"}
  /\ Timeouts \subseteq Countdown
  /\ Grace \in Nat
  /\ Never \notin Nat

VARIABLES
  mode, cancel, timeout,  \* the configuration; fixed
  flag,      \* the caller's AtomicBool
  pc,        \* where the runner is
  cur,       \* the stage being spawned, or waited for
  proc,      \* the stages' processes
  left,      \* ticks left of the timeout
  grace,     \* ticks left of the grace period
  outcomes,  \* per_stage_status
  chosen,    \* combine_outcomes' choice among the outcomes seen so far
  result,    \* what the attempt returned
  term,      \* history: the stages sent SIGTERM
  killed,    \* history: the stages SIGKILL ended
  spent      \* history: ticks spent waiting for stages, see Tick

config == <<mode, cancel, timeout>>
history == <<term, killed, spent>>
combine == <<chosen, result>>
vars == <<config, flag, pc, cur, proc, left, grace, outcomes, combine, history>>

PCs     == {"pipes", "spawn", "poll", "wait", "grace", "combine", "return",
           "done", "dropped"}
Exits   == {"ok", "failed"}
Procs   == {"none", "running", "reaped", "lost"} \union Exits
Outcome == Exits \union {"timeout", "wait_failed", "cancelled"}
Result  == {"none", "spawn_failed"} \union Outcome

TypeOK ==
  /\ mode \in {"sync", "async"} /\ cancel \in BOOLEAN /\ timeout \in Countdown
  /\ flag \in BOOLEAN
  /\ pc \in PCs
  /\ cur \in Stages
  /\ proc \in [Stages -> Procs]
  /\ left \in Countdown
  /\ grace \in Nat
  /\ outcomes \in Seq(Outcome) /\ Len(outcomes) <= N
  /\ chosen \in {"none"} \union Outcome
  /\ result \in Result
  /\ term \subseteq Stages /\ killed \subseteq Stages
  /\ spent \in Nat

Init ==
  /\ mode \in Modes /\ cancel \in BOOLEAN /\ timeout \in Timeouts
  /\ flag \in BOOLEAN
  /\ pc = "pipes"
  /\ cur = 1
  /\ proc = [s \in Stages |-> "none"]
  /\ left = timeout
  /\ grace = 0
  /\ outcomes = <<>>
  /\ chosen = "none"
  /\ result = "none"
  /\ term = {} /\ killed = {}
  /\ spent = 0

-----------------------------------------------------------------------------
IsSet == cancel /\ flag

Running == {s \in Stages : proc[s] = "running"}

(* Child::kill and Child::wait on each stage of S, which reap it; both do  *)
(* nothing to a stage already reaped.                                      *)
KillAndWait(S) ==
  /\ proc' = [s \in Stages |-> IF s \in S /\ proc[s] \notin {"none", "lost"}
                               THEN "reaped" ELSE proc[s]]
  /\ killed' = killed \union (S \intersect Running)

BeginWait == IF cancel THEN "poll" ELSE "wait"

(* An os_pipe::pipe() per pair of stages, before anything is spawned.      *)
MakePipes ==
  /\ pc = "pipes"
  /\ \/ pc' = "spawn" /\ UNCHANGED result
     \/ N > 1 /\ pc' = "done" /\ result' = "spawn_failed"
  /\ UNCHANGED <<config, flag, cur, proc, left, grace, outcomes, chosen,
                 history>>

(* Redirections, hook and spawn of stage cur.  Whatever fails, the stages  *)
(* spawned so far are killed: by abort_stages, or by kill_on_drop.         *)
SpawnStage ==
  /\ pc = "spawn"
  /\ proc' = [proc EXCEPT ![cur] = "running"]
  /\ IF cur < N THEN cur' = cur + 1 /\ UNCHANGED pc
                ELSE cur' = 1 /\ pc' = BeginWait
  /\ UNCHANGED <<config, flag, left, grace, outcomes, combine, history>>

\* mutant of SpawnFails: the error returns without abort_stages
SpawnFailsNoAbort ==
  /\ pc = "spawn"
  /\ pc' = "done" /\ result' = "spawn_failed"
  /\ UNCHANGED <<config, flag, cur, proc, left, grace, outcomes, chosen,
                 history>>

SpawnFails ==
  /\ pc = "spawn"
  /\ KillAndWait(Stages)
  /\ pc' = "done" /\ result' = "spawn_failed"
  /\ UNCHANGED <<config, flag, cur, left, grace, outcomes, chosen, term,
                 spent>>

(* The operating system: a stage exits when it likes, or never.            *)
StageExits(s) ==
  /\ proc[s] = "running"
  /\ \E status \in Exits : proc' = [proc EXCEPT ![s] = status]
  /\ UNCHANGED <<config, flag, pc, cur, left, grace, outcomes, combine,
                 history>>

-----------------------------------------------------------------------------
\* mutant of NextStage: one stage too many
NextStageOffByOne(o) ==
  /\ outcomes' = Append(outcomes, o)
  /\ IF cur <= N THEN cur' = cur + 1 /\ pc' = BeginWait
                 ELSE cur' = 1 /\ pc' = "combine"

(* wait_stages: the outcome of stage cur, then the next stage.             *)
NextStage(o) ==
  /\ outcomes' = Append(outcomes, o)
  /\ IF cur < N THEN cur' = cur + 1 /\ pc' = BeginWait
                ELSE cur' = 1 /\ pc' = "combine"

(* Where wait_single_with_cancel asks for the exit of stage cur; its async *)
(* counterpart with a flag asks at the end of a poll.                      *)
Probing ==
  IF mode = "async" /\ cancel THEN pc = "poll" /\ ~IsSet /\ left # 0
                              ELSE pc = "wait"

\* mutant of SeeExit: every stage gets the whole timeout again
SeeExitFreshTimeout ==
  /\ Probing
  /\ proc[cur] \in Exits
  /\ proc' = [proc EXCEPT ![cur] = "reaped"]
  /\ NextStage(proc[cur])
  /\ left' = timeout
  /\ UNCHANGED <<config, flag, grace, combine, history>>

SeeExit ==
  /\ Probing
  /\ proc[cur] \in Exits
  /\ proc' = [proc EXCEPT ![cur] = "reaped"]
  /\ NextStage(proc[cur])
  /\ UNCHANGED <<config, flag, left, grace, combine, history>>

(* A wait that fails kills the stage, except in the unbounded sync wait    *)
(* and in the async ones, which leave it to the drop of the children.      *)
WaitFails ==
  /\ Probing
  /\ IF mode = "async" THEN UNCHANGED <<proc, killed>>
     ELSE IF ~cancel /\ timeout = Never
     THEN proc' = [proc EXCEPT ![cur] = "lost"] /\ UNCHANGED killed
     ELSE KillAndWait({cur})
  /\ NextStage("wait_failed")
  /\ UNCHANGED <<config, flag, left, grace, combine, term, spent>>

TimeOut ==
  /\ left = 0
  /\ \/ pc = "poll" /\ ~IsSet
     \/ pc = "wait" /\ ~cancel /\ proc[cur] = "running"
  /\ KillAndWait({cur})
  /\ NextStage("timeout")
  /\ UNCHANGED <<config, flag, left, grace, combine, term, spent>>

PollAgain ==
  /\ pc = "poll" /\ ~IsSet /\ left # 0
  /\ mode = "async" => proc[cur] = "running"
  /\ pc' = "wait"
  /\ UNCHANGED <<config, flag, cur, proc, left, grace, outcomes, combine,
                 history>>

Lapse ==
  /\ pc = "wait" /\ cancel
  /\ mode = "sync" => proc[cur] = "running"
  /\ pc' = "poll"
  /\ UNCHANGED <<config, flag, cur, proc, left, grace, outcomes, combine,
                 history>>

-----------------------------------------------------------------------------
\* mutant of Terminate: the other stages are killed before the grace period
TerminateOthersFirst ==
  /\ pc = "poll" /\ IsSet
  /\ pc' = "grace"
  /\ term' = term \union {cur}
  /\ grace' = Grace
  /\ KillAndWait(Stages \ {cur})
  /\ UNCHANGED <<config, flag, cur, left, outcomes, combine, spent>>

(* kill_with_grace: a raw kill(2) with the pid of stage cur, then polls.   *)
Terminate ==
  /\ pc = "poll" /\ IsSet
  /\ pc' = "grace"
  /\ term' = term \union {cur}
  /\ grace' = Grace
  /\ UNCHANGED <<config, flag, cur, proc, left, outcomes, combine, killed,
                 spent>>

\* mutant of CancelStages: the other stages get a SIGTERM by pid as well
CancelByPid ==
  /\ pc = "grace"
  /\ proc[cur] \in Exits \/ grace = 0
  /\ KillAndWait(Stages)
  /\ term' = Stages
  /\ outcomes' = outcomes \o [k \in 1..(N - cur + 1) |-> "cancelled"]
  /\ pc' = "combine" /\ cur' = 1
  /\ UNCHANGED <<config, flag, left, grace, combine, spent>>

\* mutant of CancelStages: no SIGKILL when the grace period is over
CancelPolitely ==
  /\ pc = "grace"
  /\ proc[cur] \in Exits
  /\ KillAndWait(Stages)
  /\ outcomes' = outcomes \o [k \in 1..(N - cur + 1) |-> "cancelled"]
  /\ pc' = "combine" /\ cur' = 1
  /\ UNCHANGED <<config, flag, left, grace, combine, term, spent>>

(* The stage exited within the grace period, or gets SIGKILL at its end;   *)
(* then wait_stages kills every other stage at once.                       *)
CancelStages ==
  /\ pc = "grace"
  /\ proc[cur] \in Exits \/ grace = 0
  /\ KillAndWait(Stages)
  /\ outcomes' = outcomes \o [k \in 1..(N - cur + 1) |-> "cancelled"]
  /\ pc' = "combine" /\ cur' = 1
  /\ UNCHANGED <<config, flag, left, grace, combine, term, spent>>

-----------------------------------------------------------------------------
(* combine_outcomes: Cancelled wins, else the rightmost failure, else the  *)
(* first success; the loop over the outcomes takes a step for each.        *)
\* mutant of Choose: the leftmost failure wins
ChooseLeftmost(o) == IF chosen \in {"none", "ok"} THEN o ELSE chosen

Choose(o) == IF o = "ok" /\ chosen # "none" THEN chosen ELSE o

SomeCancelled == "cancelled" \in {outcomes[i] : i \in DOMAIN outcomes}

CombineCancelled ==
  /\ pc = "combine" /\ SomeCancelled
  /\ pc' = "return" /\ result' = "cancelled"
  /\ UNCHANGED <<config, flag, cur, proc, left, grace, outcomes, chosen,
                 history>>

CombineStage ==
  /\ pc = "combine" /\ ~SomeCancelled
  /\ chosen' = Choose(outcomes[cur])
  /\ IF cur < N THEN cur' = cur + 1 /\ UNCHANGED <<pc, result>>
                ELSE pc' = "return" /\ result' = chosen' /\ UNCHANGED cur
  /\ UNCHANGED <<config, flag, proc, left, grace, outcomes, history>>

(* The attempt returns and its children go out of scope: a tokio child not *)
(* yet reaped is killed by that, a std one is left alone.                  *)
DropChildren ==
  /\ pc = "return" /\ pc' = "done"
  /\ IF mode = "async" THEN KillAndWait(Stages) ELSE UNCHANGED <<proc, killed>>
  /\ UNCHANGED <<config, flag, cur, left, grace, outcomes, combine, term, spent>>

(* An async caller drops the future where it is suspended.                 *)
DropFuture ==
  /\ mode = "async" /\ pc \in {"wait", "grace"}
  /\ pc' = "dropped"
  /\ KillAndWait(Stages)
  /\ UNCHANGED <<config, flag, cur, left, grace, outcomes, combine, term,
                 spent>>

SetFlag ==
  /\ ~flag /\ flag' = TRUE
  /\ UNCHANGED <<config, pc, cur, proc, left, grace, outcomes, combine,
                 history>>

(* Time passes while the runner waits: the timeout runs down while it      *)
(* polls, the grace period after SIGTERM.                                  *)
Tick ==
  \/ /\ pc \in {"poll", "wait"} /\ left # Never /\ left # 0
     /\ left' = left - 1 /\ spent' = spent + 1
     /\ UNCHANGED <<config, flag, pc, cur, proc, grace, outcomes, combine,
                    term, killed>>
  \/ /\ pc = "grace" /\ grace > 0
     /\ grace' = grace - 1
     /\ UNCHANGED <<config, flag, pc, cur, proc, left, outcomes, combine,
                    history>>

Runner ==
  \/ MakePipes \/ SpawnStage \/ SpawnFails \/ SeeExit \/ TimeOut \/ PollAgain
  \/ Lapse \/ Terminate \/ CancelStages \/ CombineCancelled \/ CombineStage
  \/ DropChildren

Next ==
  \/ Runner \/ WaitFails \/ DropFuture \/ SetFlag \/ Tick
  \/ \E s \in Stages : StageExits(s)

Fairness == WF_vars(Runner) /\ WF_vars(Tick)

Spec == Init /\ [][Next]_vars

FairSpec == Spec /\ Fairness

-----------------------------------------------------------------------------
(* Properties.                                                             *)

Over == pc \in {"done", "dropped"}

(* However an attempt ends - a pipe, a hook or a spawn that fails half way,*)
(* a timeout, a cancellation, a wait that fails, a dropped future - no     *)
(* stage outlives it, except one whose unbounded sync wait itself failed   *)
(* (abort_stages, wait_stages, kill_on_drop).                              *)
NoOrphans ==
  /\ Over => \A s \in Stages : proc[s] \in {"none", "reaped", "lost"}
  /\ \A s \in Stages : proc[s] = "lost" => ~cancel /\ timeout = Never

(* A cancellation gives SIGTERM and the grace period to the stage that was *)
(* waited for and to no other: that one and those after it are reported    *)
(* cancelled, those before it never, and while its grace period lasts      *)
(* nobody has killed a stage that was still to be waited for               *)
(* (wait_stages, kill_with_grace).                                         *)
GraceForTheWaited ==
  /\ \A s \in term, i \in DOMAIN outcomes : outcomes[i] = "cancelled" <=> i >= s
  /\ SomeCancelled => term # {}
  /\ pc = "grace" => \A s \in killed : s < cur

(* SIGTERM goes through a raw kill(2): it is never sent to the pid of a    *)
(* stage already reaped, which another process may have by then            *)
(* (kill_with_grace).                                                      *)
NoSignalToReapedPid ==
  [][\A s \in term' \ term : proc[s] \in {"running"} \union Exits]_vars

(* Pipefail: the result is the outcome of the rightmost stage that did not *)
(* succeed, unless a stage was cancelled; it is ok only if every stage     *)
(* exited with success and none was signalled, and cancelled only if the   *)
(* caller asked for it (combine_outcomes).                                 *)
Failed == {i \in DOMAIN outcomes : outcomes[i] # "ok"}

PipefailResult ==
  pc \in {"return", "done"} /\ result # "spawn_failed" =>
    /\ Len(outcomes) = N
    /\ result = "ok" <=> Failed = {}
    /\ result = "ok" => term = {} /\ killed = {}
    /\ result = "cancelled" <=> SomeCancelled
    /\ result = "cancelled" => IsSet
    /\ Failed # {} /\ result # "cancelled" =>
         \E i \in Failed : result = outcomes[i] /\ \A j \in Failed : j <= i

(* The stages share one timeout: together they are waited for no longer    *)
(* than it (wait_stages).                                                  *)
SharedTimeout == timeout # Never => spent <= timeout

(* An attempt with a timeout, or whose flag is set, ends though no stage   *)
(* heeds SIGTERM or ever exits by itself (wait_single_with_cancel).        *)
StoppedAttemptEnds == timeout # Never \/ (cancel /\ flag) ~> Over
=============================================================================
