# procpilot in TLA+

procpilot is a Rust library that runs external commands: one command or a
pipeline of them, synchronously or on tokio, with retries, timeouts, a
deadline and a cancellation flag, or as a handle to a running process. This
directory models the parts of it that run concurrently, race against a clock,
can be left half done or decide which program runs, checks them with TLC and
proves every safety property with TLAPS. Paths such as `src/cmd.rs` are relative to the
repository.

## The system

| Component | State it keeps | Operations | Hard behaviour |
|---|---|---|---|
| `Cmd::run`, `Cmd::run_async` (`src/cmd.rs`, `src/cmd/async_cmd.rs`, `src/cmd/preflight.rs`, `src/retry.rs`) | attempt number, delays left, deadline, the flag (shared with the caller) | preflight, attempt, retry predicate, backoff sleep | the flag or the deadline passing between a check and its use; a dropped future; what an error counts |
| `SharedStdin` (`src/cmd.rs`, `src/stdin.rs`) | a one-shot reader under a Mutex, shared by retries and clones | `take_for_sync`, `take_for_async` | two attempts that compete for one input |
| One attempt (`execute_single`, `execute_pipeline`, `wait_stages`, `kill_with_grace`, `combine_outcomes`) | the children, the time left, the outcome of each stage | spawn left to right, wait left to right, kill, combine | a spawn that fails half way; timeout, exit and flag at once; a raw signal to a pid; one result for several failures |
| The streams of an attempt (`spawn_stdin_feeder`, `read_to_end`, the joins) | a feeder, a reader for each captured stream | copy, drain, join | full pipes that wait on each other; descendants that keep a pipe open; broken pipes |
| `SpawnedProcess` (`src/spawned.rs`, `src/spawned/read.rs`) | shared children, the stdout state, the stderr threads and the cached outcome, each under a Mutex of its own | `wait`, `try_wait`, `wait_timeout`, `kill`, `Read`, `take_stdout`, `Drop` | several threads in it at once; a read that blocks with a lock held |
| `AsyncSpawnedProcess` (`src/async_spawned.rs`) | children, the pipe of stdout, the stderr tasks, the cached outcome | the same, as futures | a future dropped in the middle of a call |
| `Cmd::spawn_and_collect_lines` (`src/cmd.rs`) | a handle and a reader of its stdout | read lines, kill on an error | lines read ahead; a callback that refuses or panics; kill and wait with the pipe still held |
| `MockRunner` (`src/testing.rs`) | the expectations, under a Mutex | `expect...`, `run`, `verify` | exhausted expectations; runs of several threads; panics under the Mutex |
| Builder and pipe tree (`src/cmd.rs`, `src/cmd_display.rs`) | a tree of stages, the settings of the pipeline | `new`, `pipe`, `clone`, the builders, `flatten`, `flatten_owned`, `display` | the order of the stages; what stays secret |
| Program resolution (`src/cmd/program.rs`) | none; looks at files that others change | `program_command`, `resolve`, `first_runnable`, `probe` | it has to guess what the operating system would run; a file that changes between probe and spawn |
| `RunError`, `Redirection`, `Runner`, `runner.rs` | values without shared state | pure functions, single calls | boundaries of truncation |

A call of `run` takes its stdin from `SharedStdin`, makes attempts until one
succeeds or may not be repeated, and each attempt owns its children, feeder and
readers. `spawn` hands the same children to a `SpawnedProcess` instead, which
leaves all waiting to its callers; `spawn_and_collect_lines` is such a caller
inside the library. Before a stage is spawned its program is looked up on PATH,
and before all of that the builder's tree is flattened. Everything in the library is driven by three
outside parties: the operating system (a child exits when it likes, or never;
its descendants may inherit its pipes), the caller (who sets the flag, drops
futures and makes calls from several threads) and the clock.

What makes each part correct: a call returns once it is cancelled or out of
time; it makes neither more nor fewer attempts than its policy allows and says
truthfully how many; a reader of stdin feeds one attempt; no stage outlives an
attempt; a pipeline's result is that of its rightmost failure; nothing deadlocks
on pipes; captured output is complete; a handle has one outcome, whoever asks
and how often; every byte of stdout has one consumer; a line reader sees every
line; the program that runs is the one the operating system would have run; the
stages run in the order they were piped, and no secret is displayed.

## The modules

| Module | What it models | Read it with |
|---|---|---|
| `CallPromise` | abstract: what a call of `run` or `run_async` promises: which attempts it begins, what each is fed, what it returns | the docs of `Cmd::run` and of its settings |
| `RunLoop` | `run` and `run_async` for any number of concurrent calls on clones of one `Cmd`, one stage per attempt; implements `CallPromise` | `src/cmd.rs` 854-1073, `src/cmd/async_cmd.rs` 37-114 |
| `RunLoopMC` | the configurations of its TLC instances | |
| `RunLoop_proof` | its theorems, and that it implements `CallPromise` | |
| `Pipeline` | one attempt of N stages under either runner | `src/cmd.rs` 1225-1318, 1427-1623 |
| `Pipeline_proof` | its theorems | |
| `CaptureIO` | the pipes of one attempt: feeder, programs, readers, joins | `src/cmd.rs` 1157-1220, 1376-1424, 1549-1573 |
| `CaptureMC` | the attempts of its TLC instances | |
| `CaptureIO_proof` | its theorems | |
| `OneOutcome` | abstract: what a handle promises of `wait`, `try_wait` and `wait_timeout` | the section "Wait idempotency" in `src/spawned.rs` |
| `Spawned` | `SpawnedProcess` used by several threads; implements `OneOutcome` | `src/spawned.rs`, `src/spawned/read.rs` |
| `Spawned_proof` | its theorems, that it implements `OneOutcome`, and the theorems of `CollectLines` | |
| `CollectLines` | `spawn_and_collect_lines`: a client of `Spawned`, composed with it | `src/cmd.rs` 759-806 |
| `AsyncSpawned` | `AsyncSpawnedProcess` and an owner who drops futures | `src/async_spawned.rs` |
| `AsyncSpawned_proof` | its theorems | |
| `Program` | the search on PATH beside that of the operating system, with files that change | `src/cmd/program.rs` |
| `ProgramMC`, `Program_proof` | the files and environments of its TLC instance; its theorems | |
| `Mock` | `MockRunner` used by several threads | `src/testing.rs` |
| `Mock_proof` | its theorems | |
| `CmdStages` | abstract: a `Cmd` is a sequence of stages and the settings of the pipeline | the docs of `Cmd::pipe` and of the builders |
| `Builder` | the tree, its clones and the loops that take it apart; implements `CmdStages` | `src/cmd.rs`, `src/cmd_display.rs` |
| `BuilderMC` | the symmetry of the caller's names | |
| `Builder_proof` | its theorems, and that it implements `CmdStages` | |

`RunLoop`, `Pipeline` and `CaptureIO` are three views of one call, each open
where the others are closed. The loop's attempt is one child whose pipes end
with it; `Pipeline` opens that attempt into its stages, whose output it does not
look at; `CaptureIO` opens the streams, with the waits cut short.

**RunLoop.** `pc[c]` is where a call is: `enter` (the rejection of async readers
and the first preflight), `top` (the head of the retry loop), `take` and `spawn`
(stdin is taken, then the command is spawned), `poll`, `clock`, `probe` and `wait`
(a turn of `wait_single_with_cancel`: the flag, the clock, then the wait, before
which the async loop asks for an exit), `join` (the wait is over, as `over` says;
the kill, the wait that follows it and the joins of the streams are still to
come), `sleep` (`cancellable_sleep`); `once` and `late` are between the flag, the
deadline and the return of a preflight. These are different steps, so the flag and the clock can
change in between: a call may say Timeout although the flag was set after it
was last read. Time is a set of countdowns that one action, `Tick`, decrements
together. The backoff iterator is the number of delays it has left; which delay
comes next is any member of `Delays`. `log` is a history variable: what each
attempt was fed, and whether it began under a set flag or past the deadline.
`Settle` is the place where an outcome is returned or retried. `CallPromise` has
no clock, poll, sleep or child: it says which attempts a call may begin, with
what stdin, and which outcome it may return after them, given the flag as it was
last read, the timeouts and the retries. `KeepsCallPromise` is the refinement.

**Pipeline.** `cur` is the loop variable of the spawn loop, then of
`wait_stages`, then of `combine_outcomes`; `proc[s]` is a process as the runner
sees it: `ok` and `failed` are zombies, `reaped` is gone. `pc` is `return` when
the result is settled, and `DropChildren`, where the children go out of scope,
is the step from there to `done`. `term`, `killed` and `spent` are history
variables.

**CaptureIO.** Pipe 0 is the stdin of stage 1, pipe *s* the stdout of stage *s*,
pipe *N + s* its stderr; a pipe is two counters, chunks written and chunks read.
The programs read, write, block and exit in any order. `holder` is a descendant
that inherited a stage's descriptors.

**Spawned.** A call takes a step wherever it can block or releases a Mutex:
`finalBy` and `stdoutBy` are the owners of the two Mutexes that matter, and
`Finalize` and `LockStdout` take them in the order of `finalize_or_cached`.
`who` remembers which consumer read each chunk of stdout. The Mutex of the
stderr threads is only ever taken with the `finalized` one held. A spawn that
failed half way and `Drop` kill and wait for one stage after another
(`ClearStage`; `gone` is how many are done), while the others go on and exit;
`missed` are the stages whose `try_wait` or `wait` failed in that loop.

**AsyncSpawned.** The futures take `&mut self`, so there is one call at a time;
`DropFuture` may end it at any await, `Lapse` is `tokio::time::timeout` doing
the same to the `wait` inside `wait_timeout`. Both lose the locals of the
future: `cut` remembers that this happened inside `finalize`.

**CollectLines.** One thread, whose program is `step`; each call it makes on the
handle is the action of `Spawned` with the same name, in as many steps. `who`
is what `BufReader` has taken out of the pipe (`Fills` takes any number of
chunks at once) and `passed` what the callback was given, so a line can be in
between. `garbled` is the line `read_line` fails on. `Ends` is the end of the
function's scope, where the handle is dropped, after a panic too, and `Ended`
the return when `Drop` has been through its stages.

**Program.** `files[i]` is what directory *i* of PATH has under the name, as far
as `probe` can tell such things apart; `verdict[i]` is what `exec` makes of it.
Where the code says it cannot know (no known format, a `#!` line too long, a
relative interpreter) the verdict is any of the three. A probe is three steps,
`Metadata`, `Access` and `Read`, and `Change` replaces a file and its verdict
before, between or after any of them. `InheritsPath` is the code's question about
the environment; `ChildPath` is what `apply_to` makes of it. `Elsewhere` is a search in the
child's own environment or a name with a slash, which never reaches PATH.

**Mock.** `lock` is held from `Lock` to the step that decides the run, and the
caller's matchers and factories run in between; a panic there poisons it.
`NoMatch` gives the Mutex back before it panics. `log` is a history variable:
which expectation decided each run, in order.

**Builder.** A name holds a tree of stages: a function from the positions of its
leaves, a position being the way to it from the root, to the stages there.
`Flatten` is one turn of the loop of `flatten` and of `flatten_owned`, with
`stack` as it is in the code, since the order of the two pushes decides the order
of the stages; what the code has on it as references or boxes is a position here.
`CmdStages` has sequences in place of trees and no loop: `BuildsSequence` is the
refinement. A stage remembers whether it was in a `Cmd` when that was marked
secret (`marked`, a history). A stage has one list that calls append to; the code
has several (`args`, `envs`, `env_remove`), each in the order of its calls and
without a word about the order across them, and `apply_to` goes through them one
after another.

## The runs

| Run | Instance | What it shows |
|---|---|---|
| `call` | a call alone: every combination of runner, retry, two predicates, timeout, three deadlines, flag and four kinds of stdin, two retries; or two calls of clones, in two pairs of configurations, that share a one-shot reader | the retry loop: `OnlyLastStartIsLate`, `LateStartIsCancelled`, `AttemptsMatchStarts`, `RetryBudget`; one reader for one attempt, over both calls (`ReaderAccounting`); that each call begins and returns what `CallPromise` allows (`KeepsCallPromise`); that cancelled and bounded calls return |
| `pipeline` | three stages, both runners, timeouts 0, 2 and none, any failure of any step | `NoOrphans`, `PipefailResult`, `SharedTimeout`, `NoSignalToReapedPid`, who gets the grace period (`GraceForTheWaited`); that stopped attempts end |
| `capture` | two stages, every stdin with stdout captured, no stdin with stderr captured, two chunks per stream, pipes of one chunk | `CaptureComplete`, `StoppedEnds`, `NoPipeDeadlock` |
| `handle` | two threads, two calls each, two stages, two chunks | one outcome (`KeepsPromise`), one consumer for each chunk (`StdoutAccounting`), the pipefail status, no stage left by a failed spawn or `Drop` unless a call on it failed (`NoneLeft`), `kill` frees everyone |
| `async_handle` | two stages, three calls, three chunks | one outcome for good, complete unless a future was dropped inside `finalize`; calls end |
| `collect` | two stages, three lines, a pipe of two, any line garbled or refused | `EveryLine`, a refused line ends the call (`RefusalEnds`), and no deadlock with willing programs (`CollectEnds`) |
| `program` | up to three directories, seven files, four environments, one change | `AsTheSystem`, `NonePassedOver` |
| `mock` | two threads with two calls each, two commands, two expectations, any panic of a callback | `FirstMatchAnswers`, `OnlyCallbacksPoison`, `VerifyTells` |
| `builder` | two names (interchangeable), trees of up to four leaves, one call on a stage | the loops come to the stages from left to right (`BuildsSequence`), `SecretsHidden` |
| `backoff`, `stop_returns`, `dropped_wait` | the smallest instance that shows it | a disagreement each, below |

Every property of a passing run has a mutant: a changed definition, such as a
dropped guard or an off-by-one, under which TLC finds the property violated.

**Bounds.** `RunLoop`: two retries let an attempt be the first, a middle one and
the last; a timeout of 1 and a deadline of 2 ticks let either come first, before,
in or after an attempt or a sleep; the counts do not grow beyond. `Pipeline`:
with three stages there is one before, at and after the stage a failure hits; a
timeout of 2 ticks can be spent in one stage or over two. `CaptureIO`: pipes of
one chunk and streams of two are the least that can fill a pipe and block a
writer: the pipes of stdin, between the stages and of stdout do, and that of
stderr in the attempts without stdin; stderr beside a fed stdin is left out of
the instance for its size. `Spawned`: a pipe of two chunks; two threads with two calls each reach
every pair of operations in either order, and a third call only repeats the
cached answer. `AsyncSpawned`: three calls, to have a wait cut short, a `kill`
and another `wait`. `CollectLines`: three lines and a pipe of two let the stage
block while lines are in the reader's buffer. `Program`: three directories have
one before and one after the file that is found; one change can come between any
two steps of a probe, and a second would only add to `touched`. `Mock`: two expectations and two commands make one take
over from another, and two threads compete for the last of its times.
`Builder`: four leaves give every shape of a left, right and nested pipe, and
commands cloned into both sides of one. `MaxCalls`, `MaxChunks`, `Feed`,
`Writes`, `Errors`, `MaxDirs`, `MaxChanges`, `MaxExpectations`, `MaxTimes`,
`MaxStages` and `MaxOps` are bounds of the model; `MaxRetries`, `Timeouts`, `Capacity` and `Grace` are
parameters the code has. Deadlock is not checked where a call that has returned
does nothing more; that nothing is stuck is what the liveness properties say.

**Fairness.** Weak fairness of the library's own threads and tasks: the operating
system or the runtime schedules them, and a blocked one is not enabled. Time
passes (`Tick`). Nothing is assumed of children, descendants, callers, or of a
failing wait, so every liveness property holds against programs that never exit,
except those that say what they need: `NoPipeDeadlock` and `CollectEnds` take
programs that go on when they can (`Willing`), and `StoppedEnds`, `KillFreesAll`
and `RefusalEnds` that no descendant keeps the pipes; what happens to a handle
when one does (`src/spawned.rs:272`) has no property. `RefusalEnds` and
`CollectEnds` end where the call has returned and its handle is dropped. `CollectEnds` also takes a
`Cmd` whose stdin was set: otherwise the pipe of stdin stays in the handle, which
the caller of `spawn_and_collect_lines` never sees, and a program that reads it
to the end waits for ever. A `kill` is taken to succeed. In `CollectLines` the
callback is taken to return or to panic. The call of `RunLoopMC` that is not
made is left out of its fairness (`Made`). `CancelledCallsReturn` and `BoundedCallsReturn` of `RunLoop` have
that premise built in, since its child's pipes end with the child;
`StopReturns` shows what happens without it.

## The proofs

For every value of the constants that satisfies the modules' assumptions (any
set of calls, any retry limit, any number of stages, any timeouts), with no
assumption beyond these:

| Theorem | Says |
|---|---|
| `RunLoop_proof!TypeCorrect` | `TypeOK`; in particular the backoff never yields more than its delays |
| `AttemptsCorrect`, `RetryBudgetCorrect` | the count in an error; the budget is spent to the end and never exceeded |
| `LateStartsCorrect`, `LateStartsCancelled` | only the last attempt can begin late, and then it is reported cancelled |
| `ReaderCorrect` | a one-shot reader feeds one attempt among any number of clones |
| `RunLoop_proof!PromiseKept` | `RunLoop` implements `CallPromise`, for any set of calls and configurations and any retry limit |
| `Pipeline_proof!TypeCorrect` | `TypeOK` for any number of stages |
| `NoOrphansCorrect` | no stage outlives an attempt, whichever step of it failed |
| `PipefailCorrect` | the loop of `combine_outcomes` computes the pipefail rule |
| `SharedTimeoutCorrect` | all stages together are waited for no longer than the timeout |
| `SignalCorrect` | SIGTERM only goes to a stage not yet reaped |
| `GraceCorrect` | a cancellation gives SIGTERM and the grace period to the stage waited for and to no other |
| `CaptureIO_proof!TypeCorrect`, `CaptureCorrect` | an attempt that returns has all of the streams it captured, for any number of stages and any capacity |
| `Spawned_proof!TypeCorrect`, `AccountingCorrect` | each chunk of stdout has one consumer, for any number of threads |
| `NoneLeftCorrect` | a handle that was dropped, or whose spawn failed, leaves no stage but one whose `try_wait` or `wait` failed |
| `StatusCorrect` | an outcome has the status of the rightmost stage that failed: the recursion of `pipefail_status` computes the rule |
| `Spawned_proof!PromiseKept` | `Spawned` implements `OneOutcome`: any number of concurrent waits agree |
| `Spawned_proof!EveryLineCorrect` | of `CollectLines`: an outcome means that the callback had every line |
| `AsyncSpawned_proof!TypeCorrect`, `IdempotentCorrect`, `CompleteCorrect` | one outcome for good, complete unless `finalize` was cut short |
| `Program_proof!SearchCorrect`, `ChangesCorrect` | the program is the system's, for any PATH; changes do no more harm than in its search |
| `Mock_proof!FirstMatchCorrect`, `PoisonCorrect`, `VerifyCorrect` | first match, poisoning and `verify`, for any number of threads and expectations |
| `Builder_proof!SecretsCorrect` | nothing of a stage that was marked secret is displayed, for trees of any shape |
| `Builder_proof!SequenceKept` | `Builder` implements `CmdStages`: the loops with the explicit stack come to the stages in the order they were piped, for trees of any shape |

The retry loop's invariant conjoins `TypeOK` with two facts about each call.
`CountOK` ties together the attempt number, the attempts begun and the delays
left at every `pc` (none of the properties mentions the delays while the call is
under way, so none is inductive alone). `LateOK` says that a late attempt is the
last in the log and where its call may still be. A step of one call leaves the
others in order (`Frame`), so one lemma per action is enough (`OwnStep`). The
reader has an invariant of its own: `source = "taken"` exactly when some attempt
was fed, and then by exactly one.

That the loop keeps `CallPromise` rests on both and on `Terms`: a bound that can
run out was set by the caller, and a call that is not done has no result. A call
that has found its deadline past has decided on Timeout, and the promise keeps
that apart (`GiveUp`, then `ReturnLate`), since the flag counts until there and
not after. Each
step of a call is then one of the promise's or a stutter (`OwnPromise`): a spawn
is its `Begin`, which needs `LateOK` (no attempt was late before) and `CountOK`
(the budget is not spent); a step that settles an attempt is the return the
promise has for that outcome, and needs that the count it reports is the number
of attempts begun.

The pipeline's invariant `IInv` has a part for each question: how many outcomes
are in (`LenOK`), which stages run at each `pc` (`ProcOK`: those spawned and not
yet waited for), what an outcome says about its stage and the flag
(`OutcomeOK`), what `combine_outcomes` has chosen after `cur - 1` outcomes
(`CombineOK`: nothing fails to the right of the choice among those seen), and
that ticks spent and ticks left add up to the timeout (`TimeOK`). `GraceOK` adds
who has been killed or sent SIGTERM at each `pc`. `NoOrphans`
and `PipefailResult` are not inductive without the first four: at the step that
returns they need to know what ran and what was seen before.

`CaptureIO`'s invariant follows the runner through its joins: a reader that was
joined has seen the end of its pipe, and whoever could write to it is gone.

The handle's invariant is about the holders of the two Mutexes. `Place` says what
the locals of a call hold at each of its steps, `Locks` that the places inside
`finalize` and inside a read are those of the owners, `Cell` that while somebody
finalizes nothing is stored and only the one who joined the stderr threads
stores, `Consumers` who may read the pipe in each `StdoutState`, and `Clearing`
what the kill loop has done with the stages it has passed. Neither
`StdoutAccounting` nor the refinement is inductive alone: that a second thread
does not store a second outcome follows from `Cell` and `Locks`, and that every
exit status was collected before an outcome from `Place`. The refinement is
proved step by step: the step that stores is `OneOutcome`'s decision, an answer
of "running" needs a stage that runs, and every other step stutters.

`StatusCorrect` has two parts. `Statuses` carries what each stage ended with from
the waits through the cached outcome to the answers. That `pipefail_status` makes
the rightmost failure of them is a fact about a recursive function, for which
induction over its argument is out of reach here; the proof takes the least
number for which it would go wrong (`LeastNumber`, from the library's theorem
that `<` is well-founded). First it shows in this way that the rule has a status
for each prefix (`RuleHas`), which gives a function that satisfies the recursion
(`PipefailRecursion`); then that any such function keeps to the rule
(`PipefailRule`).

`CollectLines` keeps that same invariant, since its client only makes calls a
thread may make; `Client` adds that at `wait` the pipe is at its end and all of
it was passed on, and that `wait` then has nothing to drain. That its caller is
the only thread in the handle is part of `CollectInit` (`OneThread`).

`AsyncSpawned`'s invariant has the locals of the one call (`Local`), that what
was returned is what is kept (`Kept`), and what `finalize` still needs and has
(`Whole`). `Program`'s says what the probe knows of each directory that has not
changed; one lemma, `ProbeIsRight`, carries the argument that the probe and
`exec` agree wherever the probe is sure; a probe whose steps saw different files
is of a directory that has changed. `Mock`'s ties each expectation's
counters to the log (`Logged`) and says that every expectation the loop has
passed was exhausted or did not match (`Scanning`).

`Builder`'s proof is by listings: a listing of a tree is the sequence of the
positions of its leaves from left to right. `PipeTree` says how a pipe joins two
listings, `RightmostTree` and `MarkedTree` that the other builders keep them,
and `ListingInOrder` that the reference definition, by rank, is the tree read in
the order of a listing. `Unfolding` is the invariant of the loop with the stack:
what has come out is the first part of the listing, the positions on the stack
are above exactly the leaves that have not come out, and a position nearer to the
top is further to the left. Turning over a leaf or a pipe keeps it
(`UnfoldingLeaf`, `UnfoldingPipe`), and with an empty stack it says that the
stages are out in order (`UnfoldingEnds`). The order of the two pushes is what
`UnfoldingPipe` needs. For `SecretsHidden` the invariant adds that a `Cmd` with a
marked stage is secret (`IsCmd`), which `pipe` keeps because it takes the secret
of either side.

Only model-checked is liveness: `CancelledCallsReturn`, `BoundedCallsReturn`,
`StoppedAttemptEnds`, `StoppedEnds`, `NoPipeDeadlock`,
`KillFreesAll`, `CallsEnd`, `RefusalEnds` and `CollectEnds`. It rests on fairness
and ENABLED, which the proof system does not reason about here. Every safety
property that a passing run checks is a theorem.

## Where the code and its documentation disagree

Each is a run that TLC refutes:

- `backoff`: a backoff sleep is not clipped to the deadline, which the README
  says bounds it.
- `stop_returns`: after a timeout `run` joins the feeder and the readers without
  bound.
- `dropped_wait`: a `wait` dropped inside `finalize` loses the captured output
  for the next one, which the section on idempotency recommends.

More that the models follow, without a run of their own:

- `run` without a retry policy spawns a command whose deadline has passed
  (`src/cmd.rs:867` passes no deadline to the preflight); `run_async` does not,
  and `src/cmd/preflight.rs` says neither does.
- `try_wait` is documented as non-blocking (`src/spawned.rs:185`), but joins the
  stderr threads and drains stdout once every stage has exited
  (`src/spawned.rs:272`), and blocks while a descendant has the pipes.
- `attempts == 3` on the default policy does not mean that the budget was consumed
  (`src/error.rs:157`; three delays make four attempts).
- The async polling loop looks at the timeout before it asks for an exit that
  came first (`src/cmd/async_cmd.rs:443`). `LateStartIsCancelled` is about the
  flag; which of an exit and a timeout wins has no property.
- On cancellation only the stage being waited for gets a SIGTERM before SIGKILL
  (`src/cmd.rs:1448`); `GraceForTheWaited` states it.
- The async `wait_timeout` returns `Ok(None)` inside `finalize`, when no stage runs
  any more (`src/async_spawned.rs:172`).
- `Cmd::pipe` says that `secret` of `next` is dropped (`src/cmd.rs:352`); the code
  keeps it, which is the safe side and what `SecretsHidden` needs.

`Program` has three premises where the module's promise, "exactly the program the
OS's own search would run" (`src/cmd/program.rs:8`), needs them: the loader of a
native binary is there and an interpreter that is there can be executed, both in
`ProgramAssumption`; and no `before_spawn` hook changes the PATH of the command after it was made.

## Not modelled

Windows (`TerminateProcess` instead of the grace period; no search on PATH);
Mutexes of the library poisoned by a panic, `MockRunner`'s excepted; the contents
of streams, lines and errors, which are chunks and kinds; `take_stdin` and the
detached feeder of a handle, which touch no other state; the exact lengths of
delays and polls; integer overflow of `attempt_no`, which saturates at 2^32 - 1
attempts.

Truncation to 128 KiB and the quoting of `CmdDisplay` are pure functions of one
string, which property tests and fuzz targets of the repository cover; written in
TLA+ they would be their own transliteration. The contents of a `MockResult` are
copied into a result and touch no state. `Runner`, `DefaultRunner`,
`binary_available` and `binary_version` are one call each; `lib.rs` and
`fuzz_api.rs` re-export. The helper binaries of the tests are what the
environment of the models does.

## Plan

Done, in this order: the retry loop and stdin, the pipeline, the streams, the
sync handle and its promise, the async handle, `spawn_and_collect_lines`, program
resolution, `MockRunner`, the builder and its promise; the promise of a call;
then the proofs of every safety property and of the three refinements.

Left:

1. An abstract specification of an attempt that `Pipeline` implements, and of an
   outcome that may be cut short, for the async handle.
2. Both handles with `take_stdin` and the detached feeder, to say when a program
   that reads its stdin to the end gets one.
3. A bounded check of truncation at character boundaries against a reference.
