------------------------------ MODULE RunLoop ------------------------------
(***************************************************************************)
(* Cmd::run and Cmd::run_async: the loop around one command's attempts.    *)
(*                                                                         *)
(* Calls is a set of concurrent calls made on clones of one Cmd.  Clones   *)
(* share the stdin source (SharedStdin) and the cancellation flag; each    *)
(* has its own configuration, clock budgets and attempt.  An attempt is    *)
(* one stage here: module Pipeline opens it up into several stages, and    *)
(* module CaptureIO into the feeder and readers of its pipes, which are    *)
(* taken to end with the child here.                                       *)
(*                                                                         *)
(* Time is a set of countdowns that Tick decrements together: ticks left   *)
(* to the deadline, of the attempt's timeout and of the backoff sleep.     *)
(* Never is the countdown of a bound that is not set.                      *)
(***************************************************************************)
EXTENDS Integers, Sequences

CONSTANTS
  Calls,        \* the concurrent calls
  Configs,      \* the configurations a call may have (records, see Config)
  Stdins,       \* the kinds of stdin the Cmd may have
  MaxRetries,   \* ExponentialBuilder's max_times
  Delays,       \* the backoff delays, in ticks, that jitter may produce
  Never         \* the value of a time bound that is not set

Countdown == Nat \union {Never}

NonZeroKinds == {"stale", "failed"}  \* "stale" is what default_transient retries
ErrorKinds   == NonZeroKinds \union {"spawn", "timeout", "cancelled"}
StdinKinds   == {"none", "bytes", "reader", "async_reader"}

(* What the builder set before the call: `when` is the retry predicate, as *)
(* the set of error kinds it accepts.                                      *)
Config == [mode: {"sync", "async"}, retry: BOOLEAN, when: SUBSET ErrorKinds,
           timeout: Countdown, deadline: Countdown, cancel: BOOLEAN]

ASSUME RunLoopAssumption ==
  /\ Configs \subseteq Config
  /\ Stdins \subseteq StdinKinds
  /\ MaxRetries \in Nat
  /\ Delays \subseteq Nat
  /\ Never \notin Nat

VARIABLES
  stdin,     \* the kind of the shared stdin; fixed
  source,    \* "here" until an attempt takes a one-shot reader out of the Mutex
  flag,      \* the caller's AtomicBool
  conf,      \* each call's configuration; fixed
  pc,        \* where each call is
  attempt,   \* attempt_no, the attempt under way or just over
  backoff,   \* how many delays backoff_iter still holds
  dl,        \* ticks left to the deadline
  budget,    \* ticks left of the attempt's timeout
  left,      \* ticks left of the backoff sleep
  child,     \* the attempt's child process
  over,      \* how the wait for the child has ended, until the attempt has
  result,    \* what the call returned
  log        \* history: the attempts begun, see Start

shared == <<stdin, source, flag>>
vars == <<stdin, source, flag, conf, pc, attempt, backoff, dl, budget, left,
          child, over, result, log>>

PCs    == {"enter", "once", "top", "late", "take", "spawn", "poll", "clock",
           "probe", "wait", "join", "sleep", "done", "dropped"}
Exits  == {"ok"} \union NonZeroKinds
Overs  == {"none", "timeout", "cancelled", "spawn"} \union Exits
Childs == {"none", "running", "reaped", "leaked"} \union Exits
Feeds  == {"inherit", "bytes", "reader", "empty"}
Start  == [fed: Feeds, stopped: BOOLEAN, overdue: BOOLEAN]

NoResult == [kind |-> "none", attempts |-> 0]
Results  == [kind: {"none", "ok"} \union ErrorKinds, attempts: Nat]

TypeOK ==
  /\ stdin \in StdinKinds
  /\ source \in {"here", "taken"}
  /\ flag \in BOOLEAN
  /\ conf \in [Calls -> Config]
  /\ pc \in [Calls -> PCs]
  /\ attempt \in [Calls -> Nat]
  /\ backoff \in [Calls -> 0..MaxRetries]
  /\ dl \in [Calls -> Countdown]
  /\ budget \in [Calls -> Countdown]
  /\ left \in [Calls -> Nat]
  /\ child \in [Calls -> Childs]
  /\ over \in [Calls -> Overs]
  /\ result \in [Calls -> Results]
  /\ log \in [Calls -> Seq(Start)]

Init ==
  /\ stdin \in Stdins
  /\ source = "here"
  /\ flag \in BOOLEAN
  /\ conf \in [Calls -> Configs]
  /\ pc = [c \in Calls |-> "enter"]
  /\ attempt = [c \in Calls |-> 0]
  /\ backoff = [c \in Calls |-> MaxRetries]
  /\ dl = [c \in Calls |-> conf[c].deadline]
  /\ budget = [c \in Calls |-> Never]
  /\ left = [c \in Calls |-> 0]
  /\ child = [c \in Calls |-> "none"]
  /\ over = [c \in Calls |-> "none"]
  /\ result = [c \in Calls |-> NoResult]
  /\ log = [c \in Calls |-> <<>>]

-----------------------------------------------------------------------------
IsSet(c) == conf[c].cancel /\ flag

OneShot == stdin \in {"reader", "async_reader"}

Sooner(a, b) == IF a = Never \/ (b # Never /\ b < a) THEN b ELSE a

\* mutant of PerAttempt: the deadline does not bound an attempt
PerAttemptNoDeadline(c) == conf[c].timeout

PerAttempt(c) == Sooner(conf[c].timeout, dl[c])

Return(c, kind, n) ==
  /\ pc' = [pc EXCEPT ![c] = "done"]
  /\ result' = [result EXCEPT ![c] = [kind |-> kind, attempts |-> n]]

\* mutant of Stamp: with_attempts is forgotten, every error says 1
StampOne(c, kind) == 1

(* RunError::attempts: a Spawn error carries no count and reads as 1.      *)
Stamp(c, kind) == IF kind = "spawn" THEN 1 ELSE attempt[c]

Refused(c) == conf[c].mode = "sync" /\ stdin = "async_reader"

(* The attempt numbered n may start: its bound is fixed.                   *)
Starts(c, n) ==
  /\ pc' = [pc EXCEPT ![c] = "take"]
  /\ attempt' = [attempt EXCEPT ![c] = n]
  /\ budget' = [budget EXCEPT ![c] = PerAttempt(c)]
  /\ UNCHANGED result

(* The deadline has passed: preflight will answer Timeout.                 *)
Overdue(c, n) ==
  /\ pc' = [pc EXCEPT ![c] = "late"]
  /\ attempt' = [attempt EXCEPT ![c] = n]
  /\ UNCHANGED <<budget, result>>

(* The entry of run and run_async, up to the first attempt, the loop, or   *)
(* run_async's second preflight.                                           *)
Enter(c) ==
  /\ pc[c] = "enter"
  /\ \/ /\ Refused(c) \/ IsSet(c)
        /\ Return(c, IF Refused(c) THEN "spawn" ELSE "cancelled", 1)
        /\ UNCHANGED <<attempt, budget>>
     \/ /\ ~Refused(c) /\ ~IsSet(c)
        /\ conf[c].retry \/ conf[c].mode = "async"
        /\ pc' = [pc EXCEPT ![c] = IF conf[c].retry THEN "top" ELSE "once"]
        /\ UNCHANGED <<attempt, budget, result>>
     \/ /\ ~Refused(c) /\ ~IsSet(c)
        /\ ~conf[c].retry /\ conf[c].mode = "sync"
        /\ Starts(c, 1)
  /\ UNCHANGED <<shared, conf, backoff, dl, left, child, over, log>>

(* run_async without a retry policy asks preflight about the deadline      *)
(* after it has asked about the flag.                                      *)
Once(c) ==
  /\ pc[c] = "once"
  /\ IF dl[c] = 0 THEN Overdue(c, 1) ELSE Starts(c, 1)
  /\ UNCHANGED <<shared, conf, backoff, dl, left, child, over, log>>

\* mutant of Top: preflight looks at the flag only
TopNoDeadline(c) ==
  /\ pc[c] = "top"
  /\ \/ /\ IsSet(c)
        /\ attempt' = [attempt EXCEPT ![c] = @ + 1]
        /\ Return(c, "cancelled", attempt[c] + 1)
        /\ UNCHANGED budget
     \/ ~IsSet(c) /\ Starts(c, attempt[c] + 1)
  /\ UNCHANGED <<shared, conf, backoff, dl, left, child, over, log>>

\* mutant of Top: preflight looks at the deadline before the flag
TopDeadlineFirst(c) ==
  /\ pc[c] = "top"
  /\ \/ dl[c] = 0 /\ Overdue(c, attempt[c] + 1)
     \/ /\ IsSet(c) /\ dl[c] # 0
        /\ attempt' = [attempt EXCEPT ![c] = @ + 1]
        /\ Return(c, "cancelled", attempt[c] + 1)
        /\ UNCHANGED budget
     \/ ~IsSet(c) /\ dl[c] # 0 /\ Starts(c, attempt[c] + 1)
  /\ UNCHANGED <<shared, conf, backoff, dl, left, child, over, log>>

(* The top of the retry loop: preflight::check, then the attempt's bound.  *)
(* The code reads the clock and then the flag.  One step stands for both:  *)
(* the flag only goes up, so one that is down was down when the clock was  *)
(* read, and for one that is up the clock does not matter.                 *)
Top(c) ==
  /\ pc[c] = "top"
  /\ \/ /\ IsSet(c)
        /\ attempt' = [attempt EXCEPT ![c] = @ + 1]
        /\ Return(c, "cancelled", attempt[c] + 1)
        /\ UNCHANGED budget
     \/ ~IsSet(c) /\ dl[c] = 0 /\ Overdue(c, attempt[c] + 1)
     \/ ~IsSet(c) /\ dl[c] # 0 /\ Starts(c, attempt[c] + 1)
  /\ UNCHANGED <<shared, conf, backoff, dl, left, child, over, log>>

(* Timeout for the deadline is returned, whatever the flag says by now.    *)
Late(c) ==
  /\ pc[c] = "late"
  /\ Return(c, "timeout", attempt[c])
  /\ UNCHANGED <<shared, conf, attempt, backoff, dl, budget, left, child, over,
                 log>>

(* take_for_sync and take_for_async: bytes are fed to every attempt, a     *)
(* one-shot reader to the first to take it, and an empty stdin to the rest.*)
Feed ==
  IF ~OneShot THEN (IF stdin = "none" THEN "inherit" ELSE "bytes")
  ELSE IF source = "here" THEN "reader" ELSE "empty"

\* mutant of Take: the reader stays in the Mutex
TakeLeavesReader(c) ==
  /\ pc[c] = "take"
  /\ pc' = [pc EXCEPT ![c] = "spawn"]
  /\ log' = [log EXCEPT ![c] = Append(@,
       [fed |-> Feed, stopped |-> IsSet(c), overdue |-> dl[c] = 0])]
  /\ UNCHANGED <<shared, conf, attempt, backoff, dl, budget, left, child, over,
                 result>>

Take(c) ==
  /\ pc[c] = "take"
  /\ pc' = [pc EXCEPT ![c] = "spawn"]
  /\ log' = [log EXCEPT ![c] = Append(@,
       [fed |-> Feed, stopped |-> IsSet(c), overdue |-> dl[c] = 0])]
  /\ source' = IF OneShot THEN "taken" ELSE source
  /\ UNCHANGED <<stdin, flag, conf, attempt, backoff, dl, budget, left, child,
                 over, result>>

(* What the caller of the attempt does with its outcome: return it, or     *)
(* sleep before the next one.                                              *)
Retried(c, kind) ==
  conf[c].retry /\ kind \notin {"ok", "cancelled"} /\ kind \in conf[c].when

\* mutant of Settle: the last delay of the backoff is never used
SettleOneShort(c, kind) ==
  \/ /\ ~Retried(c, kind) \/ backoff[c] <= 1
     /\ Return(c, kind, Stamp(c, kind))
     /\ UNCHANGED <<backoff, left>>
  \/ /\ Retried(c, kind) /\ backoff[c] > 1
     /\ pc' = [pc EXCEPT ![c] = "sleep"]
     /\ backoff' = [backoff EXCEPT ![c] = @ - 1]
     /\ \E d \in Delays : left' = [left EXCEPT ![c] = d]
     /\ UNCHANGED result

Settle(c, kind) ==
  \/ /\ ~Retried(c, kind) \/ backoff[c] = 0
     /\ Return(c, kind, Stamp(c, kind))
     /\ UNCHANGED <<backoff, left>>
  \/ /\ Retried(c, kind) /\ backoff[c] > 0
     /\ pc' = [pc EXCEPT ![c] = "sleep"]
     /\ backoff' = [backoff EXCEPT ![c] = @ - 1]
     /\ \E d \in Delays : left' = [left EXCEPT ![c] = d]
     /\ UNCHANGED result

(* Redirection, the before_spawn hook and the spawn itself; each may fail. *)
Spawn(c) ==
  /\ pc[c] = "spawn"
  /\ \/ /\ child' = [child EXCEPT ![c] = "running"]
        /\ pc' = [pc EXCEPT ![c] = IF conf[c].cancel THEN "poll" ELSE "wait"]
        /\ UNCHANGED <<backoff, left, result>>
     \/ /\ Settle(c, "spawn")
        /\ child' = [child EXCEPT ![c] = "none"]
  /\ UNCHANGED <<shared, conf, attempt, dl, budget, over, log>>

(* The operating system: a child exits when it likes, or never.            *)
ChildExit(c) ==
  /\ child[c] = "running"
  /\ \E status \in Exits : child' = [child EXCEPT ![c] = status]
  /\ UNCHANGED <<shared, conf, pc, attempt, backoff, dl, budget, left, over,
                 result, log>>

-----------------------------------------------------------------------------
(* wait_single_with_cancel and its async counterpart.  A turn of the       *)
(* polling loop reads the flag ("poll"), then the clock ("clock"), and     *)
(* then waits ("wait"), or probes and sleeps in the async one; the flag,   *)
(* the clock and the child may change between any two of these.            *)

Goto(c, place) ==
  /\ pc' = [pc EXCEPT ![c] = place]
  /\ UNCHANGED <<shared, conf, attempt, backoff, dl, budget, left, child, over,
                 result, log>>

(* The wait for the child has ended as `kind` says.                        *)
EndWait(c, kind) ==
  /\ pc' = [pc EXCEPT ![c] = "join"]
  /\ over' = [over EXCEPT ![c] = kind]
  /\ UNCHANGED <<shared, conf, attempt, backoff, dl, budget, left, child, result,
                 log>>

(* Where the runner asks the system for the exit: the async loop with a    *)
(* cancel flag does it with try_wait, before it sleeps.                    *)
Probing(c) ==
  pc[c] = IF conf[c].mode = "async" /\ conf[c].cancel THEN "probe" ELSE "wait"

SeeExit(c) ==
  Probing(c) /\ child[c] \in Exits /\ EndWait(c, child[c])

(* A wait that fails is Outcome::WaitFailed, a Spawn error.                *)
WaitFails(c) == Probing(c) /\ EndWait(c, "spawn")

PollCancelled(c) == pc[c] = "poll" /\ IsSet(c) /\ EndWait(c, "cancelled")

PollClock(c) == pc[c] = "poll" /\ ~IsSet(c) /\ Goto(c, "clock")

\* mutant of PollTimedOut: the timeout is looked at before the flag
PollTimeoutFirst(c) ==
  pc[c] \in {"poll", "clock"} /\ budget[c] = 0 /\ EndWait(c, "timeout")

PollTimedOut(c) == pc[c] = "clock" /\ budget[c] = 0 /\ EndWait(c, "timeout")

PollAgain(c) ==
  /\ pc[c] = "clock" /\ budget[c] # 0
  /\ Goto(c, IF conf[c].mode = "async" THEN "probe" ELSE "wait")

(* try_wait says that the child still runs, and the async loop sleeps.     *)
ProbeRuns(c) == pc[c] = "probe" /\ child[c] = "running" /\ Goto(c, "wait")

(* A poll interval ends: wait_timeout says the child still runs, while the *)
(* async loop has only slept.                                              *)
Lapse(c) ==
  /\ pc[c] = "wait" /\ conf[c].cancel
  /\ conf[c].mode = "sync" => child[c] = "running"
  /\ Goto(c, "poll")

(* Without a flag one wait is bounded by the timeout.                      *)
Expire(c) ==
  /\ pc[c] = "wait" /\ ~conf[c].cancel
  /\ budget[c] = 0 /\ child[c] = "running"
  /\ EndWait(c, "timeout")

(* The unbounded sync wait does not kill when it fails; all others do, or  *)
(* a tokio child is killed when it is dropped.                             *)
Fate(c) ==
  IF /\ over[c] = "spawn" /\ conf[c].mode = "sync"
     /\ ~conf[c].cancel /\ budget[c] = Never
  THEN "leaked" ELSE "reaped"

\* mutant of Finish: SIGTERM without the SIGKILL after the grace
FinishTerminated(c) ==
  /\ pc[c] = "join"
  /\ over[c] = "cancelled" => child[c] \in Exits
  /\ Settle(c, over[c])
  /\ child' = [child EXCEPT ![c] = Fate(c)]
  /\ over' = [over EXCEPT ![c] = "none"]
  /\ UNCHANGED <<shared, conf, attempt, dl, budget, log>>

(* The kill and the wait that go with a timeout or a cancellation, the     *)
(* joins of the feeder and the readers, and the result of the attempt.     *)
(* The flag may have been set since the wait ended: nobody asks again.     *)
Finish(c) ==
  /\ pc[c] = "join"
  /\ Settle(c, over[c])
  /\ child' = [child EXCEPT ![c] = Fate(c)]
  /\ over' = [over EXCEPT ![c] = "none"]
  /\ UNCHANGED <<shared, conf, attempt, dl, budget, log>>

-----------------------------------------------------------------------------
(* cancellable_sleep ends early when the flag is set.                      *)
Wake(c) ==
  /\ pc[c] = "sleep"
  /\ \/ /\ IsSet(c)
        /\ Return(c, "cancelled", attempt[c])
     \/ /\ ~IsSet(c) /\ left[c] = 0
        /\ pc' = [pc EXCEPT ![c] = "top"]
        /\ UNCHANGED result
  /\ UNCHANGED <<shared, conf, attempt, backoff, dl, budget, left, child, over,
                 log>>

(* An async caller may drop the future wherever it is suspended; the child *)
(* is killed because kill_on_drop is set.                                  *)
DropFuture(c) ==
  /\ conf[c].mode = "async" /\ pc[c] \in {"wait", "join", "sleep"}
  /\ pc' = [pc EXCEPT ![c] = "dropped"]
  /\ child' = [child EXCEPT ![c] = IF pc[c] = "sleep" THEN @ ELSE "reaped"]
  /\ over' = [over EXCEPT ![c] = "none"]
  /\ UNCHANGED <<shared, conf, attempt, backoff, dl, budget, left, result, log>>

(* The caller sets the flag, at any time.                                  *)
SetFlag ==
  /\ ~flag /\ flag' = TRUE
  /\ UNCHANGED <<stdin, source, conf, pc, attempt, backoff, dl, budget, left,
                 child, over, result, log>>

Less(n) == IF n = Never \/ n = 0 THEN n ELSE n - 1

Timed(c) == pc[c] \in {"poll", "clock", "probe", "wait"}

Tick ==
  /\ dl' = [c \in Calls |-> Less(dl[c])]
  /\ budget' = [c \in Calls |-> IF Timed(c) THEN Less(budget[c]) ELSE budget[c]]
  /\ left' = [c \in Calls |-> Less(left[c])]
  /\ <<dl, budget, left>>' # <<dl, budget, left>>
  /\ UNCHANGED <<shared, conf, pc, attempt, backoff, child, over, result, log>>

Waiting(c) ==
  \/ SeeExit(c) \/ PollCancelled(c) \/ PollClock(c) \/ PollTimedOut(c)
  \/ PollAgain(c) \/ ProbeRuns(c) \/ Lapse(c) \/ Expire(c)

Runner(c) ==
  \/ Enter(c) \/ Once(c) \/ Top(c) \/ Late(c) \/ Take(c) \/ Spawn(c)
  \/ Waiting(c) \/ Finish(c) \/ Wake(c)

Environment(c) == ChildExit(c) \/ WaitFails(c) \/ DropFuture(c)

Next ==
  \/ \E c \in Calls : Runner(c) \/ Environment(c)
  \/ SetFlag
  \/ Tick

(* The runner's thread or task is scheduled and time passes.  Nothing is   *)
(* assumed of the child, of the caller or of the flag.                     *)
Fairness ==
  /\ \A c \in Calls : WF_vars(Runner(c))
  /\ WF_vars(Tick)

Spec == Init /\ [][Next]_vars

FairSpec == Spec /\ Fairness
-----------------------------------------------------------------------------
(* Properties.                                                             *)

(* The one-shot reader feeds at most one attempt, whichever call or retry  *)
(* it belongs to, it is gone from the Mutex exactly when it has fed one,   *)
(* and an attempt finds the Mutex empty only after another was fed: a call *)
(* that preflight stops never costs a clone its input                      *)
(* (SharedStdin::take_for_sync, take_for_async).                           *)
Fed(c, i) == i \in DOMAIN log[c] /\ log[c][i].fed = "reader"

ReaderAccounting ==
  /\ \A c, d \in Calls : \A i \in DOMAIN log[c], j \in DOMAIN log[d] :
        Fed(c, i) /\ Fed(d, j) => c = d /\ i = j
  /\ source = "taken" <=> \E c \in Calls : \E i \in DOMAIN log[c] : Fed(c, i)
  /\ \A c \in Calls : \A i \in DOMAIN log[c] :
        log[c][i].fed = "empty" => source = "taken"

(* Only the last attempt of a call can have begun after the flag was set,  *)
(* or after the deadline of a retried call: the window between preflight   *)
(* and the spawn lets one through and no more (run_with_retry, run_async). *)
OnlyLastStartIsLate ==
  \A c \in Calls : \A i \in DOMAIN log[c] :
    i < Len(log[c]) => ~log[c][i].stopped /\ ~log[c][i].overdue

(* A call whose attempt began under a set flag reports the cancellation,   *)
(* never the exit or the timeout of that attempt; only the spawn or the    *)
(* wait itself may fail first (the flag is what the wait loop reads first).*)
LateStartIsCancelled ==
  \A c \in Calls : pc[c] = "done" =>
    \A i \in DOMAIN log[c] :
      log[c][i].stopped => result[c].kind \in {"cancelled", "spawn"}

(* The count an error carries is the number of attempts begun, or one more *)
(* when preflight stopped the next one; an exit always carries its own     *)
(* attempt's number (with_attempts, preflight::check).                     *)
AttemptsMatchStarts ==
  \A c \in Calls :
    pc[c] = "done" /\ result[c].kind \notin {"ok", "spawn"} =>
      \/ result[c].attempts = Len(log[c]) /\ log[c] # <<>>
      \/ /\ result[c].attempts = Len(log[c]) + 1
         /\ result[c].kind \in {"cancelled", "timeout"}

(* The retry budget is spent to the end and never exceeded: an error the   *)
(* predicate accepts is returned only after MaxRetries + 1 attempts.       *)
RetryBudget ==
  \A c \in Calls :
    /\ Len(log[c]) <= (IF conf[c].retry THEN MaxRetries ELSE 0) + 1
    /\ pc[c] = "done" /\ result[c].kind \in NonZeroKinds
         /\ Retried(c, result[c].kind) => Len(log[c]) = MaxRetries + 1

(* Once the flag is set the call returns, even if its child ignores it for *)
(* ever: in flight, in a backoff sleep or before it started.  (That nobody *)
(* else holds the child's pipes is a premise: CaptureIO, StopReturns.)     *)
Over(c) == pc[c] \in {"done", "dropped"}

CancelledCallsReturn == \A c \in Calls : conf[c].cancel /\ flag ~> Over(c)

(* A call with a timeout or a deadline returns although no child exits.    *)
BoundedCallsReturn ==
  \A c \in Calls :
    conf[c].timeout # Never \/ conf[c].deadline # Never ~> Over(c)

(* The promise (abstract): see module CallPromise.  The loop implements    *)
(* it: whatever the clocks, the flag and the other clones do, the attempts *)
(* begin within the budget and in order, nothing begins after the result,  *)
(* and the result agrees with the attempts and with the flag as it was     *)
(* last read (run_with_retry, run_async, wait_single_with_cancel).         *)
Outcome ==
  [c \in Calls |->
     IF pc[c] = "dropped" THEN [kind |-> "dropped", attempts |-> 0]
     ELSE IF pc[c] = "late" THEN [kind |-> "late", attempts |-> attempt[c]]
     ELSE result[c]]

Promise == INSTANCE CallPromise WITH starts <- log, result <- Outcome

KeepsCallPromise == Promise!Spec

-----------------------------------------------------------------------------
(* What the documentation says and the code does not do.                   *)

(* README: the deadline bounds the whole operation, including the retry    *)
(* backoff sleeps.                                                         *)
SleepsEndByDeadline ==
  \A c \in Calls : pc[c] = "sleep" /\ dl[c] # Never => left[c] <= dl[c]
=============================================================================
