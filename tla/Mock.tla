-------------------------------- MODULE Mock --------------------------------
(***************************************************************************)
(* MockRunner (testing.rs): a list of expectations behind one Mutex, which *)
(* several threads of the code under test may call at once.                *)
(*                                                                         *)
(* A matcher is the set of commands it accepts; the text of a display and  *)
(* the contents of a result are left out.  The caller's predicates and     *)
(* factories run while the Mutex is held, and may panic there.             *)
(***************************************************************************)
EXTENDS Integers, Sequences, FiniteSets

CONSTANTS
  Threads,         \* the threads that share the runner
  Cmds,            \* the commands they run
  MaxExpectations, \* bound: the expectations registered
  MaxTimes,        \* bound: `times` of expect_repeated
  MaxCalls,        \* bound: the calls each thread makes
  None             \* no thread, no command

ASSUME MockAssumption ==
  /\ MaxExpectations \in Nat /\ MaxTimes \in Nat /\ MaxCalls \in Nat
  /\ None \notin Threads \union Cmds

VARIABLES
  strict,   \* panic_on_no_match; fixed
  exps,     \* the expectations, in the order of their registration
  poisoned, \* a thread panicked while it held the Mutex
  lock,     \* the thread that holds it
  pc,       \* what each thread is doing
  cmd,      \* the command it runs, or None
  at,       \* the expectation it looks at
  calls,    \* how many calls it has made
  answer,   \* what its last call returned
  log       \* history: how each run was decided, in order

mutex  == <<poisoned, lock>>
thread == <<pc, cmd, at>>
vars   == <<strict, exps, mutex, thread, calls, answer, log>>

Responders == {"once", "bounded", "unlimited"}
Answers    == {"none", "result", "no_match", "panic", "ok", "unmet"}
Outcomes   == {"answered", "factory_panics", "matcher_panics", "no_match"}

Expectation == [covers: SUBSET Cmds, responder: Responders,
                times: 0..MaxTimes, left: 0..MaxTimes, calls: Nat]

Entry == [cmd: Cmds, by: Nat, outcome: Outcomes]

TypeOK ==
  /\ strict \in BOOLEAN
  /\ exps \in Seq(Expectation)
  /\ poisoned \in BOOLEAN
  /\ lock \in Threads \union {None}
  /\ pc \in [Threads -> {"idle", "run", "scan", "verify"}]
  /\ cmd \in [Threads -> Cmds \union {None}]
  /\ at \in [Threads -> Nat]
  /\ calls \in [Threads -> 0..MaxCalls]
  /\ answer \in [Threads -> Answers]
  /\ log \in Seq(Entry)
  /\ \A t \in Threads : pc[t] = "scan" =>
       lock = t /\ cmd[t] \in Cmds /\ at[t] \in 1..(Len(exps) + 1)

Init ==
  /\ strict \in BOOLEAN
  /\ exps = <<>>
  /\ poisoned = FALSE /\ lock = None
  /\ pc = [t \in Threads |-> "idle"]
  /\ cmd = [t \in Threads |-> None]
  /\ at = [t \in Threads |-> 0]
  /\ calls = [t \in Threads |-> 0]
  /\ answer = [t \in Threads |-> "none"]
  /\ log = <<>>

-----------------------------------------------------------------------------
\* mutant of Exhausted: a bounded responder stops one short
ExhaustedEarly(e) == e.responder # "unlimited" /\ e.left <= 1 /\ e.times # 1

Exhausted(e) == e.responder # "unlimited" /\ e.left = 0

(* The six methods expect...: they take the runner by value, when no       *)
(* thread uses it; on a poisoned Mutex they panic, and the runner is gone. *)
Push ==
  /\ \A t \in Threads : pc[t] = "idle"
  /\ ~poisoned /\ Len(exps) < MaxExpectations
  /\ \E covers \in SUBSET Cmds, responder \in Responders, times \in 0..MaxTimes :
       /\ responder = "bounded" \/ times = 1
       /\ exps' = Append(exps, [covers |-> covers, responder |-> responder,
                                times |-> times, left |-> times, calls |-> 0])
  /\ UNCHANGED <<strict, mutex, thread, calls, answer, log>>

Call(t) ==
  /\ pc[t] = "idle" /\ calls[t] < MaxCalls
  /\ calls' = [calls EXCEPT ![t] = @ + 1]
  /\ answer' = [answer EXCEPT ![t] = "none"]
  /\ \/ /\ pc' = [pc EXCEPT ![t] = "run"]
        /\ \E c \in Cmds : cmd' = [cmd EXCEPT ![t] = c]
     \/ /\ pc' = [pc EXCEPT ![t] = "verify"]
        /\ UNCHANGED cmd
  /\ UNCHANGED <<strict, exps, mutex, at, log>>

Return(t, a) ==
  /\ pc' = [pc EXCEPT ![t] = "idle"]
  /\ cmd' = [cmd EXCEPT ![t] = None] /\ at' = [at EXCEPT ![t] = 0]
  /\ answer' = [answer EXCEPT ![t] = a]

(* A run is decided: the guard is dropped before it returns or unwinds.    *)
Decide(t, by, outcome, a) ==
  /\ pc[t] = "scan"
  /\ lock' = None
  /\ Return(t, a)
  /\ log' = Append(log, [cmd |-> cmd[t], by |-> by, outcome |-> outcome])
  /\ UNCHANGED <<strict, calls>>

Lock(t) ==
  /\ pc[t] = "run" /\ lock = None
  /\ IF poisoned
     THEN Return(t, "panic") /\ UNCHANGED lock
     ELSE /\ lock' = t
          /\ pc' = [pc EXCEPT ![t] = "scan"] /\ at' = [at EXCEPT ![t] = 1]
          /\ UNCHANGED <<cmd, answer>>
  /\ UNCHANGED <<strict, exps, poisoned, calls, log>>

(* Whether the loop is at an expectation that its matcher is asked about.  *)
Asked(t) ==
  pc[t] = "scan" /\ at[t] \in DOMAIN exps /\ ~Exhausted(exps[at[t]])

Matches(t) == Asked(t) /\ cmd[t] \in exps[at[t]].covers

Skip(t) ==
  /\ pc[t] = "scan" /\ at[t] \in DOMAIN exps /\ ~Matches(t)
  /\ at' = [at EXCEPT ![t] = @ + 1]
  /\ UNCHANGED <<strict, exps, mutex, pc, cmd, calls, answer, log>>

(* Responder::take uses up one of the times before it calls the factory.   *)
Used(e) == IF e.responder = "unlimited" THEN e ELSE [e EXCEPT !.left = @ - 1]

Counted(e) == [e EXCEPT !.calls = @ + 1]

\* mutant of Answer: an answer does not use up the expectation
AnswerForEver(t) ==
  /\ Matches(t)
  /\ exps' = [exps EXCEPT ![at[t]] = Counted(@)]
  /\ Decide(t, at[t], "answered", "result")
  /\ UNCHANGED poisoned

Answer(t) ==
  /\ Matches(t)
  /\ exps' = [exps EXCEPT ![at[t]] = Counted(Used(@))]
  /\ Decide(t, at[t], "answered", "result")
  /\ UNCHANGED poisoned

FactoryPanics(t) ==
  /\ Matches(t) /\ exps[at[t]].responder # "once"
  /\ exps' = [exps EXCEPT ![at[t]] = Used(@)]
  /\ Decide(t, at[t], "factory_panics", "panic")
  /\ poisoned' = TRUE

MatcherPanics(t) ==
  /\ Asked(t)
  /\ Decide(t, at[t], "matcher_panics", "panic")
  /\ poisoned' = TRUE
  /\ UNCHANGED exps

\* mutant of NoMatch: the panic unwinds with the guard alive
NoMatchPoisons(t) ==
  /\ at[t] = Len(exps) + 1
  /\ Decide(t, at[t], "no_match", IF strict THEN "panic" ELSE "no_match")
  /\ poisoned' = strict
  /\ UNCHANGED exps

NoMatch(t) ==
  /\ at[t] = Len(exps) + 1
  /\ Decide(t, at[t], "no_match", IF strict THEN "panic" ELSE "no_match")
  /\ UNCHANGED <<exps, poisoned>>

\* mutant of Unmet: what is not used up is unmet
UnmetIfLeft == {j \in DOMAIN exps : ~Exhausted(exps[j])}

Unmet == {j \in DOMAIN exps : exps[j].calls = 0}

Verify(t) ==
  /\ pc[t] = "verify" /\ lock = None
  /\ Return(t, IF poisoned THEN "panic" ELSE IF Unmet = {} THEN "ok" ELSE "unmet")
  /\ UNCHANGED <<strict, exps, mutex, calls, log>>

Step(t) ==
  Lock(t) \/ Skip(t) \/ Answer(t) \/ FactoryPanics(t) \/ MatcherPanics(t)
  \/ NoMatch(t) \/ Verify(t)

Next == Push \/ \E t \in Threads : Call(t) \/ Step(t)

Spec == Init /\ [][Next]_vars

-----------------------------------------------------------------------------
(* Properties.                                                             *)

(* How many of the first k decisions used up one of j's times.             *)
Uses(j, k) ==
  Cardinality({i \in 1..k : log[i].by = j
                 /\ log[i].outcome \in {"answered", "factory_panics"}})

(* An expectation answers only when every earlier one that accepts the     *)
(* command had been used up its whole number of times by then, in the      *)
(* order in which concurrent runs were decided; a run finds no match only  *)
(* when all of them had; and none answers more often than it was           *)
(* registered for (MockRunner::run, Responder::exhausted, take).           *)
FirstMatchAnswers ==
  /\ \A k \in DOMAIN log : \A j \in 1..(log[k].by - 1) :
       log[k].cmd \in exps[j].covers =>
         exps[j].responder # "unlimited" /\ Uses(j, k - 1) = exps[j].times
  /\ \A j \in DOMAIN exps :
       exps[j].responder # "unlimited" => Uses(j, Len(log)) <= exps[j].times

(* verify says Ok exactly when each expectation answered a run that was    *)
(* decided before it, however few of its times that used up, and panics    *)
(* only after a callback panicked (MockRunner::verify).                    *)
VerifyTells ==
  [][\A t \in Threads : pc[t] = "verify" /\ pc'[t] = "idle" =>
       LET met == {j \in DOMAIN exps : \E k \in DOMAIN log :
                     log[k].by = j /\ log[k].outcome = "answered"} IN
       answer'[t] = IF poisoned THEN "panic"
                    ELSE IF met = DOMAIN exps THEN "ok" ELSE "unmet"]_vars

(* Only a callback that panics under the Mutex poisons it: a run without a *)
(* match, which panics by default, never spoils the runs of other threads  *)
(* or the verify after it (the scope of the guard in run).                 *)
OnlyCallbacksPoison ==
  poisoned => \E k \in DOMAIN log :
                log[k].outcome \in {"factory_panics", "matcher_panics"}
=============================================================================
