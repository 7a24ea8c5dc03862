----------------------------- MODULE OneOutcome -----------------------------
(***************************************************************************)
(* What the handle of a spawned process promises of wait, try_wait and     *)
(* wait_timeout (the doc of SpawnedProcess, "Wait idempotency"): there is  *)
(* one outcome, fixed once, which every call that does not fail returns    *)
(* from then on; before it, a call may only say that a stage still runs,   *)
(* and only while one does.                                                *)
(***************************************************************************)
EXTENDS Sequences

CONSTANTS
  Threads,  \* the callers
  Outcomes  \* what a finished process can come to

VARIABLES
  done,     \* every stage has exited
  outcome,  \* empty, or the one outcome
  said      \* what each thread's last call returned

vars == <<done, outcome, said>>

Says(t, kind, state) == said' = [said EXCEPT ![t] = [kind |-> kind, state |-> state]]

Init ==
  /\ done = FALSE
  /\ outcome = <<>>
  /\ said = [t \in Threads |-> [kind |-> "none", state |-> <<>>]]

Exit == ~done /\ done' = TRUE /\ UNCHANGED <<outcome, said>>

(* The first call to finish fixes the outcome and returns it.              *)
Decide(t) ==
  /\ done /\ outcome = <<>>
  /\ \E o \in Outcomes : outcome' = <<o>> /\ Says(t, "outcome", <<o>>)
  /\ UNCHANGED done

SayOutcome(t) ==
  /\ outcome # <<>> /\ Says(t, "outcome", outcome)
  /\ UNCHANGED <<done, outcome>>

SayRunning(t) == ~done /\ Says(t, "running", <<>>) /\ UNCHANGED <<done, outcome>>

SayError(t) == Says(t, "error", <<>>) /\ UNCHANGED <<done, outcome>>

Next ==
  \/ Exit
  \/ \E t \in Threads : Decide(t) \/ SayOutcome(t) \/ SayRunning(t) \/ SayError(t)

Spec == Init /\ [][Next]_vars
=============================================================================
