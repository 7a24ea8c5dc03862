----------------------------- MODULE RunLoopMC -----------------------------
(* Small instances of RunLoop for TLC.                                     *)
EXTENDS RunLoop

CONSTANT Second \* the call that is not made when the other is alone

Call(mode, retry, when, timeout, deadline, cancel) ==
  [mode |-> mode, retry |-> retry, when |-> when, timeout |-> timeout,
   deadline |-> deadline, cancel |-> cancel]

(* The default predicate, and one that accepts every error, Cancelled      *)
(* included.                                                               *)
Predicates == {{"stale"}, ErrorKinds}

(* Every combination of the builder's settings, for one call alone.        *)
SoloConfigs ==
  {Call(m, r, w, t, d, x) :
     m \in {"sync", "async"}, r \in BOOLEAN, w \in Predicates,
     t \in {Never, 1}, d \in {Never, 0, 2}, x \in BOOLEAN}

(* Clones of one Cmd that differ in runner, retry and cancellation.        *)
FirstClones == {Call("sync", TRUE, ErrorKinds, Never, Never, TRUE)}

SecondClones ==
  {Call("sync", FALSE, {}, Never, Never, TRUE),
   Call("async", TRUE, {"stale"}, Never, 1, FALSE)}

(* A call alone under every configuration, or two calls of clones that     *)
(* share a one-shot reader.  The one that is not made stays before Enter.  *)
Unmade == Call("sync", FALSE, {}, Never, Never, FALSE)

AllConfigs == SoloConfigs \union FirstClones \union SecondClones \union {Unmade}

Made(c) == c # Second \/ conf[c] # Unmade

MCInit ==
  /\ Init
  /\ Made(Second) => conf[Second] \in SecondClones /\ OneShot
  /\ \A c \in Calls \ {Second} :
       conf[c] \in IF Made(Second) THEN FirstClones ELSE SoloConfigs

MCNext == Next /\ \A c \in Calls : ~Made(c) => pc'[c] = "enter"

MCFairness ==
  /\ \A c \in Calls : WF_vars(Runner(c) /\ Made(c))
  /\ WF_vars(Tick)

MCSpec == MCInit /\ [][MCNext]_vars /\ MCFairness

(* The configuration in which a sleep outlives the deadline.               *)
DeadlineRetryConfigs == {Call("sync", TRUE, {"stale"}, Never, 2, FALSE)}
=============================================================================
