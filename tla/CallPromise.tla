---------------------------- MODULE CallPromise ----------------------------
(***************************************************************************)
(* What run and run_async promise the caller (abstract): calls made on     *)
(* clones of one Cmd each begin attempts one after another and return      *)
(* once, or their future is dropped.  The promise is about what a caller   *)
(* can tell: which attempts began, what each was fed, what came back, and  *)
(* what the flag said when it was last read.  Clocks, polls, sleeps and    *)
(* the children are not part of it.  RunLoop implements it.                *)
(***************************************************************************)
EXTENDS Integers, Sequences

CONSTANTS
  Calls,       \* the concurrent calls
  Configs,     \* the configurations a call may have
  Stdins,      \* the kinds of stdin the Cmd may have
  MaxRetries,  \* how many retries a retried call may make
  Never        \* the value of a time bound that is not set

VARIABLES
  stdin,   \* the kind of the shared stdin; fixed
  source,  \* whether a one-shot reader is still "here", or "taken"
  flag,    \* the caller's cancellation flag
  conf,    \* what each call was configured with; fixed
  starts,  \* the attempts each call has begun
  result   \* what each call returned, or has decided to return

vars == <<stdin, source, flag, conf, starts, result>>

Open    == [kind |-> "none", attempts |-> 0]     \* no result yet
Dropped == [kind |-> "dropped", attempts |-> 0]  \* nor ever one

Begun(c) == Len(starts[c])

Limit(c) == IF conf[c].retry THEN MaxRetries + 1 ELSE 1

Stopped(c) == conf[c].cancel /\ flag

BegunStopped(c) == \E i \in DOMAIN starts[c] : starts[c][i].stopped

BegunLate(c) ==
  \E i \in DOMAIN starts[c] : starts[c][i].stopped \/ starts[c][i].overdue

OneShot == stdin \in {"reader", "async_reader"}

Init ==
  /\ stdin \in Stdins /\ source = "here" /\ flag \in BOOLEAN
  /\ conf \in [Calls -> Configs]
  /\ starts = [c \in Calls |-> <<>>]
  /\ result = [c \in Calls |-> Open]

(* An attempt begins: within the budget, and never after one that began    *)
(* under a set flag or past the deadline.  The reader goes to one attempt. *)
Begin(c) ==
  /\ result[c] = Open /\ Begun(c) < Limit(c) /\ ~BegunLate(c)
  /\ \E fed \in {"inherit", "bytes", "reader", "empty"}, overdue \in BOOLEAN :
       /\ fed = "reader" <=> OneShot /\ source = "here"
       /\ fed = "empty" <=> OneShot /\ source = "taken"
       /\ overdue => conf[c].deadline # Never
       /\ starts' = [starts EXCEPT ![c] = Append(@,
            [fed |-> fed, stopped |-> Stopped(c), overdue |-> overdue])]
  /\ source' = IF OneShot THEN "taken" ELSE source
  /\ UNCHANGED <<stdin, flag, conf, result>>

Returns(c, kind, n) ==
  /\ result[c] = Open
  /\ result' = [result EXCEPT ![c] = [kind |-> kind, attempts |-> n]]
  /\ UNCHANGED <<stdin, source, flag, conf, starts>>

(* The last attempt is not retried: the predicate refuses its error, or    *)
(* the budget is spent.                                                    *)
Final(c, kind) ==
  /\ Begun(c) >= 1
  /\ conf[c].retry /\ kind \in conf[c].when => Begun(c) = Limit(c)

(* A call returns what its last attempt ended with: its exit, unless it    *)
(* began under a set flag, or an I/O error, which carries no count.        *)
ReturnExit(c) ==
  \/ \E kind \in {"stale", "failed"} :
       ~BegunStopped(c) /\ Final(c, kind) /\ Returns(c, kind, Begun(c))
  \/ ~BegunStopped(c) /\ Begun(c) >= 1 /\ Returns(c, "ok", Begun(c))
  \/ Final(c, "spawn") /\ Returns(c, "spawn", 1)

(* Cancelled is said only when the flag is set, by the attempt, by the     *)
(* sleep after it, or in place of the next one.                            *)
ReturnCancelled(c) ==
  /\ Stopped(c)
  /\ \/ Begun(c) >= 1 /\ Returns(c, "cancelled", Begun(c))
     \/ Begun(c) < Limit(c) /\ Returns(c, "cancelled", Begun(c) + 1)

(* An attempt that times out did not begin under a set flag.  The flag may *)
(* be set by the time the call returns: the kill and the joins come first. *)
ReturnTimeout(c) ==
  /\ conf[c].timeout # Never \/ conf[c].deadline # Never
  /\ ~BegunStopped(c) /\ Final(c, "timeout")
  /\ Returns(c, "timeout", Begun(c))

(* The next attempt is given up for the deadline.  A retried call decides  *)
(* so while the flag is not set (the one attempt of a call that is not     *)
(* retried looks at the flag before); it returns Timeout either way.       *)
GiveUp(c) ==
  /\ conf[c].deadline # Never /\ Begun(c) < Limit(c)
  /\ conf[c].retry => ~Stopped(c)
  /\ Returns(c, "late", Begun(c) + 1)

ReturnLate(c) ==
  /\ result[c].kind = "late"
  /\ result' = [result EXCEPT ![c] =
                   [kind |-> "timeout", attempts |-> @.attempts]]
  /\ UNCHANGED <<stdin, source, flag, conf, starts>>

(* A stdin that only run_async can feed is refused by run.                 *)
Refuse(c) ==
  /\ conf[c].mode = "sync" /\ stdin = "async_reader" /\ Begun(c) = 0
  /\ Returns(c, "spawn", 1)

(* A future is dropped while its attempt or a sleep is under way.          *)
Drop(c) ==
  /\ conf[c].mode = "async" /\ Begun(c) >= 1 /\ result[c] = Open
  /\ result' = [result EXCEPT ![c] = Dropped]
  /\ UNCHANGED <<stdin, source, flag, conf, starts>>

SetFlag ==
  /\ ~flag /\ flag' = TRUE
  /\ UNCHANGED <<stdin, source, conf, starts, result>>

Next ==
  \/ \E c \in Calls : \/ Begin(c) \/ ReturnExit(c) \/ ReturnCancelled(c)
                      \/ ReturnTimeout(c) \/ GiveUp(c) \/ ReturnLate(c)
                      \/ Refuse(c) \/ Drop(c)
  \/ SetFlag

Spec == Init /\ [][Next]_vars
=============================================================================
