---------------------------- MODULE CollectLines ----------------------------
(***************************************************************************)
(* Cmd::spawn_and_collect_lines: a client of the handle of module Spawned. *)
(* One thread spawns, takes stdout, hands each line of it to a callback    *)
(* and waits, or kills and waits when a line is refused, while its reader  *)
(* still holds the pipe.  The handle is dropped however the call ends.     *)
(*                                                                         *)
(* A line is a chunk of Spawned.  BufReader takes several at a time out of *)
(* the pipe; `passed` counts those the callback was given.  A program that *)
(* reads its stdin to the end has one only if the Cmd's stdin was set:     *)
(* otherwise the pipe stays in the handle, which the caller never sees.    *)
(***************************************************************************)
EXTENDS Spawned

VARIABLES
  fed,     \* the Cmd's stdin was set; fixed
  garbled, \* the line that is not UTF-8, or 0; fixed
  step,    \* where the call is
  passed,  \* how many lines the callback was given
  result   \* what the call returned

client  == <<step, passed, result>>
config  == <<fed, garbled>>
allVars == <<vars, config, client>>

(* The handle is a local variable of the call: one thread uses it.         *)
OneThread == \E t \in Threads : Threads = {t}

me == CHOOSE t \in Threads : TRUE

Steps   == {"spawn", "read", "kill", "reap", "abort", "panic", "wait",
            "ends", "returned"}
Results == {"none", "error", "panic"} \union Exits

CollectTypeOK ==
  /\ TypeOK
  /\ fed \in BOOLEAN /\ garbled \in 0..MaxChunks
  /\ step \in Steps
  /\ passed \in 0..Len(who)
  /\ result \in Results

CollectInit ==
  /\ OneThread
  /\ Init
  /\ fed \in BOOLEAN /\ garbled \in 0..MaxChunks
  /\ step = "spawn" /\ passed = 0 /\ result = "none"

-----------------------------------------------------------------------------
(* The call makes a call on the handle, and has its answer when pc is idle *)
(* again.                                                                  *)
Issue(op) ==
  /\ pc[me] = "idle"
  /\ pc' = [pc EXCEPT ![me] = op]
  /\ UNCHANGED <<phase, os, pipe, cell, locals, calls, answer>>

(* What the call returns is settled, and the locals go out of scope: the   *)
(* reader and, last, the handle.                                           *)
Ends(outcome) ==
  /\ DropHandle
  /\ step' = "ends" /\ result' = outcome
  /\ UNCHANGED <<config, passed>>

SpawnRefused ==
  /\ SpawnFails
  /\ step' = "ends" /\ result' = "error"
  /\ UNCHANGED <<config, passed>>

(* The loop that kills and waits for the stages is done.                   *)
Ended ==
  /\ step = "ends" /\ phase \in {"failed", "dropped"}
  /\ step' = "returned"
  /\ UNCHANGED <<vars, config, passed, result>>

TakesStdout ==
  /\ step = "spawn" /\ phase = "live"
  /\ Issue("take_stdout")
  /\ step' = "read"
  /\ UNCHANGED <<config, passed, result>>

(* BufReader is empty: it reads as much as there is, or blocks.            *)
Fills ==
  /\ step = "read" /\ pc[me] = "idle" /\ taken
  /\ passed = Len(who)
  /\ \E n \in 1..(written - Len(who)) : who' = who \o [i \in 1..n |-> "caller"]
  /\ UNCHANGED <<phase, os, stdout, taken, stdoutBy, cell, thread, answer,
                 config, client>>

Line(next) ==
  /\ step = "read" /\ passed < Len(who)
  /\ step' = next
  /\ UNCHANGED <<vars, config, result>>

(* The callback accepts the line, refuses it or panics.                    *)
Passes ==
  /\ passed + 1 # garbled /\ passed' = passed + 1
  /\ \E next \in {"read", "kill", "panic"} : Line(next)

Garbled ==
  /\ passed + 1 = garbled /\ passed' = passed
  /\ Line("kill")

\* mutant of EndOfLines: the first time nothing is there is taken for the end
EndOfLinesEarly ==
  /\ step = "read" /\ taken /\ passed = Len(who)
  /\ Len(who) = written
  /\ Issue("wait")
  /\ step' = "wait"
  /\ UNCHANGED <<config, passed, result>>

EndOfLines ==
  /\ step = "read" /\ taken /\ passed = Len(who)
  /\ StdoutEnds
  /\ Issue("wait")
  /\ step' = "wait"
  /\ UNCHANGED <<config, passed, result>>

\* mutant of Kills: a refused line is followed by the wait alone
KillsNot ==
  /\ step = "kill"
  /\ Issue("wait")
  /\ step' = "abort"
  /\ UNCHANGED <<config, passed, result>>

Kills ==
  /\ step = "kill"
  /\ Issue("kill")
  /\ step' = "reap"
  /\ UNCHANGED <<config, passed, result>>

(* The wait after the kill; what it answers is ignored.                    *)
Reaps ==
  /\ step = "reap"
  /\ Issue("wait")
  /\ step' = "abort"
  /\ UNCHANGED <<config, passed, result>>

Returns ==
  \/ step = "abort" /\ Ends("error")
  \/ step = "panic" /\ Ends("panic")
  \/ step = "wait"
     /\ Ends(IF answer[me].kind = "outcome" THEN StatusOf(answer[me].state)
                                            ELSE "error")

Caller == TakesStdout \/ Fills \/ Passes \/ Garbled \/ EndOfLines \/ Kills
          \/ Reaps \/ Returns \/ Ended

(* The steps of the handle and of the operating system.                    *)
Handle ==
  /\ Thread(me) \/ WaitFails(me) \/ ClearStage
  /\ UNCHANGED <<config, client>>

System ==
  /\ \/ \E s \in Stages : Spawn(s) \/ StageExits(s)
     \/ StageWrites \/ HolderExits
  /\ UNCHANGED <<config, client>>

CollectNext == Caller \/ Handle \/ System \/ SpawnRefused

(* A willing program ends when its stdin has and nothing it wrote is       *)
(* waiting for room in the pipe.                                           *)
WillingExit(s) ==
  /\ s = 1 => fed
  /\ s = N => written - Len(who) < Capacity
  /\ StageExits(s)
  /\ UNCHANGED <<config, client>>

(* The caller's thread runs and its callback returns.                      *)
CollectFairness ==
  /\ WF_allVars(Caller)
  /\ WF_allVars((Thread(me) \/ ClearStage) /\ UNCHANGED <<config, client>>)

CollectSpec == CollectInit /\ [][CollectNext]_allVars /\ CollectFairness

Willing ==
  /\ \A s \in Stages : WF_allVars(WillingExit(s))
  /\ WF_allVars(HolderExits /\ UNCHANGED <<config, client>>)

-----------------------------------------------------------------------------
(* Properties.                                                             *)

(* The call returns what wait answered only if the callback was given      *)
(* every line the stages ever wrote, none of them garbled; and what wait   *)
(* then drained for itself is nothing, for the reader had it all           *)
(* (spawn_and_collect_lines, take_stdout, drain_remaining_stdout).         *)
EveryLine ==
  result \in Exits =>
    /\ passed = written /\ Len(who) = written
    /\ garbled \notin 1..written
    /\ final[1].stdout = {} /\ \A i \in DOMAIN who : who[i] = "caller"

(* A refused line ends the call although the reader still holds the pipe   *)
(* and the stage may be blocked on it, whatever the programs do, unless a  *)
(* descendant keeps the pipes open.                                        *)
RefusalEnds ==
  step \in {"kill", "reap", "abort"} /\ ~holder ~>
    step = "returned" /\ result = "error"

(* The call never deadlocks with willing programs: it reads before it      *)
(* waits.  Without stdin set a program that reads it to the end has none.  *)
CollectEnds == Willing /\ fed => (phase = "live" ~> step = "returned")
=============================================================================
