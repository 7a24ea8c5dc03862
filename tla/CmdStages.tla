----------------------------- MODULE CmdStages -----------------------------
(***************************************************************************)
(* What the builder of Cmd promises (abstract): a Cmd is a sequence of     *)
(* stages and the settings of the whole pipeline.  Per-stage builders      *)
(* change the last stage, pipe joins two sequences under the settings of   *)
(* the left one, and what is spawned is that sequence in its order, with   *)
(* the same sequence in its display.  Module Builder implements it.        *)
(***************************************************************************)
EXTENDS Integers, Sequences

CONSTANTS
  Names,    \* the variables of the caller that hold a Cmd
  StageOps, \* what a call on a stage may append
  Knobs     \* the calls that configure the pipeline

VARIABLES
  made,     \* how many commands were made with Cmd::new
  cmds,     \* what each name holds: <<[stages, knobs, secret]>>, or Nothing
  spawned,  \* the stages spawned, once a Cmd was run
  shown     \* ... and what its display shows of them

vars == <<made, cmds, spawned, shown>>

Nothing == <<>>  \* no Cmd: not made yet, or moved

Init ==
  /\ made = 0
  /\ cmds = [n \in Names |-> Nothing]
  /\ spawned = <<>> /\ shown = <<>>

New(n) ==
  /\ cmds[n] = Nothing
  /\ made' = made + 1
  /\ cmds' = [cmds EXCEPT ![n] = <<[stages |-> <<[program |-> made', ops |-> <<>>]>>,
                                    knobs |-> {}, secret |-> FALSE]>>]

Clone(n, m) ==
  /\ cmds[n] # Nothing /\ cmds[m] = Nothing
  /\ cmds' = [cmds EXCEPT ![m] = cmds[n]]
  /\ UNCHANGED made

Pipe(n, m) ==
  /\ n # m /\ cmds[n] # Nothing /\ cmds[m] # Nothing
  /\ cmds' = [cmds EXCEPT
       ![n] = <<[stages |-> cmds[n][1].stages \o cmds[m][1].stages,
                 knobs  |-> cmds[n][1].knobs,
                 secret |-> cmds[n][1].secret \/ cmds[m][1].secret]>>,
       ![m] = Nothing]
  /\ UNCHANGED made

Configure(n) ==
  /\ cmds[n] # Nothing
  /\ \E op \in StageOps :
       cmds' = [cmds EXCEPT ![n][1].stages[Len(cmds[n][1].stages)].ops = Append(@, op)]
  /\ UNCHANGED made

Set(n) ==
  /\ cmds[n] # Nothing
  /\ \/ \E k \in Knobs : cmds' = [cmds EXCEPT ![n][1].knobs = @ \union {k}]
     \/ cmds' = [cmds EXCEPT ![n] = <<[stages |-> cmds[n][1].stages,
                                       knobs  |-> cmds[n][1].knobs,
                                       secret |-> TRUE]>>]
  /\ UNCHANGED made

(* The arguments of a secret pipeline are not shown.                       *)
Show(stages, secret) ==
  [i \in DOMAIN stages |->
     [program |-> stages[i].program,
      ops |-> IF secret THEN <<"secret">> ELSE stages[i].ops]]

Run(n) ==
  /\ cmds[n] # Nothing /\ spawned = <<>>
  /\ spawned' = cmds[n][1].stages
  /\ shown' = Show(cmds[n][1].stages, cmds[n][1].secret)
  /\ cmds' = [cmds EXCEPT ![n] = Nothing]
  /\ UNCHANGED made

Build(n) ==
  /\ \/ New(n) \/ Configure(n) \/ Set(n)
     \/ \E m \in Names : Pipe(n, m) \/ Clone(n, m)
  /\ UNCHANGED <<spawned, shown>>

Next == \E n \in Names : Build(n) \/ Run(n)

Spec == Init /\ [][Next]_vars
=============================================================================
