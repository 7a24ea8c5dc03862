------------------------------ MODULE Builder ------------------------------
(***************************************************************************)
(* Cmd and CmdTree (cmd.rs): the caller builds a tree of pipes, and run or *)
(* spawn takes it apart again with an explicit stack, once for the display *)
(* (flatten) and once for the stages (flatten_owned).                      *)
(*                                                                         *)
(* A tree is a function from the positions of its leaves to their stages:  *)
(* a position is the way from the root, and the boxes and references of    *)
(* the code are positions.  Of a stage's own settings there is one, a list *)
(* that calls append to in their order: args, envs and env_remove are such *)
(* lists, each with a field of its own, and meet only in apply_to.  What a *)
(* knob of the pipeline is set to is left out, secret apart.               *)
(***************************************************************************)
EXTENDS Integers, Sequences, FiniteSets

CONSTANTS
  Names,     \* the variables of the caller that hold a Cmd
  StageOps,  \* what a call on a stage may append, such as an argument
  Knobs,     \* stdin, stdout, stderr, timeout, deadline, retry, cancel, ...
  MaxStages, \* bound: the commands made, and the stages of one Cmd
  MaxOps     \* bound: the calls made on stages

ASSUME BuilderAssumption == MaxStages \in Nat /\ MaxOps \in Nat

VARIABLES
  made,   \* how many commands were made with Cmd::new
  nops,   \* how many appending calls were made on stages
  cmds,   \* what each name holds: <<[tree, knobs, secret]>>, or Nothing
  phase,  \* "building", "display", "stages" or "spawned"
  stack,  \* the stack of flatten and flatten_owned: positions in the tree
  out,    \* the stages they have come to
  shown,  \* the stages of the CmdDisplay
  run     \* the name whose Cmd is run, or Nothing

loop == <<phase, stack, out, shown, run>>
vars == <<made, nops, cmds, loop>>

Nothing == <<>>  \* no Cmd: not made yet, or moved

Single(s) == [p \in {<<>>} |-> s]

PipeOf(l, r) ==
  [p \in {<<"left">> \o q : q \in DOMAIN l} \union {<<"right">> \o q : q \in DOMAIN r} |->
     IF Head(p) = "left" THEN l[Tail(p)] ELSE r[Tail(p)]]

Leaves(tree) == Cardinality(DOMAIN tree)

(* A leaf is before another if it is on the left where their ways part.    *)
Before(p, q) ==
  \E k \in DOMAIN p : /\ p[k] = "left" /\ k \in DOMAIN q /\ q[k] = "right"
                     /\ \A j \in 1..(k - 1) : p[j] = q[j]

(* The stages of a tree from left to right: the reference for both loops.  *)
InOrder(tree) ==
  [i \in 1..Leaves(tree) |->
     tree[CHOOSE p \in DOMAIN tree :
            Cardinality({q \in DOMAIN tree : Before(q, p)}) = i - 1]]

Init ==
  /\ made = 0 /\ nops = 0
  /\ cmds = [n \in Names |-> Nothing]
  /\ phase = "building"
  /\ stack = <<>> /\ out = <<>> /\ shown = <<>> /\ run = Nothing

-----------------------------------------------------------------------------
(* The builder.                                                            *)
Holds(n) == phase = "building" /\ cmds[n] # Nothing

New(n) ==
  /\ phase = "building" /\ cmds[n] = Nothing /\ made < MaxStages
  /\ made' = made + 1
  /\ cmds' = [cmds EXCEPT ![n] =
       <<[tree |-> Single([program |-> made', ops |-> <<>>, marked |-> FALSE]),
          knobs |-> {}, secret |-> FALSE]>>]
  /\ UNCHANGED <<nops, loop>>

(* derive(Clone): a Cmd is copied, its tree included.                      *)
Clone(n, m) ==
  /\ Holds(n) /\ cmds[m] = Nothing
  /\ cmds' = [cmds EXCEPT ![m] = cmds[n]]
  /\ UNCHANGED <<made, nops, loop>>

\* mutant of Piped: the secret of the right side is dropped with its settings
PipedLeft(a, b) ==
  [tree |-> PipeOf(a.tree, b.tree), knobs |-> a.knobs, secret |-> a.secret]

(* Cmd::pipe, of two Cmds.                                                 *)
Piped(a, b) ==
  [tree |-> PipeOf(a.tree, b.tree), knobs |-> a.knobs,
   secret |-> a.secret \/ b.secret]

Pipe(n, m) ==
  /\ Holds(n) /\ Holds(m) /\ n # m
  /\ Leaves(cmds[n][1].tree) + Leaves(cmds[m][1].tree) <= MaxStages
  /\ cmds' = [cmds EXCEPT ![n] = <<Piped(cmds[n][1], cmds[m][1])>>, ![m] = Nothing]
  /\ UNCHANGED <<made, nops, loop>>

(* rightmost_mut: the leaf that is on the right all the way, and the       *)
(* change made through it.                                                 *)
Rightmost(tree) == CHOOSE p \in DOMAIN tree : \A k \in DOMAIN p : p[k] = "right"

OnRightmost(tree, op) == [tree EXCEPT ![Rightmost(tree)].ops = Append(@, op)]

Configure(n) ==
  /\ Holds(n) /\ nops < MaxOps /\ nops' = nops + 1
  /\ \E op \in StageOps :
       cmds' = [cmds EXCEPT ![n][1].tree = OnRightmost(@, op)]
  /\ UNCHANGED <<made, loop>>

(* Cmd::secret.  A history of it is kept in the stages of that time.       *)
Marked(tree) == [p \in DOMAIN tree |-> [tree[p] EXCEPT !.marked = TRUE]]

Secret(c) == [tree |-> Marked(c.tree), knobs |-> c.knobs, secret |-> TRUE]

Set(n) ==
  /\ Holds(n)
  /\ \/ \E k \in Knobs \ cmds[n][1].knobs :
          cmds' = [cmds EXCEPT ![n][1].knobs = @ \union {k}]
     \/ ~cmds[n][1].secret /\ cmds' = [cmds EXCEPT ![n] = <<Secret(cmds[n][1])>>]
  /\ UNCHANGED <<made, nops, loop>>

-----------------------------------------------------------------------------
(* run, run_async, spawn, spawn_async: the display first, then the stages. *)
Run(n) ==
  /\ Holds(n)
  /\ run' = n
  /\ stack' = <<<<>>>>
  /\ phase' = "display"
  /\ UNCHANGED <<made, nops, cmds, out, shown>>

Tree == cmds[run][1].tree

Top == stack[Len(stack)]

Popped == SubSeq(stack, 1, Len(stack) - 1)

\* mutant of Flatten: left is pushed first, and so comes out last
FlattenRightFirst ==
  /\ phase \in {"display", "stages"} /\ stack # <<>>
  /\ IF Top \in DOMAIN Tree
     THEN out' = Append(out, Tree[Top]) /\ stack' = Popped
     ELSE /\ stack' = Popped \o <<Append(Top, "left"), Append(Top, "right")>>
          /\ UNCHANGED out
  /\ UNCHANGED <<made, nops, cmds, phase, shown, run>>

(* One turn of the loop of flatten or flatten_owned: a leaf comes out, of  *)
(* a pipe the right side is pushed first.                                  *)
Flatten ==
  /\ phase \in {"display", "stages"} /\ stack # <<>>
  /\ IF Top \in DOMAIN Tree
     THEN out' = Append(out, Tree[Top]) /\ stack' = Popped
     ELSE /\ stack' = Popped \o <<Append(Top, "right"), Append(Top, "left")>>
          /\ UNCHANGED out
  /\ UNCHANGED <<made, nops, cmds, phase, shown, run>>

(* Cmd::display: the first stage, then push_stage of the others; secret    *)
(* is the pipeline's.                                                      *)
Display ==
  /\ phase = "display" /\ stack = <<>>
  /\ shown' = [i \in DOMAIN out |->
                 [program |-> out[i].program,
                  ops |-> IF cmds[run][1].secret THEN <<"secret">> ELSE out[i].ops]]
  /\ phase' = "stages" /\ stack' = <<<<>>>> /\ out' = <<>>
  /\ UNCHANGED <<made, nops, cmds, run>>

Spawn ==
  /\ phase = "stages" /\ stack = <<>>
  /\ phase' = "spawned"
  /\ cmds' = [cmds EXCEPT ![run] = Nothing]
  /\ UNCHANGED <<made, nops, stack, out, shown, run>>

Next ==
  \/ \E n \in Names :
       \/ New(n) \/ Configure(n) \/ Set(n) \/ Run(n)
       \/ \E m \in Names : Pipe(n, m) \/ Clone(n, m)
  \/ Flatten \/ Display \/ Spawn

Spec == Init /\ [][Next]_vars

-----------------------------------------------------------------------------
(* Properties.                                                             *)

(* The abstract Cmd: the stages of the tree by their place.                *)
Plain(stages) ==
  [i \in DOMAIN stages |-> [program |-> stages[i].program, ops |-> stages[i].ops]]

Abstract(cmd) ==
  [i \in DOMAIN cmd |-> [stages |-> Plain(InOrder(cmd[i].tree)),
                         knobs |-> cmd[i].knobs, secret |-> cmd[i].secret]]

Promise == INSTANCE CmdStages WITH
             cmds <- [n \in Names |-> Abstract(cmds[n])],
             spawned <- IF phase = "spawned" THEN Plain(out) ELSE <<>>,
             shown <- IF phase = "spawned" THEN shown ELSE <<>>

(* Whatever was built in whatever order - pipes of pipes, clones, calls    *)
(* on a pipeline - the loops with the explicit stack come to the stages    *)
(* from left to right, each with the calls made while it was the last, and *)
(* the display and the spawn have the same ones (CmdTree::flatten,         *)
(* flatten_owned, rightmost_mut, Cmd::pipe).                               *)
BuildsSequence == Promise!Spec

(* No arguments are displayed of a stage that was part of a Cmd when that  *)
(* was marked secret, wherever it was cloned or piped afterwards           *)
(* (Cmd::secret, pipe, display).                                           *)
SecretsHidden ==
  phase = "spawned" =>
    \A i \in DOMAIN out : out[i].marked => shown[i].ops = <<"secret">>
=============================================================================
