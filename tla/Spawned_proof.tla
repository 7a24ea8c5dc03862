---------------------------- MODULE Spawned_proof ----------------------------
(***************************************************************************)
(* What is proved of Spawned, for any number of threads, stages and calls  *)
(* and any output: the accounting of stdout, that no stage is left behind, *)
(* that an outcome has the pipefail status of the stages as they ended,    *)
(* that the handle implements OneOutcome; and what its client, module      *)
(* CollectLines, has of it.                                                *)
(***************************************************************************)
EXTENDS CollectLines, WellFoundedInduction, TLAPS

LEMMA Numbers ==
  /\ N \in Nat /\ N > 0 /\ 1 \in Stages /\ N \in Stages
  /\ MaxChunks \in Nat /\ MaxCalls \in Nat /\ None \notin Threads
  /\ \A s \in Stages : s \in Nat /\ s > 0 /\ s <= N
  /\ \A s \in Stages : s < N => s + 1 \in Stages
BY SpawnedAssumption DEF Stages

(* The places of a call that has collected every status, and those of the  *)
(* calls that own one of the two Mutexes.                                  *)
Ending       == {"finalize", "join", "stdout", "drain"}
Finalizing   == {"join", "stdout", "drain"}
HoldingStdout == {"drain", "reading"}

(* What the local variables of a call hold at each of its places.          *)
Place(t) ==
  /\ pc[t] \in WaitOps => Len(stats[t]) = at[t] - 1
  /\ pc[t] \in Ending => Len(stats[t]) = N
  /\ pc[t] \notin WaitOps \union Ending => stats[t] = <<>>
  /\ pc[t] \notin WaitOps \union Ending \union {"kill"} => at[t] = 1
  /\ pc[t] \in WaitOps => \A s \in Stages : s < at[t] => Exited(s)
  /\ pc[t] \in Ending => AllExited
  /\ pc[t] # "idle" => phase = "live"

Places == \A t \in Threads : Place(t)

Locks ==
  \A t \in Threads : /\ pc[t] \in Finalizing <=> finalBy = t
                     /\ pc[t] \in HoldingStdout <=> stdoutBy = t

(* The thread that joins the stderr threads is the one that stores.        *)
Cell ==
  /\ finalBy # None => final = <<>>
  /\ finalBy = None /\ final = <<>> => stderrTo = None
  /\ \A t \in Threads : /\ pc[t] = "join" => stderrTo = None
                        /\ pc[t] \in {"stdout", "drain"} => stderrTo = t
  /\ final # <<>> => AllExited /\ final[1].stderr = "all"

(* Who may read the pipe in each StdoutState, and what has become of it    *)
(* when the outcome is there.                                              *)
Consumers ==
  /\ stdout = "NotTaken" => who = <<>>
  /\ taken => stdout = "GivenAway" /\ stdoutBy = None
  /\ \A i \in DOMAIN who : IF taken THEN who[i] = "caller"
                                    ELSE who[i] \in {"read", "finalize"}
  /\ stdout # "GivenAway" => \A i \in DOMAIN who : who[i] = "read"
  /\ \A i, j \in DOMAIN who : i < j /\ who[i] = "finalize" => who[j] = "finalize"
  /\ \A t \in Threads : /\ pc[t] = "drain" => stdout = "GivenAway"
                        /\ pc[t] = "reading" => stdout = "Cached"
  /\ stdout = "GivenAway" /\ ~taken /\ final = <<>> =>
       \E t \in Threads : pc[t] = "drain"
  /\ final # <<>> /\ ~taken =>
       /\ ~holder /\ Len(who) = written
       /\ \A i \in DOMAIN who : who[i] = "read" \/ i \in final[1].stdout

(* What the kill loop is done with: nothing before it has begun, and every *)
(* stage when it has ended.                                                *)
Clearing ==
  /\ phase \in {"spawning", "live"} => gone = 0
  /\ phase \in {"failed", "dropped"} => gone = N
  /\ phase \in {"aborting", "dropping"} => gone < N
  /\ \A s \in Stages : s <= gone =>
       /\ exit[s] = "running" => phase \in {"dropping", "dropped"} /\ s \in missed
       /\ exit[s] # "none" => s \in reaped \union missed

Inv == TypeOK /\ Places /\ Locks /\ Cell /\ Consumers /\ Clearing

LEMMA InitInv == Init => Inv
<1> SUFFICES ASSUME Init PROVE Inv
  OBVIOUS
<1>1. TypeOK
  <2>1. answer \in [Threads -> Answer] /\ final \in Seq(Finals) /\ Len(final) <= 1
    BY DEF Init, Answer, NoAnswer
  <2>2. written \in 0..MaxChunks /\ who \in Seq(Readers) /\ Len(who) <= written
    BY Numbers DEF Init
  <2>3. /\ pc \in [Threads -> PCs] /\ at \in [Threads -> Stages]
        /\ stats \in [Threads -> Seq(Exits)] /\ calls \in [Threads -> 0..MaxCalls]
    BY Numbers DEF Init, PCs
  <2>4. taken \in BOOLEAN /\ exit \in [Stages -> {"none", "running"} \union Exits]
    BY DEF Init
  <2>5. gone \in 0..N /\ missed \subseteq Stages /\ reaped \subseteq Stages
    BY Numbers DEF Init
  <2> QED BY <2>1, <2>2, <2>3, <2>4, <2>5 DEF Init, TypeOK
<1>2. Places
  BY DEF Init, Places, Place, WaitOps, Ending
<1>3. Locks
  BY Numbers DEF Init, Locks, Finalizing, HoldingStdout
<1>4. Cell /\ Clearing
  BY Numbers DEF Init, Cell, Clearing
<1>5. Consumers
  BY DEF Init, Consumers
<1> QED BY <1>1, <1>2, <1>3, <1>4, <1>5 DEF Inv

-----------------------------------------------------------------------------
(* The system.                                                             *)

(* A stage that has exited keeps its status.                               *)
Lasting == \A s \in Stages : Exited(s) => exit'[s] = exit[s]

LEMMA LastingStays ==
  ASSUME Inv, Lasting, UNCHANGED <<pc, at, stats, final, finalBy, stderrTo>>,
         phase' = phase \/ \A t \in Threads : pc[t] = "idle"
  PROVE  Places' /\ Cell'
<1>1. \A s \in Stages : Exited(s) => Exited(s)'
  BY DEF Lasting, Exited
<1>2. AllExited => AllExited'
  BY <1>1 DEF AllExited
<1>3. \A t \in Threads : Place(t) => Place(t)'
  <2> TAKE t \in Threads
  <2> QED BY <1>1, <1>2 DEF Place
<1> QED BY <1>2, <1>3 DEF Inv, Places, Cell

(* A turn of the kill loop.                                                *)
LEMMA ClearTypes ==
  ASSUME Inv, ClearStage
  PROVE  /\ gone + 1 \in Stages /\ gone' = gone + 1 /\ gone' \in 0..N
         /\ exit' \in [Stages -> {"none", "running"} \union Exits] /\ Lasting
         /\ \A s \in Stages \ {gone + 1} : exit'[s] = exit[s]
         /\ reaped' \subseteq Stages /\ missed' \subseteq Stages
         /\ reaped \union missed \subseteq reaped' \union missed'
         /\ exit'[gone + 1] # "none" => gone + 1 \in reaped' \union missed'
         /\ exit'[gone + 1] = "running" =>
              phase = "dropping" /\ gone + 1 \in missed'
         /\ phase' \in {"aborting", "dropping", "failed", "dropped"}
         /\ phase' \in {"aborting", "dropping"} => gone' < N
         /\ phase' \in {"failed", "dropped"} => gone' = N
         /\ phase = "dropping" <=> phase' \in {"dropping", "dropped"}
         /\ UNCHANGED <<holder, written, pipe, cell, thread, answer>>
<1> DEFINE s == gone + 1
<1>1. /\ phase \in {"aborting", "dropping"} /\ gone \in 0..N /\ gone < N
      /\ gone' = s /\ (Clears(s) \/ Misses(s))
      /\ phase' = IF s < N THEN phase
                  ELSE IF phase = "aborting" THEN "failed" ELSE "dropped"
      /\ UNCHANGED <<holder, written, pipe, cell, thread, answer>>
  BY DEF ClearStage, Inv, TypeOK, Clearing
<1>2. s \in Stages /\ s \in 0..N
  BY <1>1, Numbers DEF Stages
<1> HIDE DEF s
<1>3. /\ exit \in [Stages -> {"none", "running"} \union Exits]
      /\ reaped \subseteq Stages /\ missed \subseteq Stages
  BY DEF Inv, TypeOK
<1>4. exit' = Killed(s) \/ (phase = "dropping" /\ exit' = exit /\ s \in missed')
  BY <1>1 DEF Clears, Misses
<1>5. /\ exit' \in [Stages -> {"none", "running"} \union Exits]
      /\ \A r \in Stages \ {s} : exit'[r] = exit[r]
      /\ exit'[s] = exit[s] \/ exit[s] = "running"
      /\ exit'[s] = "none" <=> exit[s] = "none"
      /\ exit'[s] = "running" => phase = "dropping" /\ s \in missed'
  BY <1>2, <1>3, <1>4 DEF Killed, Exits
<1>6. Lasting
  BY <1>5 DEF Lasting, Exited, Exits
<1>7. /\ reaped' \subseteq Stages /\ missed' \subseteq Stages
      /\ reaped \union missed \subseteq reaped' \union missed'
      /\ exit[s] # "none" => s \in reaped' \union missed'
  BY <1>1, <1>2, <1>3 DEF Clears, Misses
<1>8. /\ phase' \in {"aborting", "dropping", "failed", "dropped"}
      /\ phase' \in {"aborting", "dropping"} => gone' < N
      /\ phase' \in {"failed", "dropped"} => gone' = N
      /\ phase = "dropping" <=> phase' \in {"dropping", "dropped"}
  BY <1>1, <1>2, Numbers
<1> QED BY <1>1, <1>2, <1>5, <1>6, <1>7, <1>8 DEF s

LEMMA SystemSteps ==
  ASSUME Inv,
         \/ \E s \in Stages : Spawn(s) \/ StageExits(s)
         \/ StageWrites \/ HolderExits \/ SpawnFails \/ DropHandle
         \/ ClearStage \/ CallerReads
  PROVE  Inv'
<1> USE DEF Inv, os, loop, pipe, cell, thread, locals
<1>1. ASSUME NEW s \in Stages, Spawn(s) \/ StageExits(s) PROVE Inv'
  <2>a. exit[s] \in {"none", "running"}
    BY <1>1 DEF Spawn, StageExits
  <2>b. PICK e \in {"running"} \union Exits : exit' = [exit EXCEPT ![s] = e]
    <3>1. CASE Spawn(s)
      BY <3>1 DEF Spawn
    <3>2. CASE StageExits(s)
      BY <3>2 DEF StageExits, Exits
    <3> QED BY <1>1, <3>1, <3>2
  <2>1. /\ exit' \in [Stages -> {"none", "running"} \union Exits] /\ Lasting
        /\ \A r \in Stages \ {s} : exit'[r] = exit[r]
        /\ UNCHANGED <<reaped, loop, holder, written, pipe, cell, thread, answer>>
        /\ (phase' = phase \/ (phase \in {"spawning", "live"} /\ phase' = "live"))
    <3>1. /\ exit' \in [Stages -> {"none", "running"} \union Exits]
          /\ \A r \in Stages \ {s} : exit'[r] = exit[r]
      BY <2>b DEF TypeOK
    <3>2. Lasting
      BY <2>a, <3>1 DEF Lasting, Exited, Exits
    <3>3. /\ UNCHANGED <<reaped, loop, holder, written, pipe, cell, thread, answer>>
          /\ (phase' = phase \/ (phase \in {"spawning", "live"} /\ phase' = "live"))
      BY <1>1 DEF Spawn, StageExits
    <3> QED BY <3>1, <3>2, <3>3
  <2>2. phase' = phase \/ \A t \in Threads : pc[t] = "idle"
    BY <1>1 DEF Spawn, StageExits, Places, Place
  <2>3. TypeOK'
    BY <1>1, <2>1 DEF Spawn, StageExits, TypeOK
  <2>4. Places' /\ Cell'
    BY <2>1, <2>2, LastingStays
  <2>5. Locks' /\ Consumers'
    BY <2>1 DEF Locks, Consumers
  <2>6. Clearing'
    <3>1. phase' \in {"spawning", "live"} \/ exit[s] = "running"
      BY <1>1 DEF Spawn, StageExits
    <3>2. phase' = phase => exit'[s] # "none" /\ (exit'[s] = "running" => gone = 0)
      BY <1>1, <2>1 DEF Spawn, StageExits, Clearing, TypeOK, Exits
    <3> QED BY <2>1, <3>1, <3>2, Numbers DEF Clearing
  <2> QED BY <2>3, <2>4, <2>5, <2>6
<1>2. CASE StageWrites
  <2>1. written + 1 \in 0..MaxChunks /\ Len(who) <= written + 1
    BY <1>2, Numbers DEF StageWrites, TypeOK
  <2>2. TypeOK'
    BY <1>2, <2>1 DEF StageWrites, TypeOK
  <2>3. Places' /\ Cell' /\ Locks' /\ Clearing'
    BY <1>2 DEF StageWrites, Places, Place, Cell, Locks, Clearing, AllExited, Exited
  <2>4. ~(final # <<>> /\ ~taken)
    BY <1>2, Numbers DEF StageWrites, Cell, Consumers, AllExited, Exited, Exits
  <2>5. Consumers'
    BY <1>2, <2>4 DEF StageWrites, Consumers
  <2> QED BY <2>2, <2>3, <2>5
<1>3. CASE HolderExits
  <2>1. holder' \in BOOLEAN /\ ~holder'
    BY <1>3 DEF HolderExits
  <2>2. TypeOK'
    BY <1>3, <2>1 DEF HolderExits, TypeOK
  <2>3. Places' /\ Cell' /\ Locks' /\ Clearing'
    BY <1>3 DEF HolderExits, Places, Place, Cell, Locks, Clearing, AllExited, Exited
  <2>4. Consumers'
    BY <1>3, <2>1 DEF HolderExits, Consumers
  <2> QED BY <2>2, <2>3, <2>4
<1>4. CASE SpawnFails \/ DropHandle
  <2>1. /\ phase \in {"spawning", "live"} /\ phase' \in {"aborting", "dropping"}
        /\ UNCHANGED <<os, pipe, cell, thread, answer>> /\ Lasting
    BY <1>4 DEF SpawnFails, DropHandle, Lasting
  <2>2. \A t \in Threads : pc[t] = "idle"
    BY <1>4 DEF SpawnFails, DropHandle, Places, Place
  <2>3. TypeOK'
    BY <2>1 DEF TypeOK
  <2>4. Places' /\ Cell'
    BY <2>1, <2>2, LastingStays
  <2>5. Locks' /\ Consumers'
    BY <2>1 DEF Locks, Consumers
  <2>6. Clearing'
    BY <2>1, Numbers DEF Clearing
  <2> QED BY <2>3, <2>4, <2>5, <2>6
<1>6. CASE ClearStage
  <2>1. \A t \in Threads : pc[t] = "idle"
    BY <1>6 DEF ClearStage, Places, Place
  <2>2. UNCHANGED <<holder, written, pipe, cell, thread, answer>> /\ Lasting
    BY <1>6, ClearTypes
  <2>3. TypeOK'
    BY <1>6, ClearTypes DEF TypeOK
  <2>4. Places' /\ Cell'
    BY <2>1, <2>2, LastingStays
  <2>5. Locks' /\ Consumers'
    BY <2>2 DEF Locks, Consumers
  <2>6. Clearing'
    <3>1. ASSUME NEW s \in Stages, s <= gone'
          PROVE  /\ exit'[s] = "running" =>
                      phase' \in {"dropping", "dropped"} /\ s \in missed'
                 /\ exit'[s] # "none" => s \in reaped' \union missed'
      <4>1. CASE s = gone + 1
        BY <1>6, <4>1, ClearTypes
      <4>2. CASE s # gone + 1
        <5>1. s <= gone /\ exit'[s] = exit[s]
          BY <1>6, <3>1, <4>2, ClearTypes, Numbers DEF TypeOK
        <5>2. missed \subseteq missed'
          BY <1>6 DEF ClearStage, Clears, Misses
        <5>3. exit[s] = "running" => phase = "dropping" /\ s \in missed
          BY <1>6, <5>1 DEF Clearing, ClearStage
        <5>4. exit[s] # "none" => s \in reaped' \union missed'
          BY <1>6, <5>1, ClearTypes DEF Clearing
        <5> QED BY <1>6, <5>1, <5>2, <5>3, <5>4, ClearTypes
      <4> QED BY <4>1, <4>2
    <3> QED BY <1>6, <3>1, ClearTypes DEF Clearing
  <2> QED BY <2>3, <2>4, <2>5, <2>6
<1>5. CASE CallerReads
  <2>1. /\ who' = Append(who, "caller") /\ taken /\ Len(who) < written
        /\ UNCHANGED <<phase, os, stdout, stdoutBy, taken, cell, thread, answer>>
    BY <1>5 DEF CallerReads
  <2>2. /\ who' \in Seq(Readers) /\ Len(who') = Len(who) + 1
        /\ \A i \in DOMAIN who' : who'[i] = IF i \in DOMAIN who THEN who[i] ELSE "caller"
    BY <2>1 DEF TypeOK, Readers
  <2>3. TypeOK'
    BY <2>1, <2>2 DEF TypeOK
  <2>4. Places' /\ Cell' /\ Locks' /\ Clearing'
    BY <2>1 DEF Places, Place, Cell, Locks, Clearing, AllExited, Exited
  <2>5. Consumers'
    BY <2>1, <2>2 DEF Consumers
  <2> QED BY <2>3, <2>4, <2>5
<1> QED BY <1>1, <1>2, <1>3, <1>4, <1>5, <1>6
-----------------------------------------------------------------------------
(* The steps of a thread.                                                  *)

LEMMA ReturnTypes ==
  ASSUME TypeOK, NEW t \in Threads, Return(t)
  PROVE  /\ pc' \in [Threads -> PCs] /\ pc'[t] = "idle"
         /\ at' \in [Threads -> Stages] /\ at'[t] = 1
         /\ stats' \in [Threads -> Seq(Exits)] /\ stats'[t] = <<>>
         /\ \A u \in Threads \ {t} :
              pc'[u] = pc[u] /\ at'[u] = at[u] /\ stats'[u] = stats[u]
BY Numbers DEF TypeOK, Return, PCs

LEMMA GotoTypes ==
  ASSUME TypeOK, NEW t \in Threads, NEW label \in PCs, Goto(t, label)
  PROVE  /\ pc' \in [Threads -> PCs] /\ pc'[t] = label
         /\ at' = at /\ stats' = stats
         /\ \A u \in Threads \ {t} : pc'[u] = pc[u]
BY DEF TypeOK, Goto, locals

LEMMA AnswersTypes ==
  ASSUME TypeOK, NEW t \in Threads,
         NEW kind \in {"none", "running", "error", "outcome"},
         NEW state \in Seq(Finals), Answers(t, kind, state)
  PROVE  answer' \in [Threads -> Answer]
BY DEF TypeOK, Answers, Answer

(* A thread that moves from one place to another disturbs nothing else.    *)
LEMMA PlacesStay ==
  ASSUME Inv, NEW t \in Threads, Place(t)', Lasting, UNCHANGED phase,
         \A u \in Threads \ {t} :
           pc'[u] = pc[u] /\ at'[u] = at[u] /\ stats'[u] = stats[u]
  PROVE  Places'
<1>1. \A s \in Stages : Exited(s) => Exited(s)'
  BY DEF Lasting, Exited
<1>2. AllExited => AllExited'
  BY <1>1 DEF AllExited
<1>3. \A u \in Threads \ {t} : Place(u)'
  BY <1>1, <1>2 DEF Inv, Places, Place
<1> QED BY <1>3 DEF Places

(* What a call that has returned leaves behind.                            *)
LEMMA IdlePlace ==
  ASSUME NEW t \in Threads, pc'[t] = "idle", at'[t] = 1, stats'[t] = <<>>
  PROVE  Place(t)'
BY DEF Place, WaitOps, Ending

(* A call is issued.                                                       *)
LEMMA IssueStep ==
  ASSUME Inv, NEW t \in Threads, NEW o \in Ops, phase = "live", pc[t] = "idle",
         pc' = [pc EXCEPT ![t] = o], calls' \in [Threads -> 0..MaxCalls],
         UNCHANGED <<phase, os, pipe, cell, locals, answer>>
  PROVE  Inv'
<1> USE DEF Inv, os, loop, pipe, cell, locals
<1>1. /\ pc' \in [Threads -> PCs] /\ pc'[t] = o
      /\ \A u \in Threads \ {t} : pc'[u] = pc[u]
  BY DEF TypeOK, PCs
<1>2. TypeOK'
  BY <1>1 DEF TypeOK
<1>3. Place(t) /\ at[t] = 1 /\ stats[t] = <<>> /\ Len(stats[t]) = 0
  BY DEF Places, Place, WaitOps, Ending
<1>4. Place(t)'
  BY <1>1, <1>3, Numbers DEF Place, Ops, WaitOps, Ending
<1>5. Places'
  BY <1>1, <1>4, PlacesStay DEF Lasting
<1>6. Locks' /\ Cell'
  BY <1>1 DEF Locks, Cell, Finalizing, HoldingStdout, Ops, WaitOps,
              AllExited, Exited
<1>7. Consumers'
  <2>1. \A u \in Threads : /\ pc'[u] = "drain" <=> pc[u] = "drain"
                           /\ pc'[u] = "reading" <=> pc[u] = "reading"
    BY <1>1 DEF Ops, WaitOps
  <2> QED BY <2>1 DEF Consumers
<1>8. Clearing'
  BY DEF Clearing, Exited
<1> QED BY <1>2, <1>5, <1>6, <1>7, <1>8

LEMMA CallStep ==
  ASSUME Inv, NEW t \in Threads, Call(t)
  PROVE  Inv'
<1>1. PICK o \in Ops : pc' = [pc EXCEPT ![t] = o]
  BY DEF Call
<1>2. calls' \in [Threads -> 0..MaxCalls]
  BY Numbers DEF Call, Inv, TypeOK
<1> QED BY <1>1, <1>2, IssueStep DEF Call

(* A call that is outside finalize moves on or returns: the Mutexes, the   *)
(* cell and the pipe are as they were.                                     *)
LEMMA OutsideStays ==
  ASSUME Inv, NEW t \in Threads, Lasting,
         pc[t] \notin Finalizing \union HoldingStdout,
         pc'[t] \notin Finalizing \union HoldingStdout,
         \A u \in Threads \ {t} : pc'[u] = pc[u],
         UNCHANGED <<holder, written, pipe, cell>>
  PROVE  Locks' /\ Cell' /\ Consumers'
<1> USE DEF Inv, pipe, cell
<1>1. AllExited => AllExited'
  BY DEF Lasting, AllExited, Exited
<1>2. Locks'
  BY DEF Locks
<1>3. Cell'
  BY <1>1 DEF Cell, Finalizing
<1>4. \A u \in Threads : /\ pc'[u] = "drain" <=> pc[u] = "drain"
                         /\ pc'[u] = "reading" <=> pc[u] = "reading"
  BY DEF HoldingStdout
<1>5. Consumers'
  BY <1>4 DEF Consumers
<1> QED BY <1>2, <1>3, <1>5

LEMMA StageSteps ==
  ASSUME Inv, NEW t \in Threads,
         KillStage(t) \/ StageDone(t) \/ StageRuns(t) \/ WaitFails(t)
  PROVE  Inv'
<1> USE DEF Inv, os, loop, pipe, cell, locals
<1>1. CASE KillStage(t)
  <2>1. /\ exit' \in [Stages -> {"none", "running"} \union Exits] /\ Lasting
        /\ \A s \in Stages : exit'[s] = exit[s] \/ exit[s] = "running"
        /\ UNCHANGED <<phase, reaped, loop, holder, written, pipe, cell, calls, answer>>
        /\ pc[t] = "kill"
    BY <1>1 DEF KillStage, TypeOK, Lasting, Exited, Exits
  <2>2. /\ pc' \in [Threads -> PCs] /\ at' \in [Threads -> Stages]
        /\ stats' \in [Threads -> Seq(Exits)] /\ pc'[t] \in {"kill", "idle"}
        /\ \A u \in Threads \ {t} :
             pc'[u] = pc[u] /\ at'[u] = at[u] /\ stats'[u] = stats[u]
        /\ Place(t)'
    <3>1. CASE at[t] < N
      <4>1. at[t] + 1 \in Stages /\ at' = [at EXCEPT ![t] = @ + 1]
            /\ UNCHANGED <<pc, stats>>
        BY <1>1, <3>1, Numbers DEF KillStage, TypeOK
      <4>2. Place(t)'
        BY <2>1, <4>1 DEF Places, Place, WaitOps, Ending
      <4> QED BY <2>1, <4>1, <4>2 DEF TypeOK
    <3>2. CASE ~(at[t] < N)
      BY <1>1, <3>2, ReturnTypes, IdlePlace DEF KillStage
    <3> QED BY <3>1, <3>2
  <2>3. TypeOK'
    BY <2>1, <2>2 DEF TypeOK
  <2>4. Places'
    BY <2>1, <2>2, PlacesStay
  <2>5. Locks' /\ Cell' /\ Consumers'
    BY <2>1, <2>2, OutsideStays DEF Finalizing, HoldingStdout
  <2>6. Clearing'
    BY <2>1, Numbers DEF Clearing, Places, Place
  <2> QED BY <2>3, <2>4, <2>5, <2>6
<1>2. CASE StageDone(t)
  <2>1. /\ pc[t] \in WaitOps /\ Exited(at[t]) /\ at[t] \in Stages
        /\ Len(stats[t]) = at[t] - 1 /\ at[t] \in Nat /\ at[t] <= N
        /\ UNCHANGED <<phase, exit, loop, holder, written, pipe, cell, calls, answer>>
        /\ Lasting
    BY <1>2, Numbers DEF StageDone, Places, Place, TypeOK, Lasting
  <2>2. /\ stats' \in [Threads -> Seq(Exits)] /\ Len(stats'[t]) = at[t]
        /\ \A u \in Threads \ {t} : stats'[u] = stats[u]
        /\ reaped' \subseteq Stages /\ reaped \subseteq reaped'
    BY <1>2, <2>1 DEF StageDone, TypeOK, Exited
  <2>3. /\ pc' \in [Threads -> PCs] /\ at' \in [Threads -> Stages]
        /\ pc'[t] \in WaitOps \union {"finalize"}
        /\ \A u \in Threads \ {t} : pc'[u] = pc[u] /\ at'[u] = at[u]
        /\ Place(t)'
    <3>1. CASE at[t] < N
      <4>1. at[t] + 1 \in Stages /\ at' = [at EXCEPT ![t] = @ + 1] /\ UNCHANGED pc
        BY <1>2, <2>1, <3>1, Numbers DEF StageDone
      <4>2. at'[t] = at[t] + 1
        BY <4>1 DEF TypeOK
      <4>3. \A s \in Stages : s < at[t] + 1 => Exited(s)
        BY <2>1, Numbers DEF Places, Place
      <4>4. Place(t)'
        BY <2>1, <2>2, <4>1, <4>2, <4>3 DEF Places, Place, WaitOps, Ending, Exited
      <4> QED BY <2>1, <4>1, <4>4 DEF TypeOK
    <3>2. CASE ~(at[t] < N)
      <4>1. at[t] = N /\ pc' = [pc EXCEPT ![t] = "finalize"] /\ UNCHANGED at
        BY <1>2, <2>1, <3>2, Numbers DEF StageDone
      <4>2. AllExited
        <5>1. \A s \in Stages : s < at[t] \/ s = at[t]
          BY <4>1, Numbers
        <5> QED BY <2>1, <5>1 DEF AllExited, Places, Place
      <4>3. pc'[t] = "finalize"
        BY <4>1 DEF TypeOK
      <4>4. Place(t)'
        BY <2>1, <2>2, <4>1, <4>2, <4>3
           DEF Places, Place, WaitOps, Ending, AllExited, Exited
      <4> QED BY <4>1, <4>3, <4>4 DEF TypeOK, PCs
    <3> QED BY <3>1, <3>2
  <2>4. TypeOK'
    BY <2>1, <2>2, <2>3 DEF TypeOK
  <2>5. Places'
    BY <2>1, <2>2, <2>3, PlacesStay
  <2>6. Locks' /\ Cell' /\ Consumers'
    BY <2>1, <2>3, OutsideStays DEF Finalizing, HoldingStdout, WaitOps
  <2>7. Clearing'
    BY <2>1, <2>2 DEF Clearing, Exited
  <2> QED BY <2>4, <2>5, <2>6, <2>7
<1>3. CASE StageRuns(t) \/ WaitFails(t)
  <2>1. /\ Return(t) /\ UNCHANGED <<phase, os, pipe, cell, calls>>
        /\ pc[t] \in WaitOps /\ Lasting
    BY <1>3 DEF StageRuns, WaitFails, WaitOps, Lasting
  <2>2. answer' \in [Threads -> Answer]
    <3>1. <<>> \in Seq(Finals)
      OBVIOUS
    <3> QED BY <1>3, <3>1, AnswersTypes DEF StageRuns, WaitFails
  <2>3. TypeOK'
    <3>1. /\ pc' \in [Threads -> PCs] /\ at' \in [Threads -> Stages]
          /\ stats' \in [Threads -> Seq(Exits)]
      BY <2>1, ReturnTypes
    <3> QED BY <2>1, <2>2, <3>1 DEF TypeOK
  <2>4. Places'
    BY <2>1, ReturnTypes, IdlePlace, PlacesStay
  <2>5. Locks' /\ Cell' /\ Consumers'
    BY <2>1, ReturnTypes, OutsideStays DEF Finalizing, HoldingStdout, WaitOps
  <2>6. Clearing'
    BY <2>1 DEF Clearing, Exited
  <2> QED BY <2>3, <2>4, <2>5, <2>6
<1> QED BY <1>1, <1>2, <1>3
(* The state a thread stores is a state: it has a status for every stage.  *)
LEMMA StoreTypes ==
  ASSUME Inv, NEW t \in Threads, NEW chunks \in SUBSET (1..MaxChunks),
         Store(t, chunks), pc[t] \in {"stdout", "drain"}
  PROVE  /\ final' \in Seq(Finals) /\ Len(final') = 1 /\ final' # <<>>
         /\ final'[1].stdout = chunks /\ final'[1].stderr = "all"
         /\ final'[1] \in Finals
         /\ answer' = [answer EXCEPT ![t] = [kind |-> "outcome", state |-> final']]
         /\ answer' \in [Threads -> Answer]
         /\ finalBy' = None
<1> DEFINE f == [statuses |-> stats[t], stdout |-> chunks,
                 stderr |-> IF stderrTo = t THEN "all" ELSE "empty"]
<1>1. stats[t] \in [Stages -> Exits]
  <2>1. stats[t] \in Seq(Exits) /\ Len(stats[t]) = N
    BY DEF Inv, TypeOK, Places, Place, Ending
  <2> QED BY <2>1, Numbers DEF Stages
<1>2. f \in Finals /\ f.stderr = "all" /\ f.stdout = chunks
  BY <1>1 DEF Inv, Cell, Finals
<1>3. final' = <<f>> /\ Answers(t, "outcome", final') /\ finalBy' = None
  BY DEF Store
<1> HIDE DEF f
<1>4. final' \in Seq(Finals) /\ Len(final') = 1 /\ final'[1] = f
  BY <1>2, <1>3
<1>5. answer' \in [Threads -> Answer]
  BY <1>3, <1>4, AnswersTypes DEF Inv
<1> QED BY <1>2, <1>3, <1>4, <1>5 DEF Answers

LEMMA FinalizeSteps ==
  ASSUME Inv, NEW t \in Threads, Finalize(t) \/ JoinStderr(t)
  PROVE  Inv'
<1> USE DEF Inv, os, loop, pipe, cell, locals
<1>1. CASE Finalize(t) /\ final # <<>>
  <2>1. /\ Answers(t, "outcome", final) /\ Return(t) /\ pc[t] = "finalize" /\ Lasting
        /\ UNCHANGED <<phase, os, pipe, stderrTo, final, finalBy, calls>>
    BY <1>1 DEF Finalize, Lasting
  <2>2. answer' \in [Threads -> Answer]
    BY <2>1, AnswersTypes DEF TypeOK
  <2>3. TypeOK'
    BY <2>1, <2>2, ReturnTypes DEF TypeOK
  <2>4. Places'
    BY <2>1, ReturnTypes, IdlePlace, PlacesStay
  <2>5. Locks' /\ Cell' /\ Consumers'
    BY <2>1, ReturnTypes, OutsideStays DEF Finalizing, HoldingStdout
  <2>6. Clearing'
    BY <2>1 DEF Clearing, Exited
  <2> QED BY <2>3, <2>4, <2>5, <2>6
<1>2. CASE Finalize(t) /\ final = <<>>
  <2>1. /\ finalBy = None /\ finalBy' = t /\ Goto(t, "join") /\ UNCHANGED answer
        /\ pc[t] = "finalize" /\ Lasting
        /\ UNCHANGED <<phase, os, pipe, stderrTo, final, calls>>
    BY <1>2 DEF Finalize, Lasting
  <2>2. /\ pc' \in [Threads -> PCs] /\ pc'[t] = "join" /\ at' = at /\ stats' = stats
        /\ \A u \in Threads \ {t} : pc'[u] = pc[u]
    BY <2>1, GotoTypes DEF PCs
  <2>3. TypeOK'
    BY <2>1, <2>2 DEF TypeOK
  <2>4. Place(t)'
    BY <2>1, <2>2 DEF Places, Place, Ending, WaitOps, AllExited, Exited
  <2>5. Places'
    BY <2>1, <2>2, <2>4, PlacesStay
  <2>6. Locks'
    BY <2>1, <2>2, Numbers DEF Locks, Finalizing, HoldingStdout
  <2>7. Cell'
    BY <1>2, <2>1, <2>2, Numbers DEF Cell, Locks, Finalizing, AllExited, Exited
  <2>8. Consumers'
    BY <2>1, <2>2 DEF Consumers
  <2>9. Clearing'
    BY <2>1 DEF Clearing, Exited
  <2> QED BY <2>3, <2>5, <2>6, <2>7, <2>8, <2>9
<1>3. CASE JoinStderr(t)
  <2>1. /\ Goto(t, "stdout") /\ pc[t] = "join" /\ Lasting /\ stderrTo = None
        /\ finalBy = t /\ stderrTo' = t
        /\ UNCHANGED <<phase, os, pipe, final, finalBy, calls, answer>>
    BY <1>3 DEF JoinStderr, Lasting, Cell, Locks, Finalizing
  <2>2. /\ pc' \in [Threads -> PCs] /\ pc'[t] = "stdout" /\ at' = at /\ stats' = stats
        /\ \A u \in Threads \ {t} : pc'[u] = pc[u]
    BY <2>1, GotoTypes DEF PCs
  <2>3. TypeOK'
    BY <2>1, <2>2 DEF TypeOK
  <2>4. Place(t)'
    BY <2>1, <2>2 DEF Places, Place, Ending, WaitOps, AllExited, Exited
  <2>5. Places'
    BY <2>1, <2>2, <2>4, PlacesStay
  <2>6. Locks'
    BY <2>1, <2>2 DEF Locks, Finalizing, HoldingStdout
  <2>7. Cell'
    <3>1. \A u \in Threads \ {t} : pc[u] \notin Finalizing
      BY <2>1 DEF Locks
    <3> QED BY <2>1, <2>2, <3>1, Numbers DEF Cell, Finalizing, AllExited, Exited
  <2>8. Consumers'
    BY <2>1, <2>2 DEF Consumers
  <2>9. Clearing'
    BY <2>1 DEF Clearing, Exited
  <2> QED BY <2>3, <2>5, <2>6, <2>7, <2>8, <2>9
<1> QED BY <1>1, <1>2, <1>3

(* An outcome is stored: the pipe was at its end, or it is the caller's.   *)
LEMMA StoreStep ==
  ASSUME Inv, NEW t \in Threads, NEW chunks \in SUBSET (1..MaxChunks),
         Store(t, chunks), pc[t] \in {"stdout", "drain"},
         stdoutBy' = IF pc[t] = "drain" THEN None ELSE stdoutBy,
         stdout = "GivenAway", stdout' = stdout,
         ~taken => /\ ~holder /\ Len(who) = written
                   /\ \A i \in DOMAIN who : who[i] = "read" \/ i \in chunks,
         UNCHANGED <<phase, os, who, taken, stderrTo, calls>>
  PROVE  Inv'
<1> USE DEF Inv, os, loop, locals
<1>1. Return(t) /\ Lasting /\ finalBy = t
  BY DEF Store, Lasting, Locks, Finalizing
<1>2. stdoutBy' \in Threads \union {None}
  BY DEF TypeOK
<1>3. TypeOK'
  <2>0. Len(final') = 1 /\ finalBy' = None
    BY StoreTypes
  <2>1. Len(final') <= 1 /\ finalBy' \in Threads \union {None}
    BY <2>0
  <2> QED BY <1>1, <1>2, <2>1, StoreTypes, ReturnTypes DEF TypeOK
<1>4. Places'
  BY <1>1, ReturnTypes, IdlePlace, PlacesStay
<1>5. Locks'
  <2>1. pc[t] = "drain" <=> stdoutBy = t
    BY DEF Locks, HoldingStdout
  <2>2. /\ finalBy' = None /\ pc'[t] = "idle"
        /\ \A u \in Threads \ {t} : pc'[u] = pc[u]
    BY <1>1, ReturnTypes, StoreTypes
  <2> QED BY <1>1, <2>1, <2>2, Numbers DEF Locks, Finalizing, HoldingStdout
<1>6. \A u \in Threads \ {t} : pc[u] \notin Finalizing
  BY <1>1 DEF Locks
<1>7. Cell'
  <2>1. AllExited'
    BY DEF Places, Place, Ending, AllExited, Exited
  <2> QED BY <1>6, <2>1, ReturnTypes, <1>1, StoreTypes DEF Cell, Finalizing
<1>8. Consumers'
  <2>1. \A u \in Threads : pc'[u] # "drain" /\ (pc'[u] = "reading" => pc[u] = "reading")
    BY <1>1, <1>6, ReturnTypes DEF Finalizing
  <2>2. \A u \in Threads : pc'[u] # "reading"
    BY <2>1 DEF Consumers
  <2>3. taken => stdoutBy' = None
    BY DEF Consumers
  <2>4. final' # <<>> /\ final'[1].stdout = chunks
    BY StoreTypes
  <2> QED BY <2>1, <2>2, <2>3, <2>4 DEF Consumers
<1>9. Clearing'
  BY DEF Clearing, Exited
<1> QED BY <1>3, <1>4, <1>5, <1>7, <1>8, <1>9
(* A chunk leaves the pipe: to the drain, or to read.                      *)
LEMMA ChunkTypes ==
  ASSUME Inv, NEW r \in Readers, Len(who) < written, who' = Append(who, r)
  PROVE  /\ who' \in Seq(Readers) /\ Len(who') <= written /\ Len(who') = Len(who) + 1
         /\ \A i \in DOMAIN who' : who'[i] = IF i \in DOMAIN who THEN who[i] ELSE r
         /\ \A i \in DOMAIN who : i \in DOMAIN who' /\ who'[i] = who[i]
         /\ \A i, j \in DOMAIN who' : i < j => i \in DOMAIN who
<1>1. who \in Seq(Readers) /\ written \in Nat
  BY Numbers DEF Inv, TypeOK
<1>2. DOMAIN who = 1..Len(who) /\ DOMAIN who' = 1..(Len(who) + 1) /\ Len(who) \in Nat
  BY <1>1
<1> QED BY <1>1, <1>2

LEMMA DrainSteps ==
  ASSUME Inv, NEW t \in Threads, LockStdout(t) \/ Drain(t)
  PROVE  Inv'
<1> USE DEF Inv, os, loop, pipe, cell, locals
<1>1. CASE LockStdout(t) /\ stdout = "GivenAway"
  <2>1. /\ Store(t, {}) /\ pc[t] = "stdout" /\ stdoutBy = None
        /\ UNCHANGED <<stdout, stdoutBy, phase, os, who, taken, stderrTo, calls>>
    BY <1>1 DEF LockStdout
  <2>2. final = <<>>
    BY <2>1, Numbers DEF Locks, Cell, Finalizing
  <2>3. \A u \in Threads : pc[u] # "drain"
    BY <2>1, Numbers DEF Locks, HoldingStdout
  <2>4. taken
    BY <1>1, <2>2, <2>3 DEF Consumers
  <2>5. {} \in SUBSET (1..MaxChunks)
    OBVIOUS
  <2>6. stdoutBy' = IF pc[t] = "drain" THEN None ELSE stdoutBy
    BY <2>1
  <2> HIDE DEF Inv, os
  <2> QED BY <1>1, <2>1, <2>4, <2>5, <2>6, StoreStep
<1>2. CASE LockStdout(t) /\ stdout # "GivenAway"
  <2>1. /\ stdoutBy = None /\ stdoutBy' = t /\ Goto(t, "drain") /\ pc[t] = "stdout"
        /\ stdout' = "GivenAway" /\ Lasting /\ final = <<>> /\ ~taken
        /\ UNCHANGED <<phase, os, who, taken, cell, calls, answer>>
    BY <1>2, Numbers
       DEF LockStdout, Lasting, Cell, Locks, Finalizing, Consumers
  <2>2. /\ pc' \in [Threads -> PCs] /\ pc'[t] = "drain" /\ at' = at /\ stats' = stats
        /\ \A u \in Threads \ {t} : pc'[u] = pc[u]
    BY <2>1, GotoTypes DEF PCs
  <2>3. TypeOK'
    BY <2>1, <2>2 DEF TypeOK
  <2>4. Place(t)'
    BY <2>1, <2>2 DEF Places, Place, Ending, WaitOps, AllExited, Exited
  <2>5. Places'
    BY <2>1, <2>2, <2>4, PlacesStay
  <2>6. Locks'
    BY <2>1, <2>2, Numbers DEF Locks, Finalizing, HoldingStdout
  <2>7. Cell'
    BY <2>1, <2>2 DEF Cell, AllExited, Exited
  <2>8. Consumers'
    <3>1. \A u \in Threads \ {t} : pc[u] \notin HoldingStdout
      BY <2>1, Numbers DEF Locks
    <3> QED BY <1>2, <2>1, <2>2, <3>1 DEF Consumers, HoldingStdout
  <2>9. Clearing'
    BY <2>1 DEF Clearing, Exited
  <2> QED BY <2>3, <2>5, <2>6, <2>7, <2>8, <2>9
<1>3. CASE Drain(t) /\ Return(t)
  <2> DEFINE chunks == {i \in DOMAIN who : who[i] = "finalize"}
  <2>1. pc[t] = "drain" /\ UNCHANGED <<phase, os, stdout, taken, stderrTo, calls>>
    BY <1>3 DEF Drain
  <2>2. /\ StdoutEnds /\ Store(t, chunks) /\ stdoutBy' = None /\ UNCHANGED who
    <3>1. pc'[t] = "idle"
      BY <1>3, ReturnTypes
    <3> QED BY <1>3, <3>1 DEF Drain
  <2>3. chunks \in SUBSET (1..MaxChunks)
    BY Numbers DEF TypeOK
  <2>4. stdout = "GivenAway" /\ ~taken
    BY <2>1, Numbers DEF Consumers, Locks, HoldingStdout
  <2>5. /\ ~holder /\ Len(who) = written
        /\ \A i \in DOMAIN who : who[i] = "read" \/ i \in chunks
    BY <2>2, <2>4 DEF StdoutEnds, Consumers
  <2> HIDE DEF chunks
  <2> QED BY <2>1, <2>2, <2>3, <2>4, <2>5, StoreStep
<1>4. CASE Drain(t) /\ ~Return(t)
  <2>1. /\ Len(who) < written /\ who' = Append(who, "finalize") /\ pc[t] = "drain"
        /\ UNCHANGED <<phase, os, stdout, taken, stdoutBy, cell, thread, answer>>
    BY <1>4 DEF Drain, Store, thread
  <2>2. "finalize" \in Readers
    BY DEF Readers
  <2>3. /\ who' \in Seq(Readers) /\ Len(who') <= written
        /\ \A i \in DOMAIN who' : who'[i] = IF i \in DOMAIN who THEN who[i] ELSE "finalize"
        /\ \A i, j \in DOMAIN who' : i < j => i \in DOMAIN who
    BY <2>1, <2>2, ChunkTypes
  <2>4. TypeOK'
    BY <2>1, <2>3 DEF TypeOK, thread
  <2>5. Places' /\ Locks' /\ Cell' /\ Clearing'
    BY <2>1 DEF Places, Place, Locks, Cell, Clearing, AllExited, Exited, thread
  <2>6. stdout = "GivenAway" /\ ~taken /\ final = <<>>
    BY <2>1, Numbers DEF Consumers, Locks, Cell, Finalizing, HoldingStdout
  <2>7. Consumers'
    BY <2>1, <2>3, <2>6 DEF Consumers, thread
  <2> QED BY <2>4, <2>5, <2>7
<1> QED BY <1>1, <1>2, <1>3, <1>4

LEMMA ReadSteps ==
  ASSUME Inv, NEW t \in Threads, ReadLock(t) \/ Reading(t) \/ TakeStdout(t)
  PROVE  Inv'
<1> USE DEF Inv, os, loop, pipe, cell, locals
<1>1. CASE ReadLock(t) /\ stdout = "GivenAway"
  <2>1. /\ Return(t) /\ pc[t] = "read" /\ Lasting
        /\ UNCHANGED <<phase, os, pipe, cell, calls, answer>>
    BY <1>1 DEF ReadLock, Lasting
  <2>2. TypeOK'
    BY <2>1, ReturnTypes DEF TypeOK
  <2>3. Places'
    BY <2>1, ReturnTypes, IdlePlace, PlacesStay
  <2>4. Locks' /\ Cell' /\ Consumers'
    BY <2>1, ReturnTypes, OutsideStays DEF Finalizing, HoldingStdout
  <2>5. Clearing'
    BY <2>1 DEF Clearing, Exited
  <2> QED BY <2>2, <2>3, <2>4, <2>5
<1>2. CASE ReadLock(t) /\ stdout # "GivenAway"
  <2>1. /\ stdoutBy = None /\ stdoutBy' = t /\ Goto(t, "reading") /\ pc[t] = "read"
        /\ stdout' = "Cached" /\ Lasting
        /\ UNCHANGED <<phase, os, who, taken, cell, calls, answer>>
    BY <1>2 DEF ReadLock, Lasting
  <2>2. /\ pc' \in [Threads -> PCs] /\ pc'[t] = "reading" /\ at' = at /\ stats' = stats
        /\ \A u \in Threads \ {t} : pc'[u] = pc[u]
    BY <2>1, GotoTypes DEF PCs
  <2>3. TypeOK'
    BY <2>1, <2>2 DEF TypeOK
  <2>4. Place(t)'
    BY <2>1, <2>2 DEF Places, Place, Ending, WaitOps
  <2>5. Places'
    BY <2>1, <2>2, <2>4, PlacesStay
  <2>6. Locks'
    BY <2>1, <2>2, Numbers DEF Locks, Finalizing, HoldingStdout
  <2>7. Cell'
    BY <2>1, <2>2 DEF Cell, AllExited, Exited
  <2>8. Consumers'
    <3>1. \A u \in Threads \ {t} : pc[u] \notin HoldingStdout
      BY <2>1, Numbers DEF Locks
    <3> QED BY <1>2, <2>1, <2>2, <3>1 DEF Consumers, HoldingStdout
  <2>9. Clearing'
    BY <2>1 DEF Clearing, Exited
  <2> QED BY <2>3, <2>5, <2>6, <2>7, <2>8, <2>9
<1>3. CASE Reading(t)
  <2>1. /\ Return(t) /\ pc[t] = "reading" /\ Lasting /\ stdoutBy' = None
        /\ stdout = "Cached" /\ ~taken /\ stdoutBy = t
        /\ UNCHANGED <<phase, os, stdout, taken, cell, calls, answer>>
    BY <1>3, Numbers DEF Reading, Lasting, Consumers, Locks, HoldingStdout
  <2>2. /\ who' \in Seq(Readers) /\ Len(who') <= written
        /\ \A i \in DOMAIN who' : who'[i] = "read"
        /\ (Len(who) = written => who' = who)
    <3>1. \A i \in DOMAIN who : who[i] = "read"
      BY <2>1 DEF Consumers
    <3>2. CASE Len(who) < written /\ who' = Append(who, "read")
      <4>1. "read" \in Readers
        BY DEF Readers
      <4> QED BY <3>1, <3>2, <4>1, ChunkTypes
    <3>3. CASE UNCHANGED who
      BY <3>1, <3>3 DEF TypeOK
    <3> QED BY <1>3, <3>2, <3>3 DEF Reading
  <2>3. TypeOK'
    BY <2>1, <2>2, ReturnTypes DEF TypeOK
  <2>4. Places'
    BY <2>1, ReturnTypes, IdlePlace, PlacesStay
  <2>5. Locks'
    BY <2>1, ReturnTypes, Numbers DEF Locks, Finalizing, HoldingStdout
  <2>6. Cell'
    BY <2>1, ReturnTypes DEF Cell, AllExited, Exited
  <2>7. Consumers'
    <3>1. \A u \in Threads : pc'[u] \notin {"drain", "reading"}
      BY <2>1, ReturnTypes DEF Locks, HoldingStdout
    <3> QED BY <2>1, <2>2, <3>1 DEF Consumers
  <2>8. Clearing'
    BY <2>1 DEF Clearing, Exited
  <2> QED BY <2>3, <2>4, <2>5, <2>6, <2>7, <2>8
<1>4. CASE TakeStdout(t)
  <2>1. /\ Return(t) /\ pc[t] = "take_stdout" /\ Lasting /\ stdoutBy = None
        /\ stdout' = (IF stdout = "NotTaken" THEN "GivenAway" ELSE stdout)
        /\ UNCHANGED <<phase, os, who, stdoutBy, cell, calls, answer>>
    BY <1>4 DEF TakeStdout, Lasting
  <2>2. /\ taken' \in BOOLEAN /\ (stdout # "NotTaken" => taken' = taken)
        /\ (stdout = "NotTaken" => taken')
    BY <1>4 DEF TakeStdout, TypeOK
  <2>3. TypeOK'
    BY <2>1, <2>2, ReturnTypes DEF TypeOK
  <2>4. Places'
    BY <2>1, ReturnTypes, IdlePlace, PlacesStay
  <2>5. Locks' /\ Cell' /\ Clearing'
    BY <2>1, ReturnTypes
       DEF Locks, Cell, Finalizing, HoldingStdout, Clearing, AllExited, Exited
  <2>6. Consumers'
    <3>1. \A u \in Threads : pc'[u] \notin {"drain", "reading"} /\ pc[u] # "drain"
      BY <2>1, ReturnTypes, Numbers DEF Locks, HoldingStdout
    <3>2. CASE stdout = "NotTaken"
      BY <2>1, <2>2, <3>1, <3>2 DEF Consumers
    <3>3. CASE stdout # "NotTaken"
      BY <2>1, <2>2, <3>1, <3>3 DEF Consumers
    <3> QED BY <3>2, <3>3
  <2> QED BY <2>3, <2>4, <2>5, <2>6
<1> QED BY <1>1, <1>2, <1>3, <1>4

-----------------------------------------------------------------------------
LEMMA InvStep ==
  ASSUME Inv, [Next]_vars
  PROVE  Inv'
<1>1. CASE UNCHANGED vars
  BY <1>1 DEF vars, os, pipe, cell, thread, Inv, TypeOK, Places, Place,
                  Locks, Cell, Consumers, Clearing, AllExited, Exited, loop
<1>2. CASE Next
  BY <1>2, SystemSteps, CallStep, StageSteps, FinalizeSteps, DrainSteps,
     ReadSteps DEF Next, Thread
<1> QED BY <1>1, <1>2

THEOREM Invariance == Spec => []Inv
<1>1. Inv /\ [Next]_vars => Inv'
  BY InvStep
<1> QED BY InitInv, <1>1, PTL DEF Spec

(* Every variable keeps its type: a state has a status for each stage.     *)
THEOREM TypeCorrect == Spec => []TypeOK
<1>1. Inv => TypeOK
  BY DEF Inv
<1> QED BY <1>1, Invariance, PTL

(* However the calls interleave, each chunk of stdout has one consumer,    *)
(* and the outcome has what Read left over and the whole of stderr         *)
(* (take_stdout, read_via_handle, drain_remaining_stdout).                 *)
THEOREM AccountingCorrect == Spec => []StdoutAccounting
<1>1. Inv => StdoutAccounting
  <2> SUFFICES ASSUME Inv PROVE StdoutAccounting
    OBVIOUS
  <2>1. Len(who) = written => \A i \in 1..written : i \in DOMAIN who
    BY DEF Inv, TypeOK
  <2> QED BY <2>1 DEF Inv, Cell, Consumers, StdoutAccounting
<1> QED BY <1>1, Invariance, PTL

(* A spawn that fails half way and a handle that is dropped leave no stage *)
(* running or unreaped (kill_and_wait_shared_children, Drop).              *)
THEOREM NoneLeftCorrect == Spec => []NoneLeft
<1>1. Inv => NoneLeft
  BY Numbers DEF Inv, Clearing, NoneLeft
<1> QED BY <1>1, Invariance, PTL

(* Whatever happens, a stage that has exited keeps its status: kill spares *)
(* it.                                                                     *)
LEMMA LastingAlways ==
  ASSUME Inv, [Next]_vars
  PROVE  Lasting
<1> USE DEF Lasting, Exited, Exits, Inv, TypeOK, os
<1>1. ASSUME NEW s \in Stages, Spawn(s) \/ StageExits(s) PROVE Lasting
  BY <1>1 DEF Spawn, StageExits
<1>2. CASE ClearStage
  BY <1>2, ClearTypes
<1>3. ASSUME NEW t \in Threads, KillStage(t) PROVE Lasting
  BY <1>3 DEF KillStage
<1>4. CASE UNCHANGED exit
  BY <1>4
<1>5. \/ \E s \in Stages : Spawn(s) \/ StageExits(s)
      \/ ClearStage \/ UNCHANGED exit
      \/ \E t \in Threads : KillStage(t)
  BY DEF Next, Thread, vars, SpawnFails, DropHandle, StageWrites, HolderExits,
         CallerReads, Call,
         StageDone, StageRuns, WaitFails, Finalize, JoinStderr, LockStdout,
         Drain, ReadLock, Reading, TakeStdout
<1> QED BY <1>1, <1>2, <1>3, <1>4, <1>5

-----------------------------------------------------------------------------
(* What pipefail_status computes.  Its recursion is reasoned about by the  *)
(* least number for which it would go wrong.                               *)

Less == {pair \in Nat \X Nat : pair[1] < pair[2]}

LEMMA LessIsWellFounded == IsWellFoundedOn(Less, Nat)
BY NatLessThanWellFounded DEF OpToRel, Less

(* Every set of numbers has a least one.                                   *)
LEMMA LeastNumber ==
  ASSUME NEW T \in SUBSET Nat, T # {}
  PROVE  \E x \in T : \A y \in T : x <= y
<1>1. PICK x \in T : \A y \in T : ~ (<<y, x>> \in Less)
  BY LessIsWellFounded, WFMin
<1>2. \A y \in T : ~ (y < x)
  BY <1>1 DEF Less
<1> QED BY <1>2

(* What the status of the first i stages is by the pipefail rule.          *)
Rule(st, i, status) ==
  \/ status = "ok" /\ \A j \in 1..i : st[j] = "ok"
  \/ \E j \in 1..i : /\ status = st[j] /\ st[j] # "ok"
                     /\ \A k \in (j + 1)..i : st[k] = "ok"

(* The recursion of pipefail_status.                                       *)
Recursion(st, f) ==
  f = [i \in DOMAIN st |->
         IF i = 1 \/ st[i] # "ok" \/ f[i - 1] = "ok" THEN st[i] ELSE f[i - 1]]

(* The rule leaves no choice.                                              *)
LEMMA RuleOnce ==
  ASSUME NEW n \in Nat, NEW st \in [1..n -> Exits], NEW i \in 1..n,
         NEW a, NEW b, Rule(st, i, a), Rule(st, i, b)
  PROVE  a = b
BY DEF Rule

(* One step of the recursion keeps to the rule.                            *)
LEMMA RuleStep ==
  ASSUME NEW n \in Nat, NEW st \in [1..n -> Exits], NEW i \in 1..n, NEW a,
         i > 1 => Rule(st, i - 1, a)
  PROVE  Rule(st, i, IF i = 1 \/ st[i] # "ok" \/ a = "ok" THEN st[i] ELSE a)
<1>1. CASE st[i] # "ok"
  BY <1>1 DEF Rule
<1>2. CASE st[i] = "ok" /\ i = 1
  BY <1>2 DEF Rule
<1>3. CASE st[i] = "ok" /\ i # 1
  <2>1. \A j \in 1..i : j \in 1..(i - 1) \/ j = i
    OBVIOUS
  <2>2. i > 1 /\ Rule(st, i - 1, a)
    BY <1>3
  <2>3. CASE a = "ok"
    <3>1. \A j \in 1..(i - 1) : st[j] = "ok"
      <4>1. ASSUME NEW j \in 1..(i - 1), a = st[j] /\ st[j] # "ok" PROVE FALSE
        BY <2>3, <4>1
      <4> QED BY <2>2, <4>1 DEF Rule
    <3> QED BY <1>3, <2>1, <2>3, <3>1 DEF Rule
  <2>4. CASE a # "ok"
    <3>1. PICK j \in 1..(i - 1) : /\ a = st[j] /\ st[j] # "ok"
                                  /\ \A k \in (j + 1)..(i - 1) : st[k] = "ok"
      BY <2>2, <2>4 DEF Rule
    <3>2. \A k \in (j + 1)..i : st[k] = "ok"
      BY <1>3, <3>1
    <3>3. j \in 1..i
      OBVIOUS
    <3> QED BY <1>3, <2>4, <3>1, <3>2, <3>3 DEF Rule
  <2> QED BY <2>3, <2>4
<1> QED BY <1>1, <1>2, <1>3

(* There is a status for each prefix.                                      *)
LEMMA RuleHas ==
  ASSUME NEW n \in Nat, NEW st \in [1..n -> Exits], NEW m \in 1..n
  PROVE  \E a : Rule(st, m, a)
<1> DEFINE T == {i \in 1..n : ~ \E a : Rule(st, i, a)}
<1>1. SUFFICES ASSUME T # {} PROVE FALSE
  OBVIOUS
<1>2. \E x \in T : \A y \in T : x <= y
  <2>1. T \in SUBSET Nat
    OBVIOUS
  <2> HIDE DEF T
  <2> QED BY <1>1, <2>1, LeastNumber
<1>3. PICK x \in T : \A y \in T : x <= y
  BY <1>2
<1>4. x > 1 => \E a : Rule(st, x - 1, a)
  <2>1. x > 1 => x - 1 \in 1..n /\ x - 1 \notin T
    BY <1>3
  <2> QED BY <2>1
<1>5. PICK a : x > 1 => Rule(st, x - 1, a)
  BY <1>4
<1>6. x \in 1..n
  OBVIOUS
<1> HIDE DEF T
<1>7. Rule(st, x, IF x = 1 \/ st[x] # "ok" \/ a = "ok" THEN st[x] ELSE a)
  BY <1>5, <1>6, RuleStep
<1> QED BY <1>3, <1>7 DEF T

(* There is a function that satisfies the recursion.                       *)
LEMMA PipefailRecursion ==
  ASSUME NEW n \in Nat, n > 0, NEW st \in [1..n -> Exits]
  PROVE  \E f : Recursion(st, f)
<1> DEFINE f == [i \in 1..n |-> CHOOSE a : Rule(st, i, a)]
<1>1. \A i \in 1..n : Rule(st, i, f[i])
  BY RuleHas
<1>2. ASSUME NEW i \in 1..n
      PROVE f[i] = IF i = 1 \/ st[i] # "ok" \/ f[i - 1] = "ok" THEN st[i] ELSE f[i - 1]
  <2>1. i > 1 => i - 1 \in 1..n
    OBVIOUS
  <2>2. i > 1 => Rule(st, i - 1, f[i - 1])
    BY <1>1, <2>1
  <2> HIDE DEF f
  <2>3. Rule(st, i, IF i = 1 \/ st[i] # "ok" \/ f[i - 1] = "ok" THEN st[i] ELSE f[i - 1])
    BY <2>2, RuleStep
  <2> QED BY <1>1, <2>3, RuleOnce
<1>3. DOMAIN st = 1..n /\ DOMAIN f = 1..n
  OBVIOUS
<1>4. f = [i \in DOMAIN f |-> f[i]]
  OBVIOUS
<1> HIDE DEF f
<1>5. Recursion(st, f)
  BY <1>2, <1>3, <1>4 DEF Recursion
<1> QED BY <1>5

(* pipefail_status keeps to the rule.                                      *)
LEMMA PipefailRule ==
  ASSUME NEW n \in Nat, n > 0, NEW st \in [1..n -> Exits], Len(st) = n
  PROVE  Rule(st, n, Pipefail(st))
<1> DEFINE f == CHOOSE f : Recursion(st, f)
<1>1. Recursion(st, f)
  BY PipefailRecursion
<1>2. Pipefail(st) = f[n]
  BY DEF Pipefail, Recursion
<1> HIDE DEF f
<1> DEFINE T == {i \in 1..n : ~ Rule(st, i, f[i])}
<1>3. SUFFICES ASSUME T # {} PROVE FALSE
  BY <1>2
<1>4. \E x \in T : \A y \in T : x <= y
  <2>1. T \in SUBSET Nat
    OBVIOUS
  <2> HIDE DEF T
  <2> QED BY <1>3, <2>1, LeastNumber
<1>5. PICK x \in T : \A y \in T : x <= y
  BY <1>4
<1>6. x > 1 => Rule(st, x - 1, f[x - 1])
  BY <1>5
<1>7. f[x] = IF x = 1 \/ st[x] # "ok" \/ f[x - 1] = "ok" THEN st[x] ELSE f[x - 1]
  BY <1>1 DEF Recursion
<1> QED BY <1>6, <1>7, RuleStep

-----------------------------------------------------------------------------
(* The statuses of an outcome.                                             *)

(* What the calls have collected, what is cached and what was answered are *)
(* the statuses the stages ended with.                                     *)
Gathered ==
  \A t \in Threads : \A s \in 1..Len(stats[t]) :
    s \in Stages /\ Exited(s) /\ stats[t][s] = exit[s]

Cached == final # <<>> => final[1].statuses = exit

Answered ==
  \A t \in Threads : answer[t].kind = "outcome" => final # <<>> /\ answer[t].state = final

Statuses == Gathered /\ Cached /\ Answered

LEMMA StatusesInit == Init => Statuses
BY DEF Init, Statuses, Gathered, Cached, Answered, NoAnswer

(* A call gets one status more, keeps what it has, or returns.             *)
LEMMA GatheredStep ==
  ASSUME Inv, Gathered, [Next]_vars
  PROVE  Gathered'
<1> USE DEF os, thread, locals
<1>1. Lasting
  BY LastingAlways
<1>2. ASSUME NEW t \in Threads,
             stats'[t] \in {stats[t], <<>>} \/ StageDone(t)
      PROVE  \A s \in 1..Len(stats'[t]) :
               s \in Stages /\ Exited(s)' /\ stats'[t][s] = exit'[s]
  <2>1. CASE stats'[t] \in {stats[t], <<>>}
    BY <1>1, <2>1 DEF Gathered, Lasting, Exited
  <2>2. CASE StageDone(t)
    <3>1. /\ at[t] \in Stages /\ Exited(at[t]) /\ at[t] = Len(stats[t]) + 1
          /\ stats[t] \in Seq(Exits) /\ exit' = exit
          /\ stats'[t] = Append(stats[t], exit[at[t]])
      <4>1. /\ at[t] \in Stages /\ stats[t] \in Seq(Exits)
            /\ stats \in [Threads -> Seq(Exits)] /\ Place(t)
        BY DEF Inv, TypeOK, Places
      <4>2. /\ pc[t] \in WaitOps /\ Exited(at[t]) /\ exit' = exit
            /\ stats' = [stats EXCEPT ![t] = Append(@, exit[at[t]])]
        BY <2>2 DEF StageDone
      <4>3. Len(stats[t]) = at[t] - 1 /\ at[t] \in Nat
        BY <4>1, <4>2, Numbers DEF Place
      <4> QED BY <4>1, <4>2, <4>3
    <3>2. \A s \in 1..Len(stats'[t]) :
            IF s = at[t] THEN stats'[t][s] = exit[at[t]]
            ELSE s \in 1..Len(stats[t]) /\ stats'[t][s] = stats[t][s]
      BY <3>1, Numbers DEF Exited
    <3> QED BY <3>1, <3>2 DEF Gathered, Exited
  <2> QED BY <1>2, <2>1, <2>2
<1>3. ASSUME NEW t \in Threads
      PROVE  stats'[t] \in {stats[t], <<>>} \/ StageDone(t)
  <2>1. ASSUME NEW u \in Threads, Return(u) PROVE stats'[t] \in {stats[t], <<>>}
    BY <2>1 DEF Return, Inv, TypeOK
  <2>2. ASSUME NEW u \in Threads, StageDone(u) PROVE stats'[t] = stats[t] \/ u = t
    BY <2>2 DEF StageDone, Inv, TypeOK
  <2>3. CASE UNCHANGED stats
    BY <2>3
  <2>4. ASSUME NEW u \in Threads, Thread(u) \/ WaitFails(u)
        PROVE  UNCHANGED stats \/ StageDone(u) \/ Return(u)
    BY <2>4 DEF Thread, KillStage, StageRuns, WaitFails, Finalize, JoinStderr,
                LockStdout, Drain, Store, ReadLock, Reading, TakeStdout, Goto
  <2>5. UNCHANGED stats \/ \E u \in Threads : Thread(u) \/ WaitFails(u)
    BY DEF Next, vars, Spawn, StageExits, StageWrites, HolderExits, SpawnFails,
           DropHandle, ClearStage, CallerReads, Call
  <2> QED BY <2>1, <2>2, <2>3, <2>4, <2>5
<1> QED BY <1>2, <1>3 DEF Gathered

(* What is stored are the statuses of all the stages.                      *)
LEMMA StoredStatuses ==
  ASSUME Inv, Gathered, NEW t \in Threads, pc[t] \in {"stdout", "drain"},
         NEW chunks \in SUBSET (1..MaxChunks), Store(t, chunks), UNCHANGED exit
  PROVE  Cached' /\ (Answered => Answered')
<1>1. stats[t] \in Seq(Exits) /\ Len(stats[t]) = N /\ exit = [s \in Stages |-> exit[s]]
  BY DEF Inv, TypeOK, Places, Place, Ending
<1>2. stats[t] = exit
  <2>1. stats[t] = [s \in 1..N |-> stats[t][s]]
    BY <1>1
  <2>2. \A s \in 1..N : stats[t][s] = exit[s]
    BY <1>1, Numbers DEF Gathered
  <2> QED BY <1>1, <2>1, <2>2 DEF Stages
<1>3. final'[1].statuses = stats[t]
  BY DEF Store
<1>4. /\ answer' = [answer EXCEPT ![t] = [kind |-> "outcome", state |-> final']]
      /\ final' # <<>>
  BY StoreTypes
<1>5. final = <<>>
  BY Numbers DEF Inv, Locks, Cell, Finalizing
<1>6. Answered => Answered'
  <2> SUFFICES ASSUME Answered, NEW u \in Threads, answer'[u].kind = "outcome"
               PROVE  answer'[u].state = final'
    BY <1>4 DEF Answered
  <2>1. CASE u = t
    BY <1>4, <2>1 DEF Inv, TypeOK
  <2>2. CASE u # t
    BY <1>4, <1>5, <2>2 DEF Inv, TypeOK, Answered
  <2> QED BY <2>1, <2>2
<1> QED BY <1>2, <1>3, <1>6 DEF Cached

LEMMA StatusesStep ==
  ASSUME Inv, Statuses, [Next]_vars
  PROVE  Statuses'
<1> USE DEF os, cell
<1>1. Gathered'
  BY GatheredStep DEF Statuses
<1>2. Lasting
  BY LastingAlways
<1>3. UNCHANGED final => Cached'
  <2> SUFFICES ASSUME final' = final, final # <<>> PROVE final[1].statuses = exit'
    BY DEF Cached
  <2>1. AllExited /\ exit' \in [Stages -> {"none", "running"} \union Exits]
    <3>1. TypeOK'
      BY InvStep DEF Inv
    <3> QED BY <3>1 DEF TypeOK, Inv, Cell
  <2>2. \A s \in Stages : exit'[s] = exit[s]
    BY <1>2, <2>1 DEF Lasting, AllExited
  <2>3. exit' = exit
    BY <2>1, <2>2 DEF Inv, TypeOK
  <2> QED BY <2>3 DEF Statuses, Cached
<1>4. CASE UNCHANGED <<final, answer>>
  BY <1>1, <1>3, <1>4 DEF Statuses, Answered
<1>5. ASSUME NEW t \in Threads, NEW kind \in {"running", "error", "outcome"},
             NEW state, Answers(t, kind, state), UNCHANGED final,
             kind = "outcome" => state = final /\ final # <<>>
      PROVE  Statuses'
  <2>1. Answered'
    BY <1>5 DEF Statuses, Answered, Answers, Inv, TypeOK
  <2> QED BY <1>1, <1>3, <1>5, <2>1 DEF Statuses
<1>6. ASSUME NEW t \in Threads, StageRuns(t) \/ WaitFails(t) PROVE Statuses'
  BY <1>5, <1>6 DEF StageRuns, WaitFails
<1>7. ASSUME NEW t \in Threads, Finalize(t) PROVE Statuses'
  BY <1>4, <1>5, <1>7 DEF Finalize
<1>8. ASSUME NEW t \in Threads, LockStdout(t) PROVE Statuses'
  <2>1. CASE stdout = "GivenAway"
    <3>1. {} \in SUBSET (1..MaxChunks)
      OBVIOUS
    <3>2. Store(t, {}) /\ pc[t] = "stdout" /\ UNCHANGED exit
      BY <1>8, <2>1 DEF LockStdout
    <3> QED BY <1>1, <3>1, <3>2, StoredStatuses DEF Statuses
  <2>2. CASE stdout # "GivenAway"
    BY <1>4, <1>8, <2>2 DEF LockStdout
  <2> QED BY <2>1, <2>2
<1>9. ASSUME NEW t \in Threads, Drain(t) PROVE Statuses'
  <2> DEFINE chunks == {i \in DOMAIN who : who[i] = "finalize"}
  <2>1. chunks \in SUBSET (1..MaxChunks)
    BY Numbers DEF Inv, TypeOK
  <2>2. \/ UNCHANGED <<final, answer>>
        \/ Store(t, chunks) /\ pc[t] = "drain" /\ UNCHANGED exit
    BY <1>9 DEF Drain
  <2> HIDE DEF chunks
  <2> QED BY <1>1, <1>4, <2>1, <2>2, StoredStatuses DEF Statuses
<1> QED BY <1>4, <1>6, <1>7, <1>8, <1>9
        DEF Next, Thread, vars, Spawn, StageExits, StageWrites, HolderExits,
            SpawnFails, DropHandle, ClearStage, CallerReads, Call, KillStage, StageDone,
            JoinStderr, ReadLock, Reading, TakeStdout

(* However the calls and the kills interleave, an outcome carries the      *)
(* status of the rightmost stage that failed, or success when none did,    *)
(* for any number of stages (pipefail_status, reconstruct).                *)
THEOREM StatusCorrect == Spec => []StatusIsPipefail
<1>1. Inv /\ Statuses => StatusIsPipefail
  <2> SUFFICES ASSUME Inv, Statuses, NEW t \in Threads, answer[t].kind = "outcome"
               PROVE  LET failed == {s \in Stages : exit[s] # "ok"}
                          status == StatusOf(answer[t].state) IN
                      IF failed = {} THEN status = "ok"
                      ELSE \E s \in failed : status = exit[s] /\ \A r \in failed : r <= s
    BY DEF StatusIsPipefail
  <2>1. StatusOf(answer[t].state) = Pipefail(exit)
    BY DEF Statuses, Cached, Answered, StatusOf
  <2>2. exit \in [1..N -> Exits] /\ Len(exit) = N
    <3>1. exit \in [1..N -> Exits]
      BY DEF Inv, TypeOK, Cell, Statuses, Answered, AllExited, Exited, Stages
    <3> QED BY <3>1, Numbers
  <2>3. Rule(exit, N, Pipefail(exit))
    BY <2>2, Numbers, PipefailRule
  <2> QED BY <2>1, <2>2, <2>3, Numbers DEF Rule, Stages
<1>2. Statuses /\ Inv /\ [Next]_vars => Statuses'
  BY StatusesStep
<1> QED BY StatusesInit, Invariance, <1>1, <1>2, PTL DEF Spec

-----------------------------------------------------------------------------
(* The handle implements OneOutcome.                                       *)

LEMMA PromiseInit == Init => Promise!Init
<1> SUFFICES ASSUME Init PROVE Promise!Init
  OBVIOUS
<1>1. AllExited = FALSE
  BY Numbers DEF Init, AllExited, Exited, Exits
<1> QED BY <1>1 DEF Init, Promise!Init, NoAnswer

(* The stages are the processes of the promise: they are done once, and    *)
(* for good.                                                               *)
LEMMA PromiseExits ==
  ASSUME Inv, [Next]_vars, UNCHANGED <<final, answer>>
  PROVE  [Promise!Next]_(Promise!vars)
<1>1. Lasting
  BY LastingAlways
<1>2. AllExited => AllExited'
  BY <1>1 DEF Lasting, AllExited, Exited
<1>3. CASE AllExited' /\ ~AllExited
  BY <1>3 DEF Promise!Next, Promise!Exit, AllExited
<1>4. CASE AllExited' <=> AllExited
  <2>1. AllExited' = AllExited
    BY <1>4 DEF AllExited
  <2> QED BY <2>1 DEF Promise!vars
<1> QED BY <1>2, <1>3, <1>4

LEMMA PromiseStep == Inv /\ [Next]_vars => [Promise!Next]_(Promise!vars)
<1> SUFFICES ASSUME Inv, [Next]_vars PROVE [Promise!Next]_(Promise!vars)
  OBVIOUS
<1> USE DEF os
<1>1. ASSUME NEW t \in Threads, StageRuns(t) PROVE Promise!Next
  <2>1. ~AllExited /\ Answers(t, "running", <<>>) /\ UNCHANGED <<exit, final>>
    BY <1>1 DEF StageRuns, AllExited, Exited, Exits, Inv, TypeOK, cell
  <2> QED BY <2>1 DEF Promise!Next, Promise!SayRunning, Promise!Says, Answers,
                      AllExited, Exited
<1>2. ASSUME NEW t \in Threads, WaitFails(t) PROVE Promise!Next
  BY <1>2 DEF WaitFails, Promise!Next, Promise!SayError, Promise!Says, Answers,
              AllExited, Exited, cell
<1>3. ASSUME NEW t \in Threads, Finalize(t), answer' # answer PROVE Promise!Next
  <2>1. final # <<>> /\ Answers(t, "outcome", final) /\ UNCHANGED <<exit, final>>
    BY <1>3 DEF Finalize
  <2> QED BY <2>1 DEF Promise!Next, Promise!SayOutcome, Promise!Says, Answers,
                      AllExited, Exited
<1>4. ASSUME NEW t \in Threads, NEW chunks \in SUBSET (1..MaxChunks),
             Store(t, chunks), pc[t] \in {"stdout", "drain"}, UNCHANGED exit
      PROVE  Promise!Next
  <2>1. AllExited /\ AllExited' = AllExited
    BY <1>4 DEF Inv, Places, Place, Ending, AllExited, Exited
  <2>2. final = <<>>
    BY <1>4, Numbers DEF Inv, Locks, Cell, Finalizing
  <2>3. final'[1] \in Finals /\ final' = <<final'[1]>>
        /\ answer' = [answer EXCEPT ![t] = [kind |-> "outcome", state |-> final']]
    <3>1. /\ final' \in Seq(Finals) /\ Len(final') = 1 /\ final'[1] \in Finals
          /\ answer' = [answer EXCEPT ![t] = [kind |-> "outcome", state |-> final']]
      BY <1>4, StoreTypes
    <3> QED BY <3>1
  <2>4. Promise!Decide(t)
    BY <2>1, <2>2, <2>3 DEF Promise!Decide, Promise!Says
  <2> QED BY <2>4 DEF Promise!Next
<1>5. ASSUME NEW t \in Threads, LockStdout(t), UNCHANGED <<final, answer>> => FALSE
      PROVE  Promise!Next
  <2>1. Store(t, {}) /\ pc[t] = "stdout" /\ UNCHANGED exit
    BY <1>5 DEF LockStdout
  <2>2. {} \in SUBSET (1..MaxChunks)
    OBVIOUS
  <2> QED BY <1>4, <2>1, <2>2
<1>6. ASSUME NEW t \in Threads, Drain(t), UNCHANGED <<final, answer>> => FALSE
      PROVE  Promise!Next
  <2> DEFINE chunks == {i \in DOMAIN who : who[i] = "finalize"}
  <2>1. Store(t, chunks) /\ pc[t] = "drain" /\ UNCHANGED exit
    BY <1>6 DEF Drain
  <2>2. chunks \in SUBSET (1..MaxChunks)
    BY Numbers DEF Inv, TypeOK
  <2> HIDE DEF chunks
  <2> QED BY <1>4, <2>1, <2>2
<1>7. \/ UNCHANGED <<final, answer>>
      \/ \E t \in Threads : \/ StageRuns(t) \/ WaitFails(t)
                            \/ Finalize(t) /\ answer' # answer
                            \/ LockStdout(t) /\ ~(UNCHANGED <<final, answer>>)
                            \/ Drain(t) /\ ~(UNCHANGED <<final, answer>>)
  BY DEF Next, Thread, vars, cell, Spawn, StageExits, StageWrites, HolderExits,
         SpawnFails, DropHandle, ClearStage, CallerReads, Call, KillStage, StageDone,
         Finalize, JoinStderr, ReadLock, Reading, TakeStdout
<1> QED BY <1>1, <1>2, <1>3, <1>5, <1>6, <1>7, PromiseExits

(* Every wait, try_wait and wait_timeout, by whichever thread, keeps the   *)
(* promise of one outcome (finalize_or_cached, try_wait).                  *)
THEOREM PromiseKept == Spec => KeepsPromise
<1> QED BY PromiseInit, PromiseStep, Invariance, PTL DEF Spec, KeepsPromise, Promise!Spec

-----------------------------------------------------------------------------
(***************************************************************************)
(* The client of the handle, module CollectLines: for any number of stages *)
(* and lines, the callback was given every line when the call answers.     *)
(* The handle keeps its invariant under the steps of this client.          *)
(***************************************************************************)

(* The pipe is at its end and the callback was given all of it.            *)
AllPassed ==
  /\ passed = written /\ Len(who) = written
  /\ Exited(N) /\ ~holder /\ taken

Client ==
  /\ OneThread
  /\ passed \in Nat /\ passed <= Len(who) /\ garbled \notin 1..passed
  /\ step \in Steps
  /\ step = "spawn" => pc[me] = "idle" /\ final = <<>> /\ stdout = "NotTaken"
  /\ step \notin {"spawn", "ends", "returned"} =>
       /\ phase = "live"
       /\ \/ taken
          \/ /\ step = "read" /\ pc[me] = "take_stdout"
             /\ final = <<>> /\ stdout = "NotTaken"
  /\ taken /\ final # <<>> => final[1].stdout = {}
  /\ answer[me].kind = "outcome" => final # <<>>
  /\ step = "wait" => AllPassed
  /\ result \in Exits => AllPassed /\ final # <<>>
  /\ step \in {"ends", "returned"} => phase \notin {"spawning", "live"}
  /\ result # "none" => step \in {"ends", "returned"}

CollectInv == Inv /\ Client

LEMMA Me ==
  ASSUME OneThread
  PROVE  me \in Threads /\ \A t \in Threads : t = me
BY DEF OneThread, me

LEMMA CollectInit1 == CollectInit => CollectInv
<1> SUFFICES ASSUME CollectInit PROVE CollectInv
  OBVIOUS
<1>1. Inv
  BY InitInv DEF CollectInit
<1>2. Client
  <2>1. pc[me] = "idle" /\ answer[me].kind = "none"
    BY Me DEF CollectInit, Init, NoAnswer
  <2> QED BY <2>1 DEF CollectInit, Init, Client, Exits, Steps
<1> QED BY <1>1, <1>2 DEF CollectInv

(* The handle and the operating system.                                    *)
LEMMA ClearSteps ==
  ASSUME CollectInv, ClearStage, UNCHANGED <<config, client>>
  PROVE  CollectInv'
<1>1. Inv'
  BY SystemSteps DEF CollectInv
<1>2. /\ phase' \notin {"spawning", "live"} /\ phase \in {"aborting", "dropping"}
      /\ UNCHANGED <<holder, written, who, stdout, taken, final, pc, answer>>
      /\ UNCHANGED <<fed, garbled, step, passed, result>>
      /\ Lasting
  BY ClearTypes DEF CollectInv, ClearStage, pipe, cell, thread, config, client
<1>3. AllPassed => AllPassed'
  BY <1>2, Numbers DEF AllPassed, Lasting, Exited
<1>4. Client'
  BY <1>2, <1>3 DEF CollectInv, Client
<1> QED BY <1>1, <1>4 DEF CollectInv

LEMMA HandleSteps ==
  ASSUME CollectInv, Thread(me) \/ WaitFails(me), UNCHANGED <<config, client>>
  PROVE  CollectInv'
<1> USE DEF CollectInv, os, loop, pipe, cell, thread, locals
<1>0. me \in Threads /\ \A t \in Threads : t = me
  BY Me DEF Client
<1>1. /\ Thread(me) \/ WaitFails(me)
      /\ UNCHANGED <<fed, garbled, step, passed, result>>
  BY DEF config, client
<1>2. Inv'
  BY <1>1, <1>0, StageSteps, FinalizeSteps, DrainSteps, ReadSteps DEF Thread
<1>3. pc[me] # "idle" /\ phase = "live" /\ step \notin {"spawn", "ends", "returned"}
  <2>1. pc[me] # "idle"
    BY <1>1 DEF Thread, KillStage, StageDone, StageRuns, WaitFails, Finalize,
       JoinStderr, LockStdout, Drain, ReadLock, Reading, TakeStdout, WaitOps
  <2>2. phase = "live"
    BY <2>1, <1>0 DEF Inv, Places, Place
  <2> QED BY <2>1, <2>2 DEF Client
<1>4. CASE ~taken
  <2>1. /\ step = "read" /\ pc[me] = "take_stdout" /\ final = <<>>
        /\ stdout = "NotTaken"
    BY <1>3, <1>4 DEF Client
  <2>2. TakeStdout(me)
    BY <1>1, <2>1 DEF Thread, KillStage, StageDone, StageRuns, WaitFails, Finalize,
       JoinStderr, LockStdout, Drain, ReadLock, Reading, WaitOps
  <2>3. taken' /\ UNCHANGED <<phase, who, final, answer>>
    <3>1. taken' = (taken \/ stdout = "NotTaken")
      BY <2>2 DEF TakeStdout
    <3>2. UNCHANGED <<phase, who, final, answer>>
      BY <2>2 DEF TakeStdout
    <3> QED BY <2>1, <3>1, <3>2
  <2>4. UNCHANGED <<garbled, step, passed, result>>
    BY <1>1
  <2>5. result \notin Exits /\ result = "none" /\ answer[me].kind # "outcome"
    BY <2>1 DEF Client
  <2>6. /\ step' = "read" /\ phase' = "live" /\ final' = <<>> /\ result' = "none"
        /\ answer'[me].kind # "outcome" /\ passed' = passed /\ garbled' = garbled
        /\ Len(who') = Len(who)
        /\ passed' \in Nat /\ passed' <= Len(who') /\ garbled' \notin 1..passed'
    BY <1>3, <2>1, <2>3, <2>4, <2>5 DEF Client
  <2>7. Client'
    BY <2>3, <2>6 DEF Client, Exits, Steps
  <2> QED BY <1>2, <2>7
<1>5. CASE taken
  <2>1. pc[me] \notin {"drain", "reading"} /\ stdout = "GivenAway"
    BY <1>5, <1>0, Numbers DEF Inv, Consumers, Locks, HoldingStdout
  <2>2. /\ UNCHANGED <<phase, who, written, holder>> /\ taken'
        /\ (Exited(N) => Exited(N)')
    <3>1. CASE KillStage(me)
      <4>1. Exited(N) => exit'[N] = exit[N]
        BY <3>1, Numbers DEF KillStage, Exited, Exits, Inv, TypeOK
      <4> QED BY <1>5, <3>1, <4>1 DEF KillStage, Exited
    <3>2. CASE TakeStdout(me)
      <4>1. taken' = TRUE
        BY <1>5, <2>1, <3>2 DEF TakeStdout
      <4> QED BY <3>2, <4>1 DEF TakeStdout, Exited
    <3> QED BY <1>1, <1>5, <2>1, <3>1, <3>2
            DEF Thread, StageDone, StageRuns, WaitFails, Finalize, JoinStderr,
                LockStdout, Drain, ReadLock, Reading, Exited
  <2>3. AllPassed => AllPassed'
    BY <1>1, <1>5, <2>2 DEF AllPassed
  <2>4. CASE UNCHANGED final /\ (answer'[me].kind = "outcome" =>
                                   answer[me].kind = "outcome" \/ final # <<>>)
    BY <1>1, <1>2, <1>3, <1>5, <2>2, <2>3, <2>4 DEF Client, Exits
  <2>5. CASE Store(me, {}) /\ pc[me] = "stdout"
    <3>1. {} \in SUBSET (1..MaxChunks)
      OBVIOUS
    <3>2. final' # <<>> /\ final'[1].stdout = {}
      BY <2>5, <3>1, <1>0, StoreTypes
    <3> QED BY <1>1, <1>2, <1>3, <1>5, <2>2, <2>3, <3>2 DEF Client, Exits
  <2>6. CASE StageRuns(me) \/ WaitFails(me)
    <3>1. UNCHANGED final /\ answer'[me].kind # "outcome"
      BY <2>6, <1>0 DEF StageRuns, WaitFails, Answers, Inv, TypeOK
    <3> QED BY <2>4, <3>1
  <2>7. CASE Finalize(me)
    <3>1. /\ UNCHANGED final
          /\ answer' = answer \/ final # <<>>
      BY <2>7 DEF Finalize
    <3> QED BY <2>4, <3>1
  <2> QED BY <1>1, <2>1, <2>4, <2>5, <2>6, <2>7
          DEF Thread, KillStage, StageDone, JoinStderr, LockStdout, Drain, ReadLock,
              Reading, TakeStdout
<1> QED BY <1>4, <1>5

LEMMA OSSteps ==
  ASSUME CollectInv, System
  PROVE  CollectInv'
<1> USE DEF CollectInv, os, loop, pipe, cell, thread, locals
<1>1. /\ \/ \E s \in Stages : Spawn(s) \/ StageExits(s)
         \/ StageWrites \/ HolderExits
      /\ UNCHANGED <<fed, garbled, step, passed, result>>
  BY DEF System, config, client
<1>2. Inv'
  BY <1>1, SystemSteps
<1>3. /\ UNCHANGED <<who, stdout, taken, pc, final, answer>>
      /\ phase # "spawning" => phase' = phase
      /\ Exited(N) => Exited(N)'
      /\ Exited(N) /\ ~holder => written' = written /\ ~holder'
  <2>1. ASSUME NEW s \in Stages, Spawn(s) \/ StageExits(s)
        PROVE  /\ UNCHANGED <<who, stdout, taken, pc, final, answer, written, holder>>
               /\ phase # "spawning" => phase' = phase
               /\ Exited(N) => exit'[N] = exit[N]
    BY <2>1, Numbers DEF Spawn, StageExits, Exited, Exits, Inv, TypeOK
  <2>2. CASE StageWrites \/ HolderExits
    BY <2>2 DEF StageWrites, HolderExits, Exited, Exits
  <2> QED BY <1>1, <2>1, <2>2 DEF Exited
<1>4. AllPassed => AllPassed'
  BY <1>1, <1>3 DEF AllPassed
<1>5. UNCHANGED <<garbled, step, passed, result>>
  BY <1>1
<1>6. step # "spawn" => phase' = phase
  BY <1>3 DEF Client
<1> HIDE DEF CollectInv
<1>7. Client'
  BY <1>3, <1>4, <1>5, <1>6 DEF Client, CollectInv
<1> QED BY <1>2, <1>7 DEF CollectInv

-----------------------------------------------------------------------------
(* The caller.                                                             *)

(* What the handle knows of the pipe before the call has taken it.         *)
LEMMA NothingYet ==
  ASSUME Inv
  PROVE  /\ stdout = "NotTaken" => Len(who) = 0 /\ ~taken
         /\ Len(who) \in Nat /\ Len(who) <= written /\ written \in Nat
         /\ taken => stdout = "GivenAway" /\ stdoutBy = None
                     /\ \A i \in DOMAIN who : who[i] = "caller"
BY Numbers DEF Inv, TypeOK, Consumers

LEMMA IssueKeeps ==
  ASSUME CollectInv, NEW o \in Ops, Issue(o), phase = "live"
  PROVE  /\ Inv' /\ pc'[me] = o
         /\ UNCHANGED <<phase, os, pipe, cell, answer>>
<1>0. me \in Threads /\ \A t \in Threads : t = me
  BY Me DEF CollectInv, Client
<1>1. calls' \in [Threads -> 0..MaxCalls]
  BY DEF CollectInv, Inv, TypeOK, Issue
<1>2. Inv'
  BY <1>0, <1>1, IssueStep DEF CollectInv, Issue
<1>3. pc'[me] = o
  BY <1>0 DEF CollectInv, Inv, TypeOK, Issue
<1> QED BY <1>2, <1>3 DEF Issue

LEMMA CallSteps ==
  ASSUME CollectInv, TakesStdout \/ EndOfLines \/ Kills \/ Reaps
  PROVE  CollectInv'
<1> USE DEF CollectInv, os, loop, pipe, cell
<1>1. CASE TakesStdout
  <2>1. /\ Issue("take_stdout") /\ phase = "live" /\ step' = "read" /\ step = "spawn"
        /\ UNCHANGED <<fed, garbled, passed, result>>
    BY <1>1 DEF TakesStdout, config
  <2>2. "take_stdout" \in Ops
    BY DEF Ops
  <2>3. /\ Inv' /\ pc'[me] = "take_stdout"
        /\ UNCHANGED <<phase, os, pipe, cell, answer>>
    BY <2>1, <2>2, IssueKeeps
  <2>4. Client'
    BY <2>1, <2>3 DEF Client, Steps
  <2> QED BY <2>3, <2>4
<1>2. CASE EndOfLines
  <2>1. /\ Issue("wait") /\ step' = "wait" /\ step = "read" /\ taken /\ StdoutEnds
        /\ passed = Len(who) /\ UNCHANGED <<fed, garbled, passed, result>>
    BY <1>2 DEF EndOfLines, config
  <2>2. "wait" \in Ops /\ phase = "live"
    BY <2>1 DEF Ops, WaitOps, Client
  <2>3. Inv' /\ UNCHANGED <<phase, os, pipe, cell, answer>>
    BY <2>1, <2>2, IssueKeeps
  <2>4. AllPassed'
    BY <2>1, <2>3 DEF AllPassed, StdoutEnds, Exited
  <2>5. Client'
    BY <2>1, <2>2, <2>3, <2>4 DEF Client, Steps
  <2> QED BY <2>3, <2>5
<1>3. CASE Kills \/ Reaps
  <2>1. PICK o \in {"kill", "wait"} :
          /\ Issue(o) /\ step \in {"kill", "reap"} /\ step' \in {"reap", "abort"}
          /\ UNCHANGED <<fed, garbled, passed, result>>
    BY <1>3 DEF Kills, Reaps, config
  <2>2. o \in Ops /\ phase = "live" /\ taken
    BY <2>1 DEF Ops, WaitOps, Client
  <2>3. Inv' /\ UNCHANGED <<phase, os, pipe, cell, answer>>
    BY <2>1, <2>2, IssueKeeps
  <2>4. Client'
    BY <2>1, <2>2, <2>3 DEF Client, Steps, Exits, AllPassed
  <2> QED BY <2>3, <2>4
<1> QED BY <1>1, <1>2, <1>3

LEMMA ReaderSteps ==
  ASSUME CollectInv, Fills \/ Passes \/ Garbled
  PROVE  CollectInv'
<1> USE DEF CollectInv, os, loop, pipe, cell, thread
<1>1. CASE Fills
  <2>1. PICK n \in 1..(written - Len(who)) : who' = who \o [i \in 1..n |-> "caller"]
    BY <1>1 DEF Fills
  <2>2. /\ step = "read" /\ taken /\ pc[me] = "idle"
        /\ UNCHANGED <<phase, exit, reaped, gone, missed, holder, written, stdout, taken, stdoutBy,
                       stderrTo, final, finalBy, pc, at, stats, calls, answer,
                       fed, garbled, step, passed, result>>
    BY <1>1 DEF Fills, config, client
  <2>3. n \in Nat /\ Len(who) + n <= written /\ who \in Seq(Readers) /\ Len(who) \in Nat
    BY NothingYet DEF Inv, TypeOK
  <2>4. [i \in 1..n |-> "caller"] \in Seq(Readers) /\ Len([i \in 1..n |-> "caller"]) = n
    BY <2>3 DEF Readers
  <2>5. who' \in Seq(Readers) /\ Len(who') = Len(who) + n
    BY <2>1, <2>3, <2>4
  <2>6. \A i \in DOMAIN who' : who'[i] = "caller"
    <3> TAKE i \in DOMAIN who'
    <3>1. i \in 1..(Len(who) + n)
      BY <2>5
    <3>2. CASE i <= Len(who)
      BY <2>1, <2>2, <2>3, <2>4, <3>1, <3>2, NothingYet
    <3>3. CASE ~(i <= Len(who))
      <4>1. i - Len(who) \in 1..n
        BY <2>3, <3>1, <3>3
      <4> QED BY <2>1, <2>3, <2>4, <3>1, <3>3, <4>1
    <3> QED BY <3>2, <3>3
  <2>7. TypeOK'
    BY <2>2, <2>3, <2>5 DEF Inv, TypeOK
  <2>8. Places' /\ Locks' /\ Cell' /\ Clearing'
    BY <2>2 DEF Inv, Places, Place, Locks, Cell, Clearing, AllExited, Exited
  <2>9. Consumers'
    BY <2>2, <2>6, NothingYet DEF Inv, Consumers
  <2>10. Client'
    BY <2>2, <2>3, <2>5 DEF Client, Steps, Exits
  <2> QED BY <2>7, <2>8, <2>9, <2>10 DEF Inv
<1>2. CASE Passes \/ Garbled
  <2>1. /\ step = "read" /\ passed < Len(who) /\ step' \in {"read", "kill", "panic"}
        /\ UNCHANGED <<vars, fed, garbled, result>>
        /\ passed' \in {passed, passed + 1} /\ (passed' # passed => passed + 1 # garbled)
    BY <1>2 DEF Passes, Garbled, Line, config
  <2>2. Inv'
    BY <2>1 DEF vars, os, pipe, cell, thread, Inv, TypeOK, Places, Place, Locks,
                Cell, Consumers, Clearing, AllExited, Exited
  <2>3. taken
    BY <2>1, NothingYet DEF Client
  <2>4. passed' \in Nat /\ passed' <= Len(who) /\ garbled \notin 1..passed'
    <3>1. passed \in Nat /\ garbled \notin 1..passed /\ Len(who) \in Nat
      BY NothingYet DEF Client
    <3> QED BY <2>1, <3>1
  <2>5. Client'
    BY <2>1, <2>3, <2>4 DEF vars, Client, Steps, Exits
  <2> QED BY <2>2, <2>5
<1> QED BY <1>1, <1>2

(* What the call returns is settled; then the kill loop ends.              *)
LEMMA EndSteps ==
  ASSUME CollectInv, Returns \/ SpawnRefused
  PROVE  CollectInv'
<1> USE DEF CollectInv, os, loop, pipe, cell, thread
<1>1. /\ DropHandle \/ SpawnFails
      /\ step' = "ends"
      /\ UNCHANGED <<fed, garbled, passed>>
      /\ result' \in Exits => step = "wait" /\ answer[me].kind = "outcome"
  BY DEF Returns, SpawnRefused, Ends, config, Exits
<1>2. Inv'
  BY <1>1, SystemSteps
<1>3. /\ phase' \in {"aborting", "dropping"}
      /\ UNCHANGED <<exit, holder, written, who, stdout, taken, final, answer>>
  BY <1>1 DEF DropHandle, SpawnFails
<1>4. AllPassed => AllPassed'
  BY <1>1, <1>3 DEF AllPassed, Exited
<1>5. Client'
  BY <1>1, <1>3, <1>4 DEF Client, Steps
<1> QED BY <1>2, <1>5

LEMMA EndedStep ==
  ASSUME CollectInv, Ended
  PROVE  CollectInv'
<1>1. /\ UNCHANGED vars /\ UNCHANGED <<fed, garbled, passed, result>>
      /\ step = "ends" /\ step' = "returned"
  BY DEF Ended, config
<1>2. Inv'
  BY <1>1, InvStep DEF CollectInv
<1>3. Client'
  BY <1>1 DEF CollectInv, Client, AllPassed, Exited, Steps, vars, os, pipe, cell, thread
<1> QED BY <1>2, <1>3 DEF CollectInv

THEOREM CollectInvariance == CollectSpec => []CollectInv
<1>1. ASSUME CollectInv, [CollectNext]_allVars PROVE CollectInv'
  <2>1. CASE UNCHANGED allVars
    BY <1>1, <2>1
       DEF allVars, vars, config, client, os, loop, pipe, cell, thread, CollectInv, Inv,
           TypeOK, Places, Place, Locks, Cell, Consumers, Clearing, AllExited, Exited,
           Client, AllPassed
  <2>2. CASE CollectNext
    BY <1>1, <2>2, ClearSteps, HandleSteps, OSSteps, CallSteps, ReaderSteps,
       EndSteps, EndedStep DEF CollectNext, Caller, Handle
  <2> QED BY <1>1, <2>1, <2>2
<1> QED BY CollectInit1, <1>1, PTL DEF CollectSpec

(* When the call answers what wait did, its callback was given every line, *)
(* and the drain of wait found nothing (spawn_and_collect_lines,           *)
(* take_stdout, drain_remaining_stdout).                                   *)
THEOREM EveryLineCorrect == CollectSpec => []EveryLine
<1>1. CollectInv => EveryLine
  BY NothingYet DEF CollectInv, Client, AllPassed, EveryLine
<1> QED BY <1>1, CollectInvariance, PTL
=============================================================================
