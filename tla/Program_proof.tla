--------------------------- MODULE Program_proof ---------------------------
(***************************************************************************)
(* What is proved of Program, for any number of directories on PATH and of *)
(* changes: what is spawned by path is what the search of the operating    *)
(* system would have run.                                                  *)
(***************************************************************************)
EXTENDS Program, TLAPS

(* What the three steps of the probe make of a file that does not change.  *)
Probe(f) ==
  IF f.kind # "file" \/ ~f.executable THEN "Nothing"
  ELSE IF f.readable THEN FormatOf(f) ELSE "Unsure"

(* exec agrees with the probe wherever the probe is sure.                  *)
LEMMA ProbeIsRight ==
  ASSUME NEW f \in Files, NEW v \in Exec(f)
  PROVE  /\ v \in Verdicts
         /\ Probe(f) = "Nothing" => v = "passes"
         /\ Probe(f) = "Runnable" => v = "runs"
<1>1. f \in File /\ (f.head = "native" => f.interp = "present") /\ f.interp # "broken"
  BY ProgramAssumption
<1>2. f.line \in {"whole", "cut"} /\ f.interp \in {"present", "missing", "relative"}
  BY <1>1 DEF File
<1>3. v \in Verdicts
  BY DEF Exec, Verdicts
<1>4. ASSUME Probe(f) = "Nothing" PROVE v = "passes"
  BY <1>4 DEF Probe, FormatOf, Exec
<1>5. ASSUME Probe(f) = "Runnable" PROVE v = "runs"
  BY <1>1, <1>2, <1>5 DEF Probe, FormatOf, Exec
<1> QED BY <1>3, <1>4, <1>5

(* The operating system runs at most one file.                             *)
LEMMA SystemIsSure ==
  ASSUME TypeOK, NEW i \in DOMAIN path, Takes(i)
  PROVE  SystemFinds = i
<1>1. DOMAIN path = 1..Len(path) /\ Len(path) \in Nat
  BY DEF TypeOK
<1>2. ASSUME NEW k \in DOMAIN path, Takes(k) PROVE k = i
  BY <1>1, <1>2 DEF Takes
<1> QED BY <1>2 DEF SystemFinds

LEMMA SystemFindsTaken ==
  /\ SystemFinds = 0 \/ SystemFinds \in DOMAIN path
  /\ SystemFinds \in DOMAIN path => SystemFinds = 0 \/ Takes(SystemFinds)
BY DEF SystemFinds

-----------------------------------------------------------------------------
(* The invariant.                                                          *)

(* What the probe has found, or a change has overtaken.                    *)
Probed(i, what) == i \in touched \/ Probe(files[i]) = what

VerdictOK == \A i \in DOMAIN path : verdict[i] \in Exec(files[i])

SearchOK ==
  /\ pc = "begin" => touched = {} /\ at = 1
  /\ pc = "begin" => found = 0
  /\ pc \in Probing =>
       /\ bare /\ InheritsPath /\ found = 0
       /\ \A i \in 1..(at - 1) : Probed(i, "Nothing")
  /\ pc \in {"access", "read"} =>
       at \in DOMAIN path /\ (at \in touched \/ files[at].kind = "file")
  /\ pc = "read" => at \in touched \/ files[at].executable
  /\ found # 0 =>
       /\ bare /\ InheritsPath
       /\ Probed(found, "Runnable")
       /\ \A i \in 1..(found - 1) : Probed(i, "Nothing")

DoneOK ==
  pc = "done" =>
    ran = IF found # 0
          THEN (IF verdict[found] = "runs" THEN found ELSE 0)
          ELSE IF bare /\ SamePath THEN SystemFinds ELSE Elsewhere

IInv == TypeOK /\ VerdictOK /\ SearchOK /\ DoneOK

LEMMA InitOK == Init => IInv
<1> SUFFICES ASSUME Init PROVE IInv
  OBVIOUS
<1>1. PICK n \in 0..MaxDirs : /\ path \in [1..n -> Entries]
                              /\ files \in [1..n -> Files]
                              /\ verdict \in [1..n -> Verdicts]
  BY DEF Init
<1>2. path \in Seq(Entries) /\ Len(path) = n /\ DOMAIN path = 1..n
  BY <1>1, ProgramAssumption
<1>3. TypeOK
  BY <1>1, <1>2, ProgramAssumption DEF Init, TypeOK
<1>4. VerdictOK /\ SearchOK /\ DoneOK
  BY ProgramAssumption DEF Init, VerdictOK, SearchOK, DoneOK, Probed, Probing
<1> QED BY <1>3, <1>4 DEF IInv

-----------------------------------------------------------------------------
LEMMA StepOK == IInv /\ [Next]_vars => IInv'
<1> SUFFICES ASSUME IInv, [Next]_vars PROVE IInv'
  OBVIOUS
<1> USE DEF IInv, config, system
<1>a. DOMAIN path = 1..Len(path) /\ Len(path) \in Nat
  BY DEF TypeOK
<1>1. CASE Begin
  <2>1. TypeOK'
    BY <1>1, <1>a DEF Begin, Decide, Probing, TypeOK
  <2>2. VerdictOK' /\ DoneOK'
    BY <1>1 DEF Begin, Decide, VerdictOK, DoneOK
  <2>3. SearchOK'
    BY <1>1 DEF Begin, Decide, Probing, SearchOK, InheritsPath, Probed
  <2> QED BY <2>1, <2>2, <2>3
<1>2. CASE Exhausted
  BY <1>2, <1>a DEF Exhausted, Decide, Probing, TypeOK, VerdictOK, DoneOK, SearchOK,
                    InheritsPath, Probed
<1>3. ASSUME PassOver, UNCHANGED <<config, system, ran>>, pc \in Probing,
             at \in DOMAIN path, Probed(at, "Nothing")
      PROVE  IInv'
  <2>1. TypeOK'
    BY <1>3, <1>a DEF PassOver, Probing, TypeOK
  <2>2. VerdictOK' /\ DoneOK'
    BY <1>3 DEF PassOver, VerdictOK, DoneOK
  <2>3. \A i \in 1..(at' - 1) : i = at \/ i \in 1..(at - 1)
    BY <1>3, <1>a DEF PassOver, TypeOK
  <2>4. SearchOK'
    BY <1>3, <2>3 DEF PassOver, Probing, SearchOK, InheritsPath, Probed
  <2> QED BY <2>1, <2>2, <2>4
<1>4. CASE Metadata
  <2>1. CASE files[at].kind = "file"
    BY <1>4, <2>1 DEF Metadata, Look, Probing, TypeOK, VerdictOK, DoneOK, SearchOK,
                      InheritsPath, Probed
  <2>2. CASE files[at].kind # "file"
    BY <1>3, <1>4, <2>2 DEF Metadata, Probing, Probed, Probe
  <2> QED BY <2>1, <2>2
<1>5. CASE Access
  <2>1. CASE files[at].executable
    BY <1>5, <2>1 DEF Access, Look, Probing, TypeOK, VerdictOK, DoneOK, SearchOK,
                      InheritsPath, Probed
  <2>2. CASE ~files[at].executable
    <3>1. Probed(at, "Nothing") /\ at \in DOMAIN path
      BY <1>5, <2>2 DEF Access, SearchOK, Probed, Probe
    <3> QED BY <1>3, <1>5, <2>2, <3>1 DEF Access, Probing
  <2> QED BY <2>1, <2>2
<1>6. CASE Read
  <2>1. /\ found' = 0 \/ (found' = at /\ Probed(at, "Runnable"))
        /\ at \in DOMAIN path
    BY <1>6 DEF Read, Decide, Readable, SearchOK, Probed, Probe
  <2>2. TypeOK'
    BY <1>6, <2>1, <1>a DEF Read, Decide, TypeOK
  <2>3. VerdictOK' /\ DoneOK'
    BY <1>6 DEF Read, Decide, VerdictOK, DoneOK
  <2>4. SearchOK'
    BY <1>6, <2>1, <1>a DEF Read, Decide, Probing, SearchOK, InheritsPath, Probed, TypeOK
  <2> QED BY <2>2, <2>3, <2>4
<1>7. CASE Spawn
  <2>1. SystemFinds = 0 \/ SystemFinds \in DOMAIN path
    BY SystemFindsTaken
  <2>2. TypeOK'
    BY <1>7, <2>1, <1>a DEF Spawn, TypeOK, Elsewhere
  <2>3. VerdictOK' /\ SearchOK'
    BY <1>7 DEF Spawn, Probing, VerdictOK, SearchOK, InheritsPath, Probed
  <2>4. DoneOK'
    BY <1>7 DEF Spawn, DoneOK, SystemFinds, Takes, SamePath, ChildPath
  <2> QED BY <2>2, <2>3, <2>4
<1>8. ASSUME NEW i \in DOMAIN path, Change(i) PROVE IInv'
  <2>1. PICK f \in Files : \E v \in Exec(f) :
          files' = [files EXCEPT ![i] = f] /\ verdict' = [verdict EXCEPT ![i] = v]
    BY <1>8 DEF Change
  <2>2. PICK v \in Exec(f) :
          files' = [files EXCEPT ![i] = f] /\ verdict' = [verdict EXCEPT ![i] = v]
    BY <2>1
  <2>3. v \in Verdicts
    BY ProbeIsRight
  <2>4. TypeOK'
    BY <1>8, <2>2, <2>3, ProgramAssumption DEF Change, TypeOK
  <2>5. VerdictOK'
    BY <1>8, <2>2 DEF Change, TypeOK, VerdictOK
  <2>6. \A j, what : Probed(j, what) => Probed(j, what)'
    BY <1>8, <2>2 DEF Change, Probed, TypeOK
  <2>7. SearchOK'
    BY <1>8, <2>2, <2>6 DEF Change, Probing, SearchOK, InheritsPath, TypeOK
  <2>8. DoneOK'
    BY <1>8 DEF Change, Probing, DoneOK
  <2> QED BY <2>4, <2>5, <2>7, <2>8
<1>9. CASE UNCHANGED vars
  BY <1>9 DEF vars, TypeOK, VerdictOK, SearchOK, DoneOK, Probed, InheritsPath,
              SystemFinds, Takes, SamePath, ChildPath
<1> QED BY <1>1, <1>2, <1>4, <1>5, <1>6, <1>7, <1>8, <1>9 DEF Next

THEOREM Invariance == Spec => []IInv
BY InitOK, StepOK, PTL DEF Spec

-----------------------------------------------------------------------------
(* The theorems.                                                           *)

(* The type invariant, for any number of directories and changes.          *)
THEOREM TypeCorrect == Spec => []TypeOK
BY Invariance, PTL DEF IInv

(* program_command spawns what the search of the operating system would    *)
(* have run, for every PATH and whatever its directories hold.             *)
THEOREM SearchCorrect == Spec => []AsTheSystem
<1>1. ASSUME IInv PROVE AsTheSystem
  <2> SUFFICES ASSUME pc = "done", touched = {}
               PROVE  ran = IF bare /\ SamePath THEN SystemFinds ELSE Elsewhere
    BY DEF AsTheSystem
  <2>1. CASE found = 0
    BY <1>1, <2>1 DEF IInv, DoneOK
  <2>2. CASE found # 0
    <3>1. /\ bare /\ SamePath /\ Probe(files[found]) = "Runnable"
          /\ \A i \in 1..(found - 1) : Probe(files[i]) = "Nothing"
      BY <1>1, <2>2 DEF IInv, SearchOK, Probed, InheritsPath, SamePath,
                                ChildPath
    <3>2. DOMAIN path = 1..Len(path) /\ Len(path) \in Nat /\ found \in DOMAIN path
      BY <1>1, <2>2 DEF IInv, TypeOK
    <3>3. \A i \in DOMAIN path : files[i] \in Files /\ verdict[i] \in Exec(files[i])
      BY <1>1 DEF IInv, TypeOK, VerdictOK
    <3>4. verdict[found] = "runs"
      BY <3>1, <3>2, <3>3, ProbeIsRight
    <3>5. ASSUME NEW i \in 1..(found - 1) PROVE verdict[i] = "passes"
      <4>1. i \in DOMAIN path
        BY <3>2
      <4> QED BY <4>1, <3>1, <3>3, ProbeIsRight
    <3>6. SystemFinds = found
      BY <1>1, <3>2, <3>4, <3>5, SystemIsSure DEF IInv, Takes
    <3> QED BY <1>1, <2>2, <3>1, <3>4, <3>6 DEF IInv, DoneOK
  <2> QED BY <2>1, <2>2
<1> QED BY <1>1, Invariance, PTL

(* Files that change during the search do no more harm than in a search:   *)
(* no unchanged file is passed over that exec would have taken, and a      *)
(* spawn by path fails only if that very file changed.                     *)
THEOREM ChangesCorrect == Spec => []NonePassedOver
<1>1. ASSUME IInv PROVE NonePassedOver
  <2> SUFFICES ASSUME pc = "done"
               PROVE  /\ ran \in DOMAIN path =>
                           \A i \in 1..(ran - 1) : i \in touched \/ verdict[i] = "passes"
                      /\ ran = 0 /\ found # 0 => found \in touched
    BY DEF NonePassedOver
  <2>1. DOMAIN path = 1..Len(path) /\ Len(path) \in Nat /\ found \in 0..Len(path)
    BY <1>1 DEF IInv, TypeOK
  <2>2. \A i \in DOMAIN path : files[i] \in Files /\ verdict[i] \in Exec(files[i])
    BY <1>1 DEF IInv, TypeOK, VerdictOK
  <2>3. CASE found = 0
    <3>1. ran = SystemFinds \/ ran = -1
      BY <1>1, <2>3 DEF IInv, DoneOK, Elsewhere
    <3>2. ran \in DOMAIN path => Takes(ran)
      BY <3>1, <2>1, SystemFindsTaken
    <3> QED BY <3>2, <2>3 DEF Takes
  <2>4. CASE found # 0
    <3>1. /\ Probed(found, "Runnable")
          /\ \A i \in 1..(found - 1) : Probed(i, "Nothing")
      BY <1>1, <2>4 DEF IInv, SearchOK
    <3>2. found \in touched \/ verdict[found] = "runs"
      BY <3>1, <2>1, <2>2, <2>4, ProbeIsRight DEF Probed
    <3>3. ASSUME NEW i \in 1..(found - 1) PROVE i \in touched \/ verdict[i] = "passes"
      <4>1. i \in DOMAIN path
        BY <2>1
      <4> QED BY <4>1, <3>1, <2>2, ProbeIsRight DEF Probed
    <3>4. ran = IF verdict[found] = "runs" THEN found ELSE 0
      BY <1>1, <2>4 DEF IInv, DoneOK
    <3> QED BY <3>2, <3>3, <3>4, <2>1
  <2> QED BY <2>3, <2>4
<1> QED BY <1>1, Invariance, PTL
=============================================================================
