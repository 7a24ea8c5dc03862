------------------------------ MODULE Program ------------------------------
(***************************************************************************)
(* The program of a stage (cmd/program.rs): its name is resolved on PATH   *)
(* before the spawn, directory after directory, and spawned by path where  *)
(* that is certain to be what the search of the operating system finds.    *)
(* Anything else is left to that search.                                   *)
(*                                                                         *)
(* Directory i of PATH holds files[i] under the name; what exec does with  *)
(* it is verdict[i].  Files may change while procpilot looks at them.      *)
(***************************************************************************)
EXTENDS Integers, Sequences

CONSTANTS
  Files,      \* what a directory may hold under the name (records, see File)
  Envs,       \* what a stage may do to its environment (records, see Env)
  MaxDirs,    \* bound: the directories on PATH
  MaxChanges  \* bound: the changes of the files during a call

(* What probe can tell of a candidate.  `line` is whether a #! line fits   *)
(* into the bytes that are read, `interp` the interpreter it names, or the *)
(* loader of a native binary, which nobody looks at: "present" if it is    *)
(* there and can be executed, "broken" if it is there and cannot.          *)
File == [kind: {"absent", "directory", "file"}, executable: BOOLEAN,
         readable: BOOLEAN, head: {"native", "script", "other"},
         line: {"whole", "cut"},
         interp: {"present", "broken", "missing", "relative"}]

(* env_clear, and the keys of env_remove and env.                          *)
Env == [clear: BOOLEAN, remove: SUBSET {"PATH", "HOME"},
        set: SUBSET {"PATH", "LANG"}]

(* A native binary's loader is there, and an interpreter that is there can *)
(* be executed: exec passes over a file without, and format_of would not   *)
(* know.                                                                   *)
ASSUME ProgramAssumption ==
  /\ Files \subseteq File
  /\ \A f \in Files : /\ f.head = "native" => f.interp = "present"
                     /\ f.interp # "broken"
  /\ Envs \subseteq Env
  /\ MaxDirs \in Nat /\ MaxChanges \in Nat

VARIABLES
  bare,     \* the program is a name to be searched; fixed
  env,      \* what the stage did to its environment; fixed
  path,     \* the entries of PATH, absolute or not; none if unset; fixed
  files,    \* what each directory holds
  verdict,  \* what exec does with it
  touched,  \* history: the directories whose file has changed
  changes,  \* how many changes there were
  pc,       \* where program_command is
  at,       \* the directory it looks at
  found,    \* the directory whose file is spawned by path, or 0: the name is
  ran       \* the directory whose file ran, 0 for none, or Elsewhere

config == <<bare, env, path>>
system == <<files, verdict, touched, changes>>
vars   == <<config, system, pc, at, found, ran>>

Elsewhere == -1

Entries  == {"absolute", "relative"}
Verdicts == {"runs", "passes", "fails"}
Probing  == {"probe", "access", "read"}

TypeOK ==
  /\ bare \in BOOLEAN /\ env \in Envs
  /\ path \in Seq(Entries)
  /\ files \in [DOMAIN path -> Files]
  /\ verdict \in [DOMAIN path -> Verdicts]
  /\ touched \subseteq DOMAIN path /\ changes \in 0..MaxChanges
  /\ pc \in {"begin", "spawn", "done"} \union Probing
  /\ at \in 1..(Len(path) + 1)
  /\ found \in 0..Len(path)
  /\ ran \in -1..Len(path)

-----------------------------------------------------------------------------
(* exec, as the search of the operating system takes it: it moves on past  *)
(* a file that is absent, not executable, or whose interpreter is, and     *)
(* decides for itself about what has no format it knows.                   *)
Exec(f) ==
  IF f.kind # "file" \/ ~f.executable THEN {"passes"}
  ELSE IF f.head = "other" THEN Verdicts
  ELSE IF f.head = "script" /\ (f.line = "cut" \/ f.interp = "relative")
  THEN Verdicts
  ELSE IF f.interp = "present" THEN {"runs"} ELSE {"passes"}

(* apply_to: the child's environment is ours, unless it is cleared, less   *)
(* what is removed, and then with what is set.                             *)
ChildPath ==
  IF "PATH" \in env.set THEN "own"
  ELSE IF env.clear \/ "PATH" \in env.remove THEN "none" ELSE "ours"

SamePath == ChildPath = "ours"

(* The search takes the file of directory i, past all those before it.     *)
Takes(i) == verdict[i] = "runs" /\ \A j \in 1..(i - 1) : verdict[j] = "passes"

(* The directory whose file it runs, or 0.                                 *)
SystemFinds ==
  IF \E i \in DOMAIN path : Takes(i) THEN CHOOSE i \in DOMAIN path : Takes(i)
                                     ELSE 0

Init ==
  /\ bare \in BOOLEAN /\ env \in Envs
  /\ \E n \in 0..MaxDirs :
       /\ path \in [1..n -> Entries]
       /\ files \in [1..n -> Files]
       /\ verdict \in [1..n -> Verdicts]
  /\ \A i \in DOMAIN path : verdict[i] \in Exec(files[i])
  /\ touched = {} /\ changes = 0
  /\ pc = "begin" /\ at = 1 /\ found = 0 /\ ran = 0

(* Somebody installs, removes or replaces a file.                          *)
Change(i) ==
  /\ pc \in Probing \union {"spawn"} /\ changes < MaxChanges
  /\ changes' = changes + 1 /\ touched' = touched \union {i}
  /\ \E f \in Files : \E v \in Exec(f) :
       files' = [files EXCEPT ![i] = f] /\ verdict' = [verdict EXCEPT ![i] = v]
  /\ UNCHANGED <<config, pc, at, found, ran>>

-----------------------------------------------------------------------------
\* mutant of InheritsPath: a stage that sets PATH is not asked about
InheritsPathUnlessCleared == ~env.clear /\ "PATH" \notin env.remove

InheritsPath ==
  ~env.clear /\ "PATH" \notin env.remove /\ "PATH" \notin env.set

(* format_of and interpreter, of the first bytes of the file: whether the  *)
(* kernel runs such a file directly.                                       *)
FormatOf(f) ==
  IF \/ f.head = "native"
     \/ f.head = "script" /\ f.line = "whole" /\ f.interp \in {"present", "broken"}
  THEN "Runnable" ELSE "Unsure"

Decide(dir) == pc' = "spawn" /\ found' = dir

(* The conditions of program_command and resolve.                          *)
Begin ==
  /\ pc = "begin"
  /\ IF bare /\ InheritsPath THEN pc' = "probe" /\ UNCHANGED found
                             ELSE Decide(0)
  /\ UNCHANGED <<config, system, at, ran>>

(* first_runnable: one directory after another, until one decides.         *)
PassOver == pc' = "probe" /\ at' = at + 1 /\ UNCHANGED found

Look(step) == pc' = step /\ UNCHANGED <<at, found>>

Exhausted ==
  /\ pc = "probe"
  /\ at \in DOMAIN path => path[at] = "relative"
  /\ Decide(0)
  /\ UNCHANGED <<config, system, at, ran>>

(* probe asks for the metadata of the candidate, then whether it may be    *)
(* executed, then opens and reads it; the file may change in between.      *)
Metadata ==
  /\ pc = "probe" /\ at \in DOMAIN path /\ path[at] = "absolute"
  /\ IF files[at].kind = "file" THEN Look("access") ELSE PassOver
  /\ UNCHANGED <<config, system, ran>>

Access ==
  /\ pc = "access"
  /\ IF files[at].executable THEN Look("read") ELSE PassOver
  /\ UNCHANGED <<config, system, ran>>

(* What is no file any more cannot be read, and one that is not executable *)
(* any more is not noticed.  The look at the interpreter is one step with  *)
(* the read: the file and its interpreter change apart from each other, so *)
(* what happens between the two could as well happen before or after both. *)
Readable(f) == f.kind = "file" /\ f.readable

\* mutant of Read: an unsure candidate is passed over
ReadUnsure ==
  /\ pc = "read"
  /\ IF Readable(files[at]) /\ FormatOf(files[at]) = "Runnable"
     THEN Decide(at) /\ UNCHANGED at ELSE PassOver
  /\ UNCHANGED <<config, system, ran>>

Read ==
  /\ pc = "read"
  /\ Decide(IF Readable(files[at]) /\ FormatOf(files[at]) = "Runnable" THEN at ELSE 0)
  /\ UNCHANGED <<config, system, at, ran>>

(* By path, by the search of the child's PATH, or as the path it is.       *)
Spawn ==
  /\ pc = "spawn" /\ pc' = "done"
  /\ ran' = IF found # 0
            THEN (IF verdict[found] = "runs" THEN found ELSE 0)
            ELSE IF bare /\ SamePath THEN SystemFinds ELSE Elsewhere
  /\ UNCHANGED <<config, system, at, found>>

Next ==
  \/ Begin \/ Exhausted \/ Metadata \/ Access \/ Read \/ Spawn
  \/ \E i \in DOMAIN path : Change(i)

Spec == Init /\ [][Next]_vars

-----------------------------------------------------------------------------
(* Properties.                                                             *)

(* While the files stay as they are, the program that runs is the one the  *)
(* search of the operating system would have run in the child's own        *)
(* environment - the same directory, or none - whatever that search makes  *)
(* of files without a known format (program_command).                      *)
AsTheSystem ==
  pc = "done" /\ touched = {} =>
    ran = IF bare /\ SamePath THEN SystemFinds ELSE Elsewhere

(* Files that change between the probe and the spawn do no more harm than  *)
(* in a search: no unchanged file that exec would have taken is passed     *)
(* over, and a spawn by path fails only if that very file changed          *)
(* (first_runnable).                                                       *)
NonePassedOver ==
  pc = "done" =>
    /\ ran \in DOMAIN path =>
         \A i \in 1..(ran - 1) : i \in touched \/ verdict[i] = "passes"
    /\ ran = 0 /\ found # 0 => found \in touched
=============================================================================
