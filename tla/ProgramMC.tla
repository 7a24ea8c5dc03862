----------------------------- MODULE ProgramMC -----------------------------
(* Small instances of Program for TLC.                                     *)
EXTENDS Program

Like(kind, x, r, head, line, interp) ==
  [kind |-> kind, executable |-> x, readable |-> r, head |-> head,
   line |-> line, interp |-> interp]

(* Nothing, a file that is not executable, a native binary, one that may   *)
(* not be read, a script, one without its interpreter, and a text.         *)
SomeFiles ==
  {Like("absent", FALSE, FALSE, "other", "whole", "missing"),
   Like("file", FALSE, TRUE, "native", "whole", "present"),
   Like("file", TRUE, TRUE, "native", "whole", "present"),
   Like("file", TRUE, FALSE, "native", "whole", "present"),
   Like("file", TRUE, TRUE, "script", "whole", "present"),
   Like("file", TRUE, TRUE, "script", "whole", "missing"),
   Like("file", TRUE, TRUE, "other", "whole", "missing")}

Leaves(clear, remove, set) == [clear |-> clear, remove |-> remove, set |-> set]

SomeEnvs ==
  {Leaves(FALSE, {"HOME"}, {"LANG"}), Leaves(TRUE, {}, {}),
   Leaves(FALSE, {"PATH"}, {}), Leaves(FALSE, {}, {"PATH"})}
=============================================================================
