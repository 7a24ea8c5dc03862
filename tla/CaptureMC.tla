----------------------------- MODULE CaptureMC -----------------------------
(* Small instances of CaptureIO for TLC.                                   *)
EXTENDS CaptureIO

Attempt(m, k, c) == [mode |-> m, kind |-> k, capture |-> c]

(* Each kind of stdin beside a captured stdout, and a captured stderr      *)
(* without stdin: the stream that is not captured never blocks a stage.    *)
ChainAttempts ==
  {Attempt("sync", "reader", {"stdout"}), Attempt("sync", "bytes", {"stdout"}),
   Attempt("async", "async_reader", {"stdout"}),
   Attempt("async", "reader", {"stdout"}),
   Attempt("sync", "none", {"stderr"}), Attempt("async", "none", {"stderr"})}

(* Both runners, every kind of stdin, every capture.                       *)
SingleAttempts ==
  {a \in Config : a.mode = "sync" => a.kind # "async_reader"}
=============================================================================
