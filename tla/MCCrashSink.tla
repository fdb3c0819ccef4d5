----------------------------- MODULE MCCrashSink -----------------------------
(* Model-checking instances of CrashSink.                                  *)
EXTENDS CrashSink
=============================================================================
