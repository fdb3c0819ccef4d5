---------------------------- MODULE MCCrashHandler ----------------------------
(* A model-checking instance of CrashHandler: two of the four signals. *)
EXTENDS CrashHandler

MCSignals == <<"segv", "abrt">>
=============================================================================
