------------------------------ MODULE MCProfiler ------------------------------
(* Model-checking instances of Profiler, one per cfg. *)
EXTENDS Profiler
=============================================================================
