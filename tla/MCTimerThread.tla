---------------------------- MODULE MCTimerThread ----------------------------
(* A model-checking instance of TimerThread. *)
EXTENDS TimerThread
=============================================================================
