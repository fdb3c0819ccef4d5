----------------------------- MODULE MCTelemetry -----------------------------
(* Model-checking instances of Telemetry, one per cfg. *)
EXTENDS Telemetry
=============================================================================
