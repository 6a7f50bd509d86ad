----------------------------- MODULE MCTelemetry -----------------------------
(* Values for the run of TelemetryClient: both clients use DEFAULT_FP. *)
EXTENDS TelemetryClient

DefaultPath == [c \in Clients |-> "default_client"]
=============================================================================
