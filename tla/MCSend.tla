------------------------------- MODULE MCSend -------------------------------
(* Model values for the runs of HsSend. *)
EXTENDS HsSend
=============================================================================
