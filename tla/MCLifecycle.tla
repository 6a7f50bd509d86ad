---------------------------- MODULE MCLifecycle ----------------------------
(* The run of HsLifecycle. *)
EXTENDS HsLifecycle
=============================================================================
