------------------------------- MODULE MCRecv -------------------------------
(* Four packets of 3, 5, 4 and 3 bytes; a buffer of 8 holds two or three. *)
EXTENDS HsRecv

Starts == <<1, 4, 9, 13, 16>>
=============================================================================
