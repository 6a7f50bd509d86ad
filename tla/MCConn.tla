------------------------------- MODULE MCConn -------------------------------
(* Model values and symmetry for the runs of HsConn. *)
EXTENDS HsConn, TLC

SockSymmetry == Permutations(Socks)
=============================================================================
