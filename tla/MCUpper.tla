------------------------------ MODULE MCUpper ------------------------------
(* 32-bit ints, and the sizes the program asks for: three channels per      *)
(* server for up to 100 servers, and the two fixed sizes of HsCommon.h.     *)
EXTENDS UpperPower2

BitsOf(n) == {b \in 0..30 : (n \div 2^b) % 2 = 1}
Sizes == {BitsOf(3 * s) : s \in 1..100} \cup {BitsOf(1024), BitsOf(1024 * 10)}
=============================================================================
