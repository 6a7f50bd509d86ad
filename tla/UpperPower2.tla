---------------------------- MODULE UpperPower2 ----------------------------
(***************************************************************************)
(* getUpperPower2 (hs/HsCommon.c), which rounds the sizes of the rings and *)
(* hashes (HsRing.c:8, HsHash.c:15).  A number is the set of its one bits; *)
(* iter, which never has more than one, is that bit, or Width once it has  *)
(* been shifted out and iter is 0.  Shifting an int past its sign bit is   *)
(* left open by C; gcc documents that it shifts the bit out.               *)
(***************************************************************************)
EXTENDS Naturals

CONSTANTS Width,  \* bits of an int
          Nums    \* the sizes asked for

Bits == 0..(Width - 1)

\* What the theorem asks of the constants: sizes are not negative and have a
\* power of two above them.
SizesFit == /\ Width \in Nat \ {0, 1}
            /\ Nums \subseteq SUBSET (0..(Width - 2))

VARIABLES num, i, pattern, iter, pc
vars == <<num, i, pattern, iter, pc>>

\* pattern = -1, iter = 1.
Init ==
  /\ num \in Nums
  /\ i = 0 /\ pattern = Bits /\ iter = 0
  /\ pc = "loop"

Shift == IF iter < Width THEN iter + 1 ELSE Width

\* pattern ^= iter
Toggle(bit) == IF bit \in pattern THEN pattern \ {bit}
               ELSE pattern \cup ({bit} \cap Bits)

Loop ==
  /\ pc = "loop" /\ i < Width
  /\ iter' = Shift
  /\ \/ /\ pattern \cap num # {}
        /\ pattern' = Toggle(iter') /\ i' = i + 1
        /\ UNCHANGED pc
     \/ /\ pattern \cap num = {}
        /\ pc' = "done"
        /\ UNCHANGED <<i, pattern>>
  /\ UNCHANGED num

LoopEnd ==
  /\ pc = "loop" /\ i = Width
  /\ pc' = "done"
  /\ UNCHANGED <<num, i, pattern, iter>>

Next == Loop \/ LoopEnd
Spec == Init /\ [][Next]_vars

-----------------------------------------------------------------------------
\* getUpperPower2 51-54: an even number gets the least power of two above it, so
\* a ring of that size, which holds one item less, holds as many items as asked.
EvenGetsRoom ==
  pc = "done" /\ 0 \notin num =>
    /\ iter \in Bits \ {0}
    /\ \A b \in num : b < iter
    /\ iter = 1 \/ iter - 1 \in num

\* What the name and its callers expect of every number: a power of two.
\* getUpperPower2 52: bit 0 is never taken out of pattern, so an odd number runs
\* the loop to its end and iter is shifted out.
GetsPowerOfTwo == pc = "done" => iter \in Bits

\* The inductive invariant: iter bits have been taken out of pattern, from bit 1
\* up, and all the tests so far found a bit of num in what was left.
UInv ==
  /\ num \in SUBSET (0..(Width - 2))
  /\ i \in 0..Width /\ iter \in 0..Width /\ pc \in {"loop", "done"}
  /\ pc = "loop" =>
       /\ iter = i /\ pattern = Bits \ (1..iter)
       /\ iter > 0 => num \cap (Bits \ (1..(iter - 1))) # {}
  /\ pc = "done" =>
       \/ iter = Width /\ num \cap (Bits \ (1..(Width - 1))) # {}
       \/ /\ iter > 0 /\ num \cap (Bits \ (1..(iter - 1))) = {}
          /\ iter = 1 \/ num \cap (Bits \ (1..(iter - 2))) # {}
=============================================================================
