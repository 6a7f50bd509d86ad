-------------------------- MODULE UpperPower2Proofs --------------------------
(***************************************************************************)
(* getUpperPower2 for every width of an int and every size asked for.      *)
(***************************************************************************)
EXTENDS UpperPower2, TLAPS

\* Nothing has been taken out of pattern yet.
LEMMA InitUInv == SizesFit /\ Init => UInv
BY DEF SizesFit, Init, UInv, Bits

\* Each turn of the loop takes the next bit out of pattern.
LEMMA NextUInv == SizesFit /\ UInv /\ [Next]_vars => UInv'
<1> SUFFICES ASSUME SizesFit, UInv, [Next]_vars PROVE UInv'
  OBVIOUS
<1> USE DEF SizesFit, UInv
<1>1. CASE Loop
  <2>1. /\ iter = i /\ i \in Nat /\ i < Width /\ Width \in Nat
        /\ pattern = Bits \ (1..iter) /\ num' = num
    BY <1>1 DEF Loop
  <2>2. iter' = iter + 1 /\ iter' \in 1..Width
    BY <1>1, <2>1 DEF Loop, Shift
  <2>3. iter' - 1 = iter /\ (iter' # 1 => iter' - 2 = iter - 1)
    BY <2>1, <2>2
  <2>4. CASE pattern \cap num # {}
    <3>1. pattern' = Toggle(iter') /\ i' = i + 1 /\ pc' = pc /\ pc = "loop"
      BY <1>1, <2>4 DEF Loop
    <3>2. pattern' = Bits \ (1..iter')
      BY <2>1, <2>2, <3>1 DEF Toggle, Bits
    <3>3. num \cap (Bits \ (1..(iter' - 1))) # {}
      BY <2>1, <2>3, <2>4
    <3>4. QED BY <2>1, <2>2, <3>1, <3>2, <3>3
  <2>5. CASE pattern \cap num = {}
    <3>1. pc' = "done" /\ i' = i
      BY <1>1, <2>5 DEF Loop
    <3>2. num \cap (Bits \ (1..(iter' - 1))) = {}
      BY <2>1, <2>2, <2>3, <2>5
    <3>3. iter' = 1 \/ num \cap (Bits \ (1..(iter' - 2))) # {}
      BY <1>1, <2>1, <2>2, <2>3 DEF Loop
    <3>4. QED BY <2>1, <2>2, <3>1, <3>2, <3>3
  <2>6. QED BY <2>4, <2>5
<1>2. CASE LoopEnd
  BY <1>2 DEF LoopEnd
<1>3. CASE UNCHANGED vars
  BY <1>3 DEF vars
<1>4. QED BY <1>1, <1>2, <1>3 DEF Next

\* What the loop's invariant says once it has ended.
LEMMA UInvEven == SizesFit /\ UInv => EvenGetsRoom
<1> SUFFICES ASSUME SizesFit, UInv, pc = "done", 0 \notin num
             PROVE  /\ iter \in Bits \ {0}
                    /\ \A b \in num : b < iter
                    /\ iter = 1 \/ iter - 1 \in num
  BY DEF EvenGetsRoom
<1> USE DEF SizesFit, UInv
<1>1. num \subseteq Bits /\ \A b \in num : b \in Nat /\ 1 <= b /\ b <= Width - 2
  BY DEF Bits
<1>2. num \cap (Bits \ (1..(Width - 1))) = {}
  BY <1>1
<1>3. /\ iter \in Nat /\ iter > 0 /\ iter <= Width
      /\ num \cap (Bits \ (1..(iter - 1))) = {}
      /\ iter = 1 \/ num \cap (Bits \ (1..(iter - 2))) # {}
  BY <1>2
<1>4. \A b \in num : b < iter
  BY <1>1, <1>3
<1>5. ASSUME iter # 1 PROVE iter - 1 \in num
  <2>1. PICK b \in num : b \notin 1..(iter - 2)
    BY <1>3, <1>5
  <2>2. b = iter - 1
    BY <1>1, <1>3, <1>4, <1>5, <2>1
  <2>3. QED BY <2>1, <2>2
<1>6. iter < Width
  <2>1. CASE iter = 1
    BY <2>1
  <2>2. CASE iter # 1
    BY <1>1, <1>3, <1>5, <2>2
  <2>3. QED BY <2>1, <2>2
<1>7. QED BY <1>3, <1>4, <1>5, <1>6 DEF Bits

\* getUpperPower2 gives every even number a power of two above it.
THEOREM EvenNumbersGetRoom == SizesFit => (Spec => []EvenGetsRoom)
<1> SUFFICES ASSUME SizesFit PROVE Spec => []EvenGetsRoom
  OBVIOUS
<1>1. Init => UInv
  BY InitUInv
<1>2. UInv /\ [Next]_vars => UInv'
  BY NextUInv
<1>3. UInv => EvenGetsRoom
  BY UInvEven
<1>4. QED BY <1>1, <1>2, <1>3, PTL DEF Spec
=============================================================================
