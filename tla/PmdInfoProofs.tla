----------------------------- MODULE PmdInfoProofs --------------------------
(*****************************************************************************)
(* Proofs about dpdk-pmdinfo.py: what it displays, for any libraries and any *)
(* directory of plugins.                                                     *)
(*****************************************************************************)
EXTENDS PmdInfo, Integers, FiniteSetTheorems, SequenceTheorems, NaturalsInduction,
        WellFoundedInduction, TLAPS

-----------------------------------------------------------------------------
(*****************************************************************************)
(* Sequences.                                                                *)
(*****************************************************************************)
\* The top of a sequence and what is below it.
LEMMA TopBelow ==
  ASSUME NEW S, NEW s \in Seq(S), s # <<>>
  PROVE  /\ Len(s) \in Nat /\ Len(s) >= 1 /\ s[Len(s)] \in S
         /\ SubSeq(s, 1, Len(s) - 1) \in Seq(S) /\ Len(SubSeq(s, 1, Len(s) - 1)) = Len(s) - 1
         /\ \A i \in 1..(Len(s) - 1) : SubSeq(s, 1, Len(s) - 1)[i] = s[i]
<1>1. Len(s) \in Nat /\ Len(s) >= 1
  BY LenProperties, EmptySeq
<1>2. 1 \in 1..(Len(s) + 1) /\ Len(s) - 1 \in 0..Len(s)
  BY <1>1
<1>3. /\ SubSeq(s, 1, Len(s) - 1) \in Seq(S)
      /\ Len(SubSeq(s, 1, Len(s) - 1)) = IF 1 <= Len(s) - 1 THEN (Len(s) - 1) - 1 + 1 ELSE 0
      /\ \A i \in 1..((Len(s) - 1) - 1 + 1) : SubSeq(s, 1, Len(s) - 1)[i] = s[1 + i - 1]
  BY <1>2, SubSeqProperties
<1>4. s[Len(s)] \in S
  BY <1>1
<1> DEFINE r == SubSeq(s, 1, Len(s) - 1)
<1>5. r \in Seq(S) /\ Len(r) = Len(s) - 1
  <2>1. r \in Seq(S) /\ Len(r) = IF 1 <= Len(s) - 1 THEN (Len(s) - 1) - 1 + 1 ELSE 0
    BY <1>3
  <2> HIDE DEF r
  <2>2. QED BY SMTT(20), <1>1, <2>1
<1> HIDE DEF r
<1>6. ASSUME NEW i \in 1..(Len(s) - 1) PROVE r[i] = s[i]
  <2>1. i \in 1..((Len(s) - 1) - 1 + 1) /\ 1 + i - 1 = i
    BY <1>1
  <2>2. r[i] = s[1 + i - 1]
    BY <1>3, <2>1 DEF r
  <2>3. QED BY <2>1, <2>2
<1>7. QED BY <1>1, <1>4, <1>5, <1>6 DEF r

\* A new element at the top.
LEMMA AppendIs ==
  ASSUME NEW S, NEW s \in Seq(S), NEW x \in S
  PROVE  /\ Append(s, x) \in Seq(S) /\ Len(s) \in Nat /\ Len(Append(s, x)) = Len(s) + 1
         /\ \A i \in 1..Len(s) : Append(s, x)[i] = s[i]
         /\ Append(s, x)[Len(s) + 1] = x
BY AppendProperties, LenProperties

\* What stands in a sequence, and that it stands there once.
El(q) == {q[i] : i \in 1..Len(q)}
Once(q) == \A i, j \in 1..Len(q) : q[i] = q[j] => i = j

\* One sequence after another.
LEMMA ConcatEl ==
  ASSUME NEW S, NEW q \in Seq(S), NEW r \in Seq(S)
  PROVE  /\ q \o r \in Seq(S) /\ El(q \o r) = El(q) \cup El(r)
         /\ Once(q) /\ Once(r) /\ El(q) \cap El(r) = {} => Once(q \o r)
<1> DEFINE s == q \o r
           m == Len(q)
           n == Len(r)
<1>1. /\ s \in Seq(S) /\ Len(s) = m + n /\ m \in Nat /\ n \in Nat
      /\ \A i \in 1..(m + n) : s[i] = IF i <= m THEN q[i] ELSE r[i - m]
  BY ConcatProperties, LenProperties
<1> HIDE DEF s, m, n
<1>2. \A i \in 1..m : i \in 1..(m + n) /\ s[i] = q[i]
  BY <1>1
<1>3. ASSUME NEW i \in 1..n PROVE i + m \in 1..(m + n) /\ s[i + m] = r[i]
  <2>1. i + m \in 1..(m + n) /\ ~(i + m <= m) /\ i + m - m = i
    BY <1>1
  <2>2. QED BY <1>1, <2>1
<1>4. \A i \in 1..(m + n) : i \in 1..m \/ i - m \in 1..n
  BY <1>1
<1>5. \A i \in 1..(m + n) : IF i \in 1..m THEN s[i] = q[i] ELSE i - m \in 1..n /\ s[i] = r[i - m]
  BY <1>1, <1>4
<1>6. El(s) = El(q) \cup El(r)
  <2>1. El(s) \subseteq El(q) \cup El(r)
    BY <1>1, <1>5 DEF El, m, n
  <2>2. El(q) \subseteq El(s)
    BY <1>1, <1>2 DEF El, m
  <2>3. El(r) \subseteq El(s)
    BY <1>1, <1>3 DEF El, n
  <2>4. QED BY <2>1, <2>2, <2>3
<1>7. ASSUME Once(q), Once(r), El(q) \cap El(r) = {} PROVE Once(s)
  <2> SUFFICES ASSUME NEW i \in 1..(m + n), NEW j \in 1..(m + n), s[i] = s[j] PROVE i = j
    BY <1>1 DEF Once
  <2>1. CASE i \in 1..m /\ j \in 1..m
    BY <1>2, <1>7, <2>1 DEF Once, m
  <2>2. CASE i \notin 1..m /\ j \notin 1..m
    <3>1. i - m \in 1..n /\ j - m \in 1..n /\ r[i - m] = r[j - m]
      BY <1>5, <2>2
    <3>2. i - m = j - m
      BY <1>7, <3>1 DEF Once, n
    <3>3. QED BY <1>1, <3>2
  <2>3. CASE i \in 1..m /\ j \notin 1..m
    <3>1. j - m \in 1..n /\ q[i] = r[j - m]
      BY <1>5, <2>3
    <3>2. QED BY <1>7, <2>3, <3>1 DEF El, m, n
  <2>4. CASE i \notin 1..m /\ j \in 1..m
    <3>1. i - m \in 1..n /\ q[j] = r[i - m]
      BY <1>5, <2>4
    <3>2. QED BY <1>7, <2>4, <3>1 DEF El, m, n
  <2>5. QED BY <2>1, <2>2, <2>3, <2>4
<1>8. QED BY <1>1, <1>6, <1>7 DEF s

\* The first is taken off.
LEMMA TailEl ==
  ASSUME NEW S, NEW q \in Seq(S), q # <<>>
  PROVE  /\ Head(q) \in S /\ Tail(q) \in Seq(S) /\ El(q) = El(Tail(q)) \cup {Head(q)}
         /\ Once(q) => Once(Tail(q)) /\ Head(q) \notin El(Tail(q))
<1> DEFINE r == Tail(q)
           h == Head(q)
           n == Len(q)
<1>1. /\ n \in Nat /\ n > 0 /\ h = q[1] /\ r \in Seq(S) /\ h \in S /\ Len(r) = n - 1
      /\ \A i \in 1..Len(r) : r[i] = q[i + 1]
  BY HeadTailProperties, LenProperties, EmptySeq
<1> HIDE DEF r, h, n
<1>2. \A i \in 1..(n - 1) : i + 1 \in 1..n /\ i + 1 # 1 /\ r[i] = q[i + 1]
  BY <1>1
<1>3. El(r) \subseteq El(q)
  BY <1>1, <1>2 DEF El, n
<1>4. h \in El(q)
  <2>1. 1 \in 1..n
    BY <1>1
  <2>2. QED BY <1>1, <2>1 DEF El, n
<1>5. El(q) \subseteq El(r) \cup {h}
  <2> SUFFICES ASSUME NEW i \in 1..n, i # 1 PROVE q[i] \in El(r)
    BY <1>1 DEF El, n
  <2>1. i - 1 \in 1..(n - 1) /\ i - 1 + 1 = i
    BY <1>1
  <2>2. r[i - 1] = q[i]
    BY <1>2, <2>1
  <2>3. QED BY <1>1, <2>1, <2>2 DEF El
<1>6. ASSUME Once(q) PROVE Once(r) /\ h \notin El(r)
  <2>1. ASSUME NEW i \in 1..(n - 1), NEW j \in 1..(n - 1), r[i] = r[j] PROVE i = j
    <3>1. i + 1 = j + 1
      BY <1>2, <1>6, <2>1 DEF Once, n
    <3>2. QED BY <3>1
  <2>2. ASSUME NEW i \in 1..(n - 1), r[i] = h PROVE FALSE
    <3>1. 1 \in 1..n /\ q[i + 1] = q[1]
      BY <1>1, <1>2, <2>2
    <3>2. i + 1 = 1
      BY <1>2, <1>6, <3>1 DEF Once, n
    <3>3. QED BY <1>2, <3>2
  <2>3. QED BY <1>1, <2>1, <2>2 DEF Once, El
<1>7. QED BY <1>1, <1>3, <1>4, <1>5, <1>6 DEF r, h

-----------------------------------------------------------------------------
(*****************************************************************************)
(* The strings of a section.  A turn of the walk needs only later turns, so  *)
(* the induction is over how many bytes are left.                            *)
(*****************************************************************************)
\* Induction over the naturals, for sets.
LEMMA SetInduction ==
  ASSUME NEW S, 0 \in S, \A n \in Nat : n \in S => n + 1 \in S
  PROVE  Nat \subseteq S
<1> DEFINE R == {ss \in Nat \X Nat : ss[1] < ss[2]}
           T == Nat \ S
<1>1. SUFFICES ASSUME T # {} PROVE FALSE
  OBVIOUS
<1>2. IsWellFoundedOn(R, Nat)
  BY NatLessThanWellFounded DEF OpToRel
<1>3. PICK x \in T : \A y \in T : <<y, x>> \notin R
  <2>1. T \subseteq Nat
    OBVIOUS
  <2> HIDE DEF T, R
  <2>2. QED BY <1>1, <1>2, <2>1, WFMin
<1>4. x \in Nat /\ x # 0 /\ x - 1 \in T
  OBVIOUS
<1>5. <<x - 1, x>> \in R
  BY <1>4
<1>6. QED BY <1>3, <1>4, <1>5

\* A set of numbers has a least one.
LEMMA MinIs ==
  ASSUME NEW Q \in SUBSET Nat, Q # {}
  PROVE  Min(Q) \in Q /\ \A q \in Q : Min(Q) <= q
<1> DEFINE R == {ss \in Nat \X Nat : ss[1] < ss[2]}
<1>1. IsWellFoundedOn(R, Nat)
  BY NatLessThanWellFounded DEF OpToRel
<1>2. PICK x \in Q : \A y \in Q : <<y, x>> \notin R
  <2> HIDE DEF R
  <2>1. QED BY <1>1, WFMin
<1>3. ASSUME NEW y \in Q PROVE x <= y
  <2>1. x \in Nat /\ y \in Nat /\ <<y, x>> \notin R
    BY <1>2
  <2>2. QED BY <2>1
<1>4. QED BY <1>3 DEF Min

\* A set of numbers with a bound has a greatest one.
LEMMA MaxIs ==
  ASSUME NEW n \in Nat, NEW Q \in SUBSET (0..n), Q # {}
  PROVE  Max(Q) \in Q /\ \A q \in Q : q <= Max(Q)
<1> DEFINE R == {n - q : q \in Q}
<1>1. R \in SUBSET Nat /\ R # {}
  <2>1. \A q \in Q : n - q \in Nat /\ n - q \in R
    OBVIOUS
  <2>2. PICK q \in Q : TRUE
    OBVIOUS
  <2>3. QED BY <2>1, <2>2
<1>2. PICK x \in Q : n - x = Min(R)
  <2> HIDE DEF R
  <2>1. Min(R) \in R
    BY <1>1, MinIs
  <2>2. QED BY <2>1 DEF R
<1>3. ASSUME NEW q \in Q PROVE q <= x
  <2>1. n - q \in R
    OBVIOUS
  <2> HIDE DEF R
  <2>2. n - x <= n - q
    BY <1>1, <1>2, <2>1, MinIs
  <2>3. QED BY <2>2
<1>4. \E y \in Q : \A q \in Q : y >= q
  BY <1>3
<1>5. Max(Q) \in Q /\ \A q \in Q : Max(Q) >= q
  BY <1>4 DEF Max
<1>6. QED BY <1>5

\* FirstFrom gives the first place from p on with one of the bytes, or the end.
LEMMA FirstIs ==
  ASSUME NEW S, NEW data \in Seq(S), NEW p \in 1..(Len(data) + 1), NEW bytes
  PROVE  LET f == FirstFrom(data, p, bytes) IN
         /\ f \in p..(Len(data) + 1)
         /\ f <= Len(data) => data[f] \in bytes
         /\ \A q \in p..Len(data) : data[q] \in bytes => f <= q
<1> DEFINE qs == {q \in p..Len(data) : data[q] \in bytes}
<1>1. Len(data) \in Nat /\ p \in Nat /\ p >= 1 /\ p <= Len(data) + 1
  BY LenProperties
<1>2. FirstFrom(data, p, bytes) = IF qs = {} THEN Len(data) + 1 ELSE Min(qs)
  BY DEF FirstFrom
<1>3. qs \in SUBSET Nat
  BY <1>1
<1>4. CASE qs = {}
  BY <1>1, <1>2, <1>4
<1>5. CASE qs # {}
  <2>1. FirstFrom(data, p, bytes) \in qs /\ \A q \in qs : FirstFrom(data, p, bytes) <= q
    BY <1>2, <1>3, <1>5, MinIs
  <2>2. QED BY <1>1, <2>1
<1>6. QED BY <1>4, <1>5

\* One turn of the walk through a section, when next is what the rest has.
Turn(mark, data, next, p) ==
  LET b == FirstFrom(data, p, Printable)
      e == FirstFrom(data, b, {"nul"})
      m == FirstFrom(SubSeq(data, 1, e - 1), b, {mark})
  IN  IF b > Len(data) THEN <<>>
      ELSE (IF m < e THEN <<SubSeq(data, m, e - 1)>> ELSE <<>>) \o next[e]

\* StringsWith is this function's value at the first byte.
LEMMA StringsAre ==
  ASSUME NEW mark, NEW data
  PROVE  StringsWith(mark, data) =
           (CHOOSE next : next = [p \in 1..(Len(data) + 1) |-> Turn(mark, data, next, p)])[1]
BY Zenon DEF StringsWith, Turn

\* The function the walk goes by is there, since each turn goes on further back.
LEMMA WalkExists ==
  ASSUME NEW S, NEW data \in Seq(S), NEW mark
  PROVE  \E next : next = [p \in 1..(Len(data) + 1) |-> Turn(mark, data, next, p)]
<1> DEFINE D == 1..(Len(data) + 1)
           N == {n \in Nat : \E g :
                   /\ g = [p \in D |-> g[p]]
                   /\ \A p \in D : p > Len(data) + 1 - n => g[p] = Turn(mark, data, g, p)}
<1>1. Len(data) \in Nat
  BY LenProperties
<1>2. 0 \in N
  <2> DEFINE g == [p \in D |-> 0]
  <2>1. g = [p \in D |-> g[p]]
    OBVIOUS
  <2>2. \A p \in D : ~(p > Len(data) + 1 - 0)
    BY <1>1
  <2> HIDE DEF g, D
  <2>3. QED BY <2>1, <2>2
<1>3. ASSUME NEW n \in Nat, n \in N PROVE n + 1 \in N
  <2>1. PICK g : /\ g = [p \in D |-> g[p]]
                 /\ \A p \in D : p > Len(data) + 1 - n => g[p] = Turn(mark, data, g, p)
    BY <1>3
  <2> DEFINE q == Len(data) + 1 - n
             f == [p \in D |-> IF p = q THEN Turn(mark, data, g, q) ELSE g[p]]
  <2>2. f = [p \in D |-> f[p]] /\ \A p \in D : f[p] = IF p = q THEN Turn(mark, data, g, q) ELSE g[p]
    OBVIOUS
  <2>3. ASSUME NEW p \in D, p >= q PROVE Turn(mark, data, f, p) = Turn(mark, data, g, p)
    <3> DEFINE b == FirstFrom(data, p, Printable)
               e == FirstFrom(data, b, {"nul"})
               m == FirstFrom(SubSeq(data, 1, e - 1), b, {mark})
    <3>1. CASE b > Len(data)
      BY <3>1 DEF Turn
    <3>2. CASE ~(b > Len(data))
      <4>1. /\ b \in p..Len(data) /\ data[b] \in Printable
        BY <1>1, <3>2, FirstIs
      <4>2. /\ b \in 1..(Len(data) + 1) /\ data[b] # "nul"
        BY <1>1, <4>1 DEF Printable
      <4>3. e \in b..(Len(data) + 1) /\ (e <= Len(data) => data[e] = "nul")
        BY <4>2, FirstIs
      <4>4. e \in D /\ e # q /\ b \in Nat
        <5> HIDE DEF b, e
        <5>1. QED BY <1>1, <2>3, <4>1, <4>2, <4>3
      <4>5. f[e] = g[e]
        BY <2>2, <4>4
      <4>6. \A h : Turn(mark, data, h, p)
                     = (IF m < e THEN <<SubSeq(data, m, e - 1)>> ELSE <<>>) \o h[e]
        BY <3>2 DEF Turn
      <4>7. QED BY <4>5, <4>6
    <3>3. QED BY <3>1, <3>2
  <2>4. ASSUME NEW p \in D, p > Len(data) + 1 - (n + 1) PROVE f[p] = Turn(mark, data, f, p)
    <3>1. p >= q
      BY <1>1, <2>4
    <3>2. CASE p = q
      BY <2>2, <2>3, <3>1, <3>2
    <3>3. CASE p # q
      <4>1. p > Len(data) + 1 - n
        BY <1>1, <3>1, <3>3
      <4>2. QED BY <2>1, <2>2, <2>3, <3>1, <3>3, <4>1
    <3>4. QED BY <3>2, <3>3
  <2> HIDE DEF f
  <2>5. QED BY <2>2, <2>4
<1>4. Nat \subseteq N
  <2> HIDE DEF N
  <2>1. QED BY <1>2, <1>3, SetInduction
<1>5. PICK g : /\ g = [p \in D |-> g[p]]
               /\ \A p \in D : p > Len(data) + 1 - (Len(data) + 1) => g[p] = Turn(mark, data, g, p)
  BY <1>1, <1>4
<1>6. \A p \in D : g[p] = Turn(mark, data, g, p)
  BY <1>1, <1>5
<1>7. g = [p \in D |-> Turn(mark, data, g, p)]
  <2> HIDE DEF D
  <2>1. QED BY <1>5, <1>6, Zenon
<1>8. QED BY <1>7

\* q lists S in order.
Lists(q, S) ==
  /\ q \in Seq(Nat) /\ El(q) = S
  /\ \A i, j \in 1..Len(q) : i < j => q[i] < q[j]

\* What is listed in order is counted, and Nth gives it.
LEMMA NthIs ==
  ASSUME NEW q, NEW S, Lists(q, S)
  PROVE  /\ Cardinality(S) = Len(q) /\ Len(q) \in Nat
         /\ \A i \in 1..Len(q) : Nth(S, i) = q[i]
<1> DEFINE n == Len(q)
<1>1. /\ n \in Nat /\ q \in Seq(Nat) /\ S = {q[i] : i \in 1..n}
      /\ \A i \in 1..n : q[i] \in Nat
      /\ \A i, j \in 1..n : i < j => q[i] < q[j]
  BY LenProperties, ElementOfSeq DEF Lists, El
<1> HIDE DEF n
<1>2. \A i, j \in 1..n : q[i] <= q[j] <=> i <= j
  <2> SUFFICES ASSUME NEW i \in 1..n, NEW j \in 1..n PROVE q[i] <= q[j] <=> i <= j
    OBVIOUS
  <2>1. q[i] \in Nat /\ q[j] \in Nat /\ (i < j => q[i] < q[j]) /\ (j < i => q[j] < q[i])
    BY <1>1
  <2>2. i < j \/ i = j \/ j < i
    BY <1>1
  <2>3. QED BY <1>1, <2>1, <2>2
<1>3. \A i, j \in 1..n : q[i] = q[j] => i = j
  <2> SUFFICES ASSUME NEW i \in 1..n, NEW j \in 1..n, q[i] = q[j] PROVE i = j
    OBVIOUS
  <2>1. i <= j /\ j <= i
    BY <1>1, <1>2
  <2>2. QED BY <1>1, <2>1
<1>4. ASSUME NEW m \in 0..n PROVE Cardinality({q[i] : i \in 1..m}) = m
  <2> DEFINE g == [i \in 1..m |-> q[i]]
             T == {q[i] : i \in 1..m}
  <2>1. m \in Nat /\ \A i \in 1..m : i \in 1..n
    BY <1>1
  <2>2. g \in [1..m -> T] /\ \A i \in 1..m : g[i] = q[i]
    OBVIOUS
  <2>3. \A i, j \in 1..m : g[i] = g[j] => i = j
    BY <1>3, <2>1
  <2>4. g \in Injection(1..m, T)
    BY <2>2, <2>3 DEF Injection, IsInjective
  <2>5. g \in Surjection(1..m, T)
    BY <2>2 DEF Surjection
  <2>6. ExistsBijection(1..m, T)
    BY <2>4, <2>5 DEF ExistsBijection, Bijection
  <2>7. IsFiniteSet(1..m) /\ Cardinality(1..m) = m
    BY <2>1, FS_Interval
  <2>8. QED BY <2>6, <2>7, FS_Bijection
<1>5. Cardinality(S) = n
  BY <1>1, <1>4
<1>6. ASSUME NEW i \in 1..n PROVE {k \in S : k <= q[i]} = {q[j] : j \in 1..i} /\ i \in 0..n
  <2>1. \A j \in 1..i : j \in 1..n /\ j <= i
    BY <1>1
  <2>2. \A j \in 1..n : j <= i => j \in 1..i
    BY <1>1
  <2>3. QED BY <1>1, <1>2, <2>1, <2>2
<1>7. \A i \in 1..n : Cardinality({k \in S : k <= q[i]}) = i
  BY <1>4, <1>6
<1>8. ASSUME NEW i \in 1..n PROVE Nth(S, i) = q[i]
  <2>1. q[i] \in S /\ Cardinality({k \in S : k <= q[i]}) = i
    BY <1>1, <1>7
  <2>2. ASSUME NEW m \in S, Cardinality({k \in S : k <= m}) = i PROVE m = q[i]
    <3>1. PICK j \in 1..n : m = q[j]
      BY <1>1
    <3>2. QED BY <1>7, <2>2, <3>1
  <2>3. QED BY <2>1, <2>2 DEF Nth
<1>9. QED BY <1>1, <1>5, <1>8 DEF n

\* Where a string begins or the walk goes on.
Between(data, p) == p = 1 \/ p = Len(data) + 1 \/ data[p] = "nul"

\* The strings from k on.
Rest(mark, data, k) == {m \in Firsts(mark, data) : m >= k}

\* A turn at p that has found t, when next is what the rest has: the first text of
\* the string it is at, if there is one.
Found(mark, data, p, t, next) ==
  \/ Rest(mark, data, p) = {} /\ t = <<>>
  \/ \E e \in (p + 1)..(Len(data) + 1) :
       /\ Between(data, e)
       /\ \/ Rest(mark, data, p) = Rest(mark, data, e) /\ t = <<>> \o next[e]
          \/ \E m \in p..(e - 1) : /\ Rest(mark, data, p) = {m} \cup Rest(mark, data, e)
                                 /\ UpToNul(data, m) \in Seq(Bytes)
                                 /\ t = <<UpToNul(data, m)>> \o next[e]

\* What one turn of the walk finds.
LEMMA TurnIs ==
  ASSUME NEW data \in Seq(Bytes), NEW mark \in {"pmd", "path"},
         NEW p \in 1..(Len(data) + 1), Between(data, p), NEW next
  PROVE  Found(mark, data, p, Turn(mark, data, next, p), next)
<1> DEFINE b == FirstFrom(data, p, Printable)
           e == FirstFrom(data, b, {"nul"})
           seg == SubSeq(data, 1, e - 1)
           m == FirstFrom(seg, b, {mark})
           n == Len(data)
           F == Firsts(mark, data)
<1>1. n \in Nat /\ DOMAIN data = 1..n
  BY LenProperties
<1>2. /\ b \in p..(n + 1) /\ \A q \in p..n : data[q] \in Printable => b <= q
      /\ b <= n => data[b] # "nul"
  BY <1>1, FirstIs DEF Printable
<1>3. \A k \in F : k \in 1..n /\ data[k] = mark /\ data[k] \in Printable
  BY <1>1 DEF Firsts, Printable
<1>4. CASE b > n
  <2>1. Turn(mark, data, next, p) = <<>>
    BY <1>4 DEF Turn
  <2> HIDE DEF b, F
  <2>2. \A k \in F : ~(k >= p)
    BY <1>1, <1>2, <1>3, <1>4
  <2>3. Rest(mark, data, p) = {}
    BY <2>2 DEF Rest, F
  <2>4. QED BY <2>1, <2>3 DEF Found
<1>5. CASE ~(b > n)
  <2>1. b \in 1..n /\ b \in p..n
    <3> HIDE DEF b
    <3>1. QED BY <1>1, <1>2, <1>5
  <2>2. /\ e \in b..(n + 1) /\ (e <= n => data[e] = "nul")
        /\ \A q \in b..n : data[q] = "nul" => e <= q
    BY <1>1, <2>1, FirstIs
  <2>3. Turn(mark, data, next, p) = (IF m < e THEN <<SubSeq(data, m, e - 1)>> ELSE <<>>) \o next[e]
    BY <1>5 DEF Turn
  <2> HIDE DEF e
  <2>4. e \in (b + 1)..(n + 1) /\ Between(data, e)
    <3> HIDE DEF b
    <3>1. QED BY <1>1, <1>2, <2>1, <2>2 DEF Between, n
  <2>5. /\ seg \in Seq(Bytes) /\ Len(seg) = e - 1 /\ \A i \in 1..(e - 1) : seg[i] = data[i]
    <3> HIDE DEF b
    <3>1. e - 1 \in 0..n /\ 1 \in 1..(n + 1)
      BY <1>1, <2>1, <2>4
    <3>2. QED BY <1>1, <3>1, SubSeqProperties
  <2> HIDE DEF seg
  <2>6. b \in 1..(Len(seg) + 1)
    <3> HIDE DEF b
    <3>1. QED BY <1>1, <2>1, <2>4, <2>5
  <2>7. /\ m \in b..e
        /\ m < e => data[m] = mark
        /\ \A q \in b..(e - 1) : data[q] = mark => m <= q
    <3>1. /\ m \in b..(Len(seg) + 1)
          /\ m <= Len(seg) => seg[m] \in {mark}
          /\ \A q \in b..Len(seg) : seg[q] \in {mark} => m <= q
      BY <2>5, <2>6, FirstIs
    <3> HIDE DEF b, m
    <3>2. \A q \in b..(e - 1) : q \in 1..(e - 1)
      BY <1>1, <2>1, <2>4
    <3>3. m < e => m \in b..(e - 1) /\ m <= e - 1
      BY <1>1, <2>1, <2>4, <2>5, <3>1
    <3>4. QED BY <1>1, <2>1, <2>4, <2>5, <3>1, <3>2, <3>3
  <2> HIDE DEF b, m, F
  <2>8. \A q \in b..(e - 1) : data[q] # "nul" /\ q \in 1..n
    BY <1>1, <2>1, <2>2, <2>4
  \* From the string's start on, only the first text has no other before it.
  <2>9. ASSUME NEW k \in F, k >= p, k < e PROVE k = m /\ m < e
    <3>1. k \in b..(e - 1) /\ data[k] = mark
      BY <1>1, <1>2, <1>3, <2>1, <2>4, <2>9
    <3>2. m <= k /\ m < e /\ m \in 1..n /\ data[m] = mark
      BY <1>1, <2>1, <2>4, <2>7, <3>1
    <3>3. ASSUME m < k PROVE FALSE
      <4>1. m \in 1..(k - 1)
        BY <1>1, <3>1, <3>2, <3>3, <2>1
      <4>2. NulIn(data, m, k)
        BY <3>2, <4>1 DEF F, Firsts
      <4>3. PICK q \in m..k : data[q] = "nul"
        BY <4>2 DEF NulIn
      <4>4. q \in b..(e - 1)
        BY <1>1, <2>1, <2>4, <2>7, <3>1, <4>3
      <4>5. QED BY <2>8, <4>3, <4>4
    <3>4. QED BY <1>1, <3>1, <3>2, <3>3, <2>1
  <2>10. ASSUME m < e
         PROVE  m \in F /\ m \in p..(e - 1) /\ UpToNul(data, m) = SubSeq(data, m, e - 1)
                /\ UpToNul(data, m) \in Seq(Bytes)
    <3>1. m \in b..(e - 1) /\ m \in 1..n /\ data[m] = mark /\ m \in p..(e - 1)
      BY <1>1, <2>1, <2>4, <2>7, <2>10
    <3>2. ASSUME NEW k \in 1..(m - 1), data[k] = mark PROVE NulIn(data, k, m)
      <4>1. ~(k \in b..(e - 1)) /\ k \in 1..n /\ data[k] \in Printable
        BY <1>1, <2>1, <2>4, <2>7, <3>1, <3>2 DEF Printable
      <4>2. ~(k \in p..n)
        <5>1. k < b
          BY <1>1, <2>1, <2>4, <3>1, <4>1
        <5>2. ~(b <= k)
          BY <1>1, <2>1, <5>1
        <5>3. QED BY <1>2, <4>1, <5>2
      <4>3. k < p /\ p \in k..m /\ p # 1 /\ p # n + 1
        BY <1>1, <2>1, <3>1, <4>1, <4>2
      <4>4. data[p] = "nul"
        BY <4>3 DEF Between, n
      <4>5. QED BY <4>3, <4>4 DEF NulIn
    <3>3. m \in F
      BY <1>1, <3>1, <3>2 DEF F, Firsts
    <3> DEFINE Q == {q \in m..n : ~NulIn(data, m, q)}
    <3>4. e - 1 \in Q
      <4>1. e - 1 \in m..n /\ \A q \in m..(e - 1) : q \in b..(e - 1)
        BY <1>1, <2>1, <2>4, <3>1
      <4>2. QED BY <2>8, <4>1 DEF NulIn
    <3>5. \A q \in Q : q <= e - 1
      <4> SUFFICES ASSUME NEW q \in m..n, q >= e PROVE NulIn(data, m, q)
        BY <1>1, <2>1, <2>4, <3>1
      <4>1. e \in m..q /\ e <= n
        BY <1>1, <2>1, <2>4, <3>1
      <4>2. QED BY <2>2, <4>1 DEF NulIn
    <3>6. Q \in SUBSET (0..n)
      BY <1>1, <3>1
    <3> HIDE DEF Q
    <3>7. Max(Q) \in Q /\ e - 1 <= Max(Q)
      BY <1>1, <3>4, <3>6, MaxIs
    <3>8. Max(Q) = e - 1
      <4>1. Max(Q) \in 0..n /\ Max(Q) <= e - 1 /\ e - 1 <= Max(Q)
        BY <3>5, <3>6, <3>7
      <4>2. QED BY <1>1, <2>1, <2>4, <4>1
    <3>9. UpToNul(data, m) = SubSeq(data, m, e - 1)
      BY <3>8 DEF UpToNul, Q, n
    <3>10. SubSeq(data, m, e - 1) \in Seq(Bytes)
      <4>1. m \in 1..(n + 1) /\ e - 1 \in (m - 1)..n
        BY <1>1, <2>1, <2>4, <3>1
      <4>2. QED BY <4>1, SubSeqProperties DEF n
    <3>11. QED BY <3>1, <3>3, <3>9, <3>10
  <2>11. \A k \in F : k >= e => k >= p
    BY <1>1, <1>3, <2>1, <2>4
  <2>12. \A k \in F : k >= e \/ k < e
    BY <1>1, <1>3, <2>1, <2>4
  <2>13. e \in (p + 1)..(n + 1)
    BY <1>1, <2>1, <2>4
  <2>14. CASE m < e
    <3>1. Rest(mark, data, p) = {m} \cup Rest(mark, data, e)
      <4>1. m >= p
        BY <1>1, <2>1, <2>10, <2>14
      <4>2. QED BY <2>9, <2>10, <2>11, <2>12, <2>14, <4>1 DEF Rest, F
    <3>2. Turn(mark, data, next, p) = <<UpToNul(data, m)>> \o next[e]
      BY <2>3, <2>10, <2>14
    <3>3. QED BY <2>4, <2>10, <2>13, <2>14, <3>1, <3>2 DEF Found, n
  <2>15. CASE ~(m < e)
    <3>1. Rest(mark, data, p) = Rest(mark, data, e)
      BY <2>9, <2>11, <2>12, <2>15 DEF Rest, F
    <3>2. Turn(mark, data, next, p) = <<>> \o next[e]
      BY <2>3, <2>15
    <3>3. QED BY <2>4, <2>13, <3>1, <3>2 DEF Found, n
  <2>16. QED BY <2>14, <2>15
<1>6. QED BY <1>4, <1>5

\* One more in front.
LEMMA ListsCons ==
  ASSUME NEW q, NEW S, Lists(q, S), NEW m \in Nat, \A k \in S : m < k
  PROVE  /\ Lists(<<m>> \o q, {m} \cup S) /\ Len(<<m>> \o q) = Len(q) + 1 /\ Len(q) \in Nat
         /\ (<<m>> \o q)[1] = m /\ \A i \in 1..Len(q) : (<<m>> \o q)[i + 1] = q[i]
<1> DEFINE n == Len(q)
           r == <<m>> \o q
<1>1. /\ n \in Nat /\ q \in Seq(Nat) /\ S = {q[i] : i \in 1..n} /\ \A i \in 1..n : q[i] \in Nat
      /\ \A i, j \in 1..n : i < j => q[i] < q[j]
  BY LenProperties, ElementOfSeq DEF Lists, El
<1>2. <<m>> \in Seq(Nat) /\ Len(<<m>>) = 1 /\ <<m>>[1] = m
  OBVIOUS
<1>3. /\ r \in Seq(Nat) /\ Len(r) = 1 + n
      /\ \A i \in 1..(1 + n) : r[i] = IF i <= 1 THEN <<m>>[i] ELSE q[i - 1]
  BY <1>1, <1>2, ConcatProperties
<1> HIDE DEF n, r
<1>4. r[1] = m
  BY <1>1, <1>2, <1>3
<1>5. \A i \in 1..n : i + 1 \in 1..(1 + n) /\ r[i + 1] = q[i]
  <2> SUFFICES ASSUME NEW i \in 1..n PROVE i + 1 \in 1..(1 + n) /\ r[i + 1] = q[i]
    OBVIOUS
  <2>1. i + 1 \in 1..(1 + n) /\ ~(i + 1 <= 1) /\ i + 1 - 1 = i
    BY <1>1
  <2>2. QED BY <1>3, <2>1
<1>6. \A i \in 1..(1 + n) : i = 1 \/ (i - 1 \in 1..n /\ r[i] = q[i - 1])
  BY <1>1, <1>3
<1>7. {r[i] : i \in 1..(1 + n)} = {m} \cup S
  <2>1. 1 \in 1..(1 + n)
    BY <1>1
  <2>2. \A i \in 1..(1 + n) : r[i] \in {m} \cup S
    BY <1>1, <1>4, <1>6
  <2>3. \A i \in 1..n : q[i] \in {r[k] : k \in 1..(1 + n)}
    BY <1>5
  <2>4. m \in {r[k] : k \in 1..(1 + n)}
    BY <1>4, <2>1
  <2>5. QED BY <1>1, <2>2, <2>3, <2>4
<1>8. \A i, j \in 1..(1 + n) : i < j => r[i] < r[j]
  <2> SUFFICES ASSUME NEW i \in 1..(1 + n), NEW j \in 1..(1 + n), i < j PROVE r[i] < r[j]
    OBVIOUS
  <2>1. j # 1 /\ j - 1 \in 1..n /\ r[j] = q[j - 1]
    BY <1>1, <1>6
  <2>2. CASE i = 1
    BY <1>1, <1>4, <2>1, <2>2
  <2>3. CASE i # 1
    <3>1. i - 1 \in 1..n /\ r[i] = q[i - 1]
      BY <1>6, <2>3
    <3>2. i - 1 < j - 1
      BY <1>1
    <3>3. QED BY <1>1, <2>1, <3>1, <3>2
  <2>4. QED BY <2>2, <2>3
<1>9. Lists(r, {m} \cup S)
  BY <1>3, <1>7, <1>8 DEF Lists, El
<1>10. Len(r) = n + 1
  BY <1>1, <1>3
<1>11. QED BY <1>1, <1>4, <1>5, <1>9, <1>10 DEF n, r

\* The strings that were found so far from the places S.
Finds(data, r, S) ==
  \E q : /\ Lists(q, S) /\ r \in Seq(Seq(Bytes)) /\ Len(r) = Len(q)
        /\ \A i \in 1..Len(q) : r[i] = UpToNul(data, q[i])

\* The walk finds the strings that are there.
LEMMA StringsListed ==
  ASSUME NEW data \in Seq(Bytes), NEW mark \in {"pmd", "path"}
  PROVE  StringsWith(mark, data) = ListedStrings(mark, data)
<1> DEFINE D == 1..(Len(data) + 1)
           F == Firsts(mark, data)
           W == CHOOSE next : next = [p \in D |-> Turn(mark, data, next, p)]
           rest(k) == Rest(mark, data, k)
           N == {n \in Nat : \A p \in D : Len(data) + 1 - n <= p /\ Between(data, p) =>
                             Finds(data, W[p], rest(p))}
<1>1. Len(data) \in Nat /\ F \subseteq 1..Len(data)
  BY LenProperties DEF Firsts
<1>2. W = [p \in D |-> Turn(mark, data, W, p)]
  <2>1. \E next : next = [p \in D |-> Turn(mark, data, next, p)]
    BY ZenonT(30), WalkExists
  <2> HIDE DEF D
  <2>2. QED BY <2>1, Zenon
<1> HIDE DEF W
<1>3. \A p \in D : W[p] = Turn(mark, data, W, p)
  <2> HIDE DEF D
  <2>1. QED BY <1>2, Zenon
<1> HIDE DEF F
<1>4. Finds(data, <<>>, {})
  <2>1. Lists(<<>>, {})
    BY DEF Lists, El
  <2>2. <<>> \in Seq(Seq(Bytes)) /\ Len(<<>>) = 0
    OBVIOUS
  <2>3. QED BY <2>1, <2>2 DEF Finds
<1>5. ASSUME NEW r, NEW S, Finds(data, r, S) PROVE Finds(data, <<>> \o r, S)
  <2>1. <<>> \o r = r
    BY <1>5, ConcatEmptySeq DEF Finds
  <2>2. QED BY <1>5, <2>1
<1>6. ASSUME NEW r, NEW S, Finds(data, r, S), NEW m \in Nat, \A k \in S : m < k,
             UpToNul(data, m) \in Seq(Bytes)
      PROVE  Finds(data, <<UpToNul(data, m)>> \o r, {m} \cup S)
  <2> DEFINE t == UpToNul(data, m)
  <2>1. PICK q : /\ Lists(q, S) /\ r \in Seq(Seq(Bytes)) /\ Len(r) = Len(q)
                 /\ \A i \in 1..Len(q) : r[i] = UpToNul(data, q[i])
    BY <1>6 DEF Finds
  <2> DEFINE n == Len(q)
             u == <<m>> \o q
             z == <<t>> \o r
  <2>2. /\ Lists(u, {m} \cup S) /\ Len(u) = n + 1 /\ n \in Nat
        /\ u[1] = m /\ \A i \in 1..n : u[i + 1] = q[i]
    BY <1>6, <2>1, ListsCons
  <2> HIDE DEF u, t
  <2>3. <<t>> \in Seq(Seq(Bytes)) /\ Len(<<t>>) = 1 /\ <<t>>[1] = t
    BY <1>6 DEF t
  <2>4. /\ z \in Seq(Seq(Bytes)) /\ Len(z) = 1 + n
        /\ \A i \in 1..(1 + n) : z[i] = IF i <= 1 THEN <<t>>[i] ELSE r[i - 1]
    BY <2>1, <2>3, ConcatProperties
  <2> HIDE DEF z, n
  <2>5. ASSUME NEW i \in 1..(1 + n) PROVE z[i] = UpToNul(data, u[i])
    <3>1. CASE i = 1
      BY <2>2, <2>3, <2>4, <3>1 DEF t
    <3>2. CASE i # 1
      <4>1. i - 1 \in 1..n /\ ~(i <= 1) /\ i - 1 + 1 = i
        BY <2>2, <3>2
      <4>2. z[i] = r[i - 1] /\ u[i] = q[i - 1]
        BY <2>2, <2>4, <4>1
      <4>3. QED BY <2>1, <4>1, <4>2 DEF n
    <3>3. QED BY <3>1, <3>2
  <2>6. Len(z) = Len(u)
    BY <2>2, <2>4
  <2>7. \A i \in 1..Len(u) : z[i] = UpToNul(data, u[i])
    BY <2>4, <2>5, <2>6
  <2>8. Finds(data, z, {m} \cup S)
    BY <2>2, <2>4, <2>6, <2>7 DEF Finds
  <2>9. QED BY <2>8 DEF z, t
<1>7. ASSUME NEW p \in D, Between(data, p),
             \A e \in (p + 1)..(Len(data) + 1) : Between(data, e) => Finds(data, W[e], rest(e))
      PROVE  Finds(data, W[p], rest(p))
  <2>1. p \in 1..(Len(data) + 1) /\ W[p] = Turn(mark, data, W, p)
    BY <1>3
  <2> HIDE DEF D
  <2>2. \/ Rest(mark, data, p) = {} /\ W[p] = <<>>
        \/ \E e \in (p + 1)..(Len(data) + 1) :
             /\ Between(data, e)
             /\ \/ Rest(mark, data, p) = Rest(mark, data, e) /\ W[p] = <<>> \o W[e]
                \/ \E m \in p..(e - 1) : /\ Rest(mark, data, p) = {m} \cup Rest(mark, data, e)
                                       /\ UpToNul(data, m) \in Seq(Bytes)
                                       /\ W[p] = <<UpToNul(data, m)>> \o W[e]
    <3>1. Found(mark, data, p, Turn(mark, data, W, p), W)
      BY <1>7, <2>1, TurnIs
    <3>2. QED BY <2>1, <3>1 DEF Found
  <2>3. CASE rest(p) = {} /\ W[p] = <<>>
    BY <1>4, <2>3
  <2>4. ASSUME NEW e \in (p + 1)..(Len(data) + 1), Between(data, e),
               rest(p) = rest(e), W[p] = <<>> \o W[e]
        PROVE  Finds(data, W[p], rest(p))
    BY <1>5, <1>7, <2>4
  <2>5. ASSUME NEW e \in (p + 1)..(Len(data) + 1), Between(data, e), NEW m \in p..(e - 1),
               rest(p) = {m} \cup rest(e), UpToNul(data, m) \in Seq(Bytes),
               W[p] = <<UpToNul(data, m)>> \o W[e]
        PROVE  Finds(data, W[p], rest(p))
    <3>1. Finds(data, W[e], rest(e))
      BY <1>7, <2>5
    <3>2. m \in Nat /\ \A k \in rest(e) : m < k
      BY <1>1, <2>1, <2>5 DEF Rest, F
    <3>3. Finds(data, <<UpToNul(data, m)>> \o W[e], {m} \cup rest(e))
      BY <1>6, <2>5, <3>1, <3>2
    <3>4. QED BY <2>5, <3>3
  <2>6. QED BY <2>2, <2>3, <2>4, <2>5
<1>8. 0 \in N
  <2> SUFFICES ASSUME NEW p \in D, Len(data) + 1 - 0 <= p, Between(data, p)
               PROVE  Finds(data, W[p], rest(p))
    OBVIOUS
  <2>1. \A e : ~(e \in (p + 1)..(Len(data) + 1))
    BY <1>1
  <2>2. QED BY <1>7, <2>1
<1>9. ASSUME NEW n \in Nat, n \in N PROVE n + 1 \in N
  <2> SUFFICES ASSUME NEW p \in D, Len(data) + 1 - (n + 1) <= p, Between(data, p)
               PROVE  Finds(data, W[p], rest(p))
    OBVIOUS
  <2>1. \A e \in (p + 1)..(Len(data) + 1) : e \in D /\ Len(data) + 1 - n <= e
    BY <1>1
  <2>2. QED BY <1>7, <1>9, <2>1
<1>10. Finds(data, W[1], rest(1))
  <2>1. Len(data) + 1 \in Nat /\ 1 \in D /\ Len(data) + 1 - (Len(data) + 1) <= 1
    BY <1>1
  <2>2. Between(data, 1)
    BY DEF Between
  <2>3. Len(data) + 1 \in N
    <3> HIDE DEF N
    <3>1. QED BY <1>8, <1>9, <2>1, SetInduction
  <2> HIDE DEF D
  <2>4. QED BY <2>1, <2>2, <2>3
<1>11. rest(1) = F
  <2>1. \A k \in F : k >= 1
    BY <1>1
  <2>2. QED BY <2>1 DEF Rest, F
<1>12. PICK q : /\ Lists(q, F) /\ W[1] \in Seq(Seq(Bytes)) /\ Len(W[1]) = Len(q)
                /\ \A i \in 1..Len(q) : W[1][i] = UpToNul(data, q[i])
  BY <1>10, <1>11 DEF Finds
<1>13. /\ Cardinality(F) = Len(q)
       /\ \A i \in 1..Len(q) : Nth(F, i) = q[i]
  BY <1>12, NthIs
<1>14. ListedStrings(mark, data) = [i \in 1..Len(q) |-> UpToNul(data, q[i])]
  BY <1>13 DEF ListedStrings, F
<1>15. W[1] = [i \in 1..Len(W[1]) |-> W[1][i]]
  BY <1>12
<1>16. StringsWith(mark, data) = W[1]
  BY StringsAre, Zenon DEF W, D
<1>17. QED BY <1>12, <1>14, <1>15, <1>16

\* A section in which the text stands gives a string.
LEMMA StringsFound ==
  ASSUME NEW data \in Seq(Bytes), NEW mark \in {"pmd", "path"},
         NEW at \in 1..Len(data), data[at] = mark
  PROVE  StringsWith(mark, data) # <<>>
<1> DEFINE Q == {k \in 1..Len(data) : data[k] = mark}
           F == Firsts(mark, data)
<1>1. Len(data) \in Nat /\ DOMAIN data = 1..Len(data)
  BY LenProperties
<1>2. Q \in SUBSET Nat /\ Q # {}
  BY <1>1
<1> HIDE DEF Q
<1>3. Min(Q) \in Q /\ \A k \in Q : Min(Q) <= k
  BY <1>2, MinIs
<1>4. Min(Q) \in F
  <2>1. \A k \in 1..(Min(Q) - 1) : k \in 1..Len(data) /\ ~(Min(Q) <= k)
    BY <1>1, <1>3 DEF Q
  <2>2. QED BY <1>1, <1>3, <2>1 DEF Q, Firsts
<1>5. Cardinality(F) \in Nat \ {0}
  <2>1. IsFiniteSet(1..Len(data)) /\ F \subseteq 1..Len(data)
    BY <1>1, FS_Interval DEF Firsts
  <2>2. IsFiniteSet(F)
    BY <2>1, FS_Subset
  <2> HIDE DEF F
  <2>3. QED BY <1>4, <2>2, FS_CardinalityType, FS_EmptySet
<1>6. 1 \in DOMAIN ListedStrings(mark, data)
  BY <1>5 DEF ListedStrings
<1>7. QED BY <1>6, StringsListed

-----------------------------------------------------------------------------
(*****************************************************************************)
(* PCIIds.parse.  What the dictionaries hold after any number of lines is    *)
(* compared with what those lines say about one entry of pci_ids.            *)
(*****************************************************************************)
\* The dictionaries as values.
DB(V, a, d, e) == [vendors |-> V, vendorID |-> a, deviceID |-> d, keyError |-> e]
VendorWith(n, D) == [name |-> n, devices |-> D]
DeviceWith(n, S) == [name |-> n, subdevices |-> S]

\* w is f with v at k.
IsPut(w, f, k, v) ==
  /\ DOMAIN w = DOMAIN f \cup {k} /\ w[k] = v
  /\ \A x \in DOMAIN f : x # k => w[x] = f[x]

\* That is what Put gives.
LEMMA PutIs ==
  ASSUME NEW f, NEW k, NEW v
  PROVE  IsPut(Put(f, k, v), f, k, v)
BY DEF Put, IsPut

\* An entry that is there is changed.
LEMMA ExceptIs ==
  ASSUME NEW f, NEW k, k \in DOMAIN f, NEW v
  PROVE  Put(f, k, v) = [f EXCEPT ![k] = v]
<1>1. DOMAIN f \cup {k} = DOMAIN f
  OBVIOUS
<1>2. Put(f, k, v) = [x \in DOMAIN f |-> IF x = k THEN v ELSE f[x]]
  BY <1>1, Zenon DEF Put
<1>3. QED BY <1>2

\* The devices of a vendor are replaced.
LEMMA DevicesPut ==
  ASSUME NEW V, NEW a, NEW d, NEW e, a \in DOMAIN V,
         NEW n, NEW D, V[a] = VendorWith(n, D), NEW P
  PROVE  [DB(V, a, d, e) EXCEPT !.vendors[a].devices = P]
           = DB(Put(V, a, VendorWith(n, P)), a, d, e)
<1> SUFFICES ASSUME NEW W, W = Put(V, a, VendorWith(n, P))
             PROVE  [DB(V, a, d, e) EXCEPT !.vendors[a].devices = P] = DB(W, a, d, e)
  OBVIOUS
<1>0. W = [V EXCEPT ![a] = VendorWith(n, P)]
  BY ExceptIs, Zenon
<1>1. DB(V, a, d, e).vendors = V
  BY DEF DB
<1>2. [VendorWith(n, D) EXCEPT !.devices = P] = VendorWith(n, P)
  BY DEF VendorWith
<1>3. [V EXCEPT ![a].devices = P] = W
  BY <1>0, <1>2
<1>4. [DB(V, a, d, e) EXCEPT !.vendors = W] = DB(W, a, d, e)
  BY DEF DB
<1>5. [DB(V, a, d, e) EXCEPT !.vendors[a].devices = P]
        = [DB(V, a, d, e) EXCEPT !.vendors = [DB(V, a, d, e).vendors EXCEPT ![a].devices = P]]
  OBVIOUS
<1>6. [DB(V, a, d, e) EXCEPT !.vendors[a].devices = P] = [DB(V, a, d, e) EXCEPT !.vendors = W]
  BY <1>1, <1>3, <1>5, Zenon
<1>7. QED BY <1>4, <1>6, Zenon

\* The subdevices of a device are replaced.
LEMMA SubdevicesPut ==
  ASSUME NEW V, NEW a, NEW d, NEW e, a \in DOMAIN V,
         NEW n, NEW D, V[a] = VendorWith(n, D), d \in DOMAIN D,
         NEW m, NEW S, D[d] = DeviceWith(m, S), NEW P
  PROVE  [DB(V, a, d, e) EXCEPT !.vendors[a].devices[d].subdevices = P]
           = DB(Put(V, a, VendorWith(n, Put(D, d, DeviceWith(m, P)))), a, d, e)
<1> SUFFICES ASSUME NEW E, E = Put(D, d, DeviceWith(m, P)),
                    NEW W, W = Put(V, a, VendorWith(n, E))
             PROVE  [DB(V, a, d, e) EXCEPT !.vendors[a].devices[d].subdevices = P] = DB(W, a, d, e)
  OBVIOUS
<1>0. E = [D EXCEPT ![d] = DeviceWith(m, P)]
  BY ExceptIs, Zenon
<1>0a. W = [V EXCEPT ![a] = VendorWith(n, E)]
  <2>1. \A v : Put(V, a, v) = [V EXCEPT ![a] = v]
    BY ExceptIs, Zenon
  <2>2. Put(V, a, VendorWith(n, E)) = [V EXCEPT ![a] = VendorWith(n, E)]
    BY <2>1
  <2>3. QED BY <2>2
<1>1. DB(V, a, d, e).vendors = V /\ V[a].devices = D
  BY DEF DB, VendorWith
<1>2. [DeviceWith(m, S) EXCEPT !.subdevices = P] = DeviceWith(m, P)
  BY DEF DeviceWith
<1>3. [D EXCEPT ![d].subdevices = P] = E
  BY <1>0, <1>2
<1>4. [VendorWith(n, D) EXCEPT !.devices[d].subdevices = P]
        = [VendorWith(n, D) EXCEPT
             !.devices = [VendorWith(n, D).devices EXCEPT ![d].subdevices = P]]
  OBVIOUS
<1>5. [VendorWith(n, D) EXCEPT !.devices = E] = VendorWith(n, E)
  BY DEF VendorWith
<1>6. [VendorWith(n, D) EXCEPT !.devices[d].subdevices = P] = VendorWith(n, E)
  BY <1>1, <1>3, <1>4, <1>5, Zenon
<1>7. [V EXCEPT ![a].devices[d].subdevices = P] = W
  <2>1. [V EXCEPT ![a].devices[d].subdevices = P]
          = [V EXCEPT ![a] = [V[a] EXCEPT !.devices[d].subdevices = P]]
    OBVIOUS
  <2>2. QED BY <1>0a, <1>6, <2>1, Zenon
<1>8. [DB(V, a, d, e) EXCEPT !.vendors = W] = DB(W, a, d, e)
  BY DEF DB
<1>9. [DB(V, a, d, e) EXCEPT !.vendors[a].devices[d].subdevices = P]
        = [DB(V, a, d, e) EXCEPT
             !.vendors = [DB(V, a, d, e).vendors EXCEPT ![a].devices[d].subdevices = P]]
  OBVIOUS
<1>10. [DB(V, a, d, e) EXCEPT !.vendors[a].devices[d].subdevices = P]
         = [DB(V, a, d, e) EXCEPT !.vendors = W]
  BY <1>1, <1>7, <1>9, Zenon
<1>11. QED BY <1>8, <1>10, Zenon

\* A line of a vendor.
LEMMA VendorLine ==
  ASSUME NEW V, NEW a, NEW d, NEW e, NEW l,
         NEW x, x = FileId(l.id), NEW W, W = Put(V, x, VendorWith(l.name, <<>>))
  PROVE  addVendor(DB(V, a, d, e), l) = DB(W, x, d, e)
<1>0. W = Put(V, x, Vendor(l.name))
  BY DEF Vendor, VendorWith, Empty
<1>1. DB(V, a, d, e).vendors = V
  BY DEF DB
<1>2. addVendor(DB(V, a, d, e), l)
        = [[DB(V, a, d, e) EXCEPT !.vendorID = x] EXCEPT !.vendors = W]
  BY <1>0, <1>1, Zenon DEF addVendor
<1>3. [DB(V, a, d, e) EXCEPT !.vendorID = x] = DB(V, x, d, e)
  BY DEF DB
<1>4. [DB(V, x, d, e) EXCEPT !.vendors = W] = DB(W, x, d, e)
  BY DEF DB
<1>5. QED BY <1>2, <1>3, <1>4, Zenon

\* What is not there raises a KeyError.
LEMMA KeyErrorIs ==
  ASSUME NEW V, NEW a, NEW d, NEW e
  PROVE  KeyError(DB(V, a, d, e)).keyError = TRUE
<1>1. \A x : [DB(V, a, d, e) EXCEPT !.keyError = x] = DB(V, a, d, x)
  BY DEF DB
<1>2. [DB(V, a, d, e) EXCEPT !.keyError = TRUE] = DB(V, a, d, TRUE)
  BY <1>1
<1>3. DB(V, a, d, TRUE).keyError = TRUE
  BY DEF DB
<1>4. QED BY <1>2, <1>3, Zenon DEF KeyError

\* What a line of a device does, when the latest vendor is VendorWith(n, D).
DeviceDone(V, a, d, e, l, n, D) ==
  LET x == FileId(l.id)
      t == addDevice(DB(V, a, d, e), l)
  IN  /\ a \notin DOMAIN V => t.keyError = TRUE
      /\ a \in DOMAIN V /\ x \in DOMAIN D => t = DB(V, a, x, e)
      /\ a \in DOMAIN V /\ x \notin DOMAIN D =>
           t = DB(Put(V, a, VendorWith(n, Put(D, x, DeviceWith(l.name, <<>>)))), a, x, e)

\* If the latest vendor is there, it is VendorWith(n, D).
AtVendor(V, a, n, D) == a \in DOMAIN V => V[a] = VendorWith(n, D)

\* addDevice does it.
LEMMA DeviceLine ==
  ASSUME NEW V, NEW a, NEW d, NEW e, NEW l, NEW n, NEW D, AtVendor(V, a, n, D)
  PROVE  DeviceDone(V, a, d, e, l, n, D)
<1> SUFFICES ASSUME NEW x, x = FileId(l.id), NEW t, t = addDevice(DB(V, a, d, e), l),
                    NEW W, W = Put(V, a, VendorWith(n, Put(D, x, DeviceWith(l.name, <<>>))))
             PROVE  /\ a \notin DOMAIN V => t.keyError = TRUE
                    /\ a \in DOMAIN V /\ x \in DOMAIN D => t = DB(V, a, x, e)
                    /\ a \in DOMAIN V /\ x \notin DOMAIN D => t = DB(W, a, x, e)
  BY Zenon DEF DeviceDone
<1>0. a \in DOMAIN V => V[a] = VendorWith(n, D)
  BY DEF AtVendor
<1>1. [DB(V, a, d, e) EXCEPT !.deviceID = x] = DB(V, a, x, e)
  BY DEF DB
<1>2. DB(V, a, x, e).vendors = V /\ DB(V, a, x, e).vendorID = a /\ DB(V, a, x, e).deviceID = x
  BY DEF DB
<1>3. HasVendor(DB(V, a, x, e)) <=> a \in DOMAIN V
  BY <1>2, Zenon DEF HasVendor
<1>4. a \in DOMAIN V => (HasDevice(DB(V, a, x, e)) <=> x \in DOMAIN D) /\ V[a].devices = D
  <2>1. a \in DOMAIN V => V[a].devices = D
    BY <1>0 DEF VendorWith
  <2>2. QED BY <1>2, <1>3, <2>1, Zenon DEF HasDevice
<1>5. CASE a \notin DOMAIN V
  <2>1. addDevice(DB(V, a, d, e), l) = KeyError(DB(V, a, x, e))
    BY <1>1, <1>3, <1>5, Zenon DEF addDevice
  <2>2. QED BY <1>5, <2>1, KeyErrorIs, Zenon
<1>6. CASE a \in DOMAIN V /\ x \in DOMAIN D
  <2>1. addDevice(DB(V, a, d, e), l) = DB(V, a, x, e)
    BY <1>1, <1>3, <1>4, <1>6, Zenon DEF addDevice
  <2>2. QED BY <1>6, <2>1, Zenon
<1>7. CASE a \in DOMAIN V /\ x \notin DOMAIN D
  <2> SUFFICES ASSUME NEW P, P = Put(D, x, DeviceWith(l.name, <<>>))
               PROVE  addDevice(DB(V, a, d, e), l) = DB(Put(V, a, VendorWith(n, P)), a, x, e)
    BY <1>7, Zenon
  <2>1. P = Put(D, x, Device(l.name))
    BY DEF Device, DeviceWith, Empty
  <2>2. ASSUME NEW r, r = DB(V, a, x, e)
        PROVE  [r EXCEPT !.vendors[r.vendorID].devices = Put(@, r.deviceID, Device(l.name))]
                 = [r EXCEPT !.vendors[a].devices = P]
    <3>1. r.vendors = V /\ r.vendorID = a /\ r.deviceID = x /\ V[a].devices = D
      BY <1>2, <1>4, <1>7, <2>2
    <3>2. Put(r.vendors[r.vendorID].devices, r.deviceID, Device(l.name)) = P
      BY <3>1, <2>1, Zenon
    <3>3. [r EXCEPT !.vendors[r.vendorID].devices = Put(@, r.deviceID, Device(l.name))]
            = [r EXCEPT !.vendors[r.vendorID].devices =
                           Put(r.vendors[r.vendorID].devices, r.deviceID, Device(l.name))]
      OBVIOUS
    <3>4. QED BY <3>1, <3>2, <3>3, Zenon
  <2>4. addDevice(DB(V, a, d, e), l)
          = [DB(V, a, x, e) EXCEPT !.vendors[a].devices = P]
    BY <1>1, <1>3, <1>4, <1>7, <2>2, Zenon DEF addDevice
  <2>5. QED BY <1>0, <1>7, <2>4, DevicesPut
<1>8. QED BY <1>5, <1>6, <1>7, Zenon

\* What a line of a subdevice does, when the latest device is DeviceWith(m, S).
SubdeviceDone(V, a, d, e, l, n, D, m, S) ==
  LET P == Put(S, <<FileId(l.id), FileId(l.sub)>>, l.name)
      t == addSubDevice(DB(V, a, d, e), l)
  IN  /\ ~(a \in DOMAIN V /\ d \in DOMAIN D) => t.keyError = TRUE
      /\ a \in DOMAIN V /\ d \in DOMAIN D =>
           t = DB(Put(V, a, VendorWith(n, Put(D, d, DeviceWith(m, P)))), a, d, e)

\* If the latest device is there, it is DeviceWith(m, S).
AtDevice(V, a, D, d, m, S) == a \in DOMAIN V /\ d \in DOMAIN D => D[d] = DeviceWith(m, S)

\* addSubDevice does it.
LEMMA SubdeviceLine ==
  ASSUME NEW V, NEW a, NEW d, NEW e, NEW l, NEW n, NEW D, AtVendor(V, a, n, D),
         NEW m, NEW S, AtDevice(V, a, D, d, m, S)
  PROVE  SubdeviceDone(V, a, d, e, l, n, D, m, S)
<1> SUFFICES ASSUME NEW P, P = Put(S, <<FileId(l.id), FileId(l.sub)>>, l.name),
                    NEW t, t = addSubDevice(DB(V, a, d, e), l),
                    NEW W, W = Put(V, a, VendorWith(n, Put(D, d, DeviceWith(m, P))))
             PROVE  /\ ~(a \in DOMAIN V /\ d \in DOMAIN D) => t.keyError = TRUE
                    /\ a \in DOMAIN V /\ d \in DOMAIN D => t = DB(W, a, d, e)
  BY Zenon DEF SubdeviceDone
<1>0. /\ a \in DOMAIN V => V[a] = VendorWith(n, D)
      /\ a \in DOMAIN V /\ d \in DOMAIN D => D[d] = DeviceWith(m, S)
  BY DEF AtVendor, AtDevice
<1>1. DB(V, a, d, e).vendors = V /\ DB(V, a, d, e).vendorID = a /\ DB(V, a, d, e).deviceID = d
  BY DEF DB
<1>2. a \in DOMAIN V => V[a].devices = D
  BY <1>0 DEF VendorWith
<1>3. HasDevice(DB(V, a, d, e)) <=> a \in DOMAIN V /\ d \in DOMAIN D
  BY <1>1, <1>2, Zenon DEF HasDevice, HasVendor
<1>4. CASE ~(a \in DOMAIN V /\ d \in DOMAIN D)
  <2>1. addSubDevice(DB(V, a, d, e), l) = KeyError(DB(V, a, d, e))
    BY <1>3, <1>4, Zenon DEF addSubDevice
  <2>2. QED BY <1>4, <2>1, KeyErrorIs, Zenon
<1>5. CASE a \in DOMAIN V /\ d \in DOMAIN D
  <2>1. D[d].subdevices = S
    BY <1>0, <1>5 DEF DeviceWith
  <2>2. addSubDevice(DB(V, a, d, e), l)
          = [DB(V, a, d, e) EXCEPT !.vendors[a].devices[d].subdevices = P]
    BY <1>1, <1>2, <1>3, <1>5, <2>1, Zenon DEF addSubDevice
  <2>3. QED BY <1>0, <1>5, <2>2, SubdevicesPut
<1>6. QED BY <1>4, <1>5, Zenon

\* What parse has after the lines of s, when iter has it for less.
Reads(lines, iter, s) ==
  IF s = {} THEN ParseStart ELSE ParseLine(iter[s \ {Max(s)}], lines[Max(s)])

\* parse as a function of sets of lines.
LEMMA ParseIs ==
  ASSUME NEW lines
  PROVE  parse(lines) = (CHOOSE iter : iter = [s \in SUBSET DOMAIN lines |-> Reads(lines, iter, s)])
                          [DOMAIN lines]
BY Zenon DEF parse, FoldLeft, MapThenFoldSet, Reads

\* The function is there, one line after the other.
LEMMA ReadsExists ==
  ASSUME NEW lines, NEW n \in Nat
  PROVE  \E iter : iter = [s \in SUBSET (1..n) |-> Reads(lines, iter, s)]
<1> DEFINE N == {k \in Nat : \E g : \A s \in SUBSET (1..k) : g[s] = Reads(lines, g, s)}
<1>1. \A s, g, h : g[s \ {Max(s)}] = h[s \ {Max(s)}] => Reads(lines, g, s) = Reads(lines, h, s)
  BY Zenon DEF Reads
<1>2. \A g, h : Reads(lines, g, {}) = Reads(lines, h, {})
  BY Zenon DEF Reads
<1>3. 0 \in N
  <2> DEFINE g == [s \in {{}} |-> ParseStart]
  <2>1. \A s \in SUBSET (1..0) : s = {}
    OBVIOUS
  <2>2. g[{}] = Reads(lines, g, {})
    BY Zenon DEF Reads
  <2> HIDE DEF g
  <2>3. \A s \in SUBSET (1..0) : g[s] = Reads(lines, g, s)
    BY <2>1, <2>2
  <2>4. QED BY <2>3
<1>4. ASSUME NEW k \in Nat, k \in N PROVE k + 1 \in N
  <2>1. PICK g : \A s \in SUBSET (1..k) : g[s] = Reads(lines, g, s)
    BY <1>4
  <2> DEFINE h == [s \in SUBSET (1..(k + 1)) |-> IF k + 1 \in s THEN Reads(lines, g, s) ELSE g[s]]
  <2>2. \A s \in SUBSET (1..k) : s \in SUBSET (1..(k + 1)) /\ k + 1 \notin s
    OBVIOUS
  <2>3. \A s \in SUBSET (1..(k + 1)) : k + 1 \notin s => s \in SUBSET (1..k)
    OBVIOUS
  <2>4. \A s \in SUBSET (1..(k + 1)) : h[s] = IF k + 1 \in s THEN Reads(lines, g, s) ELSE g[s]
    BY Zenon
  <2> HIDE DEF h
  <2>5. \A s \in SUBSET (1..k) : h[s] = g[s]
    BY <2>2, <2>4
  <2>6. ASSUME NEW s \in SUBSET (1..(k + 1)), s # {} PROVE s \ {Max(s)} \in SUBSET (1..k)
    <3>1. s \in SUBSET (0..(k + 1)) /\ k + 1 \in Nat
      OBVIOUS
    <3>2. Max(s) \in s /\ \A q \in s : q <= Max(s)
      BY <2>6, <3>1, MaxIs
    <3>3. ASSUME NEW q \in s, q # Max(s) PROVE q \in 1..k
      <4>1. q \in 1..(k + 1) /\ Max(s) \in 1..(k + 1) /\ q <= Max(s)
        BY <3>2
      <4>2. QED BY <3>3, <4>1
    <3>4. QED BY <3>3
  <2>7. ASSUME NEW s \in SUBSET (1..(k + 1)) PROVE Reads(lines, h, s) = Reads(lines, g, s)
    <3>1. CASE s = {}
      BY <1>2, <3>1
    <3>2. CASE s # {}
      BY <1>1, <2>5, <2>6, <3>2
    <3>3. QED BY <3>1, <3>2
  <2>8. \A s \in SUBSET (1..(k + 1)) : h[s] = Reads(lines, h, s)
    BY <2>1, <2>3, <2>4, <2>7
  <2>9. QED BY <2>8
<1>5. n \in N
  <2> HIDE DEF N
  <2>1. QED BY <1>3, <1>4, SetInduction
<1>6. PICK g : \A s \in SUBSET (1..n) : g[s] = Reads(lines, g, s)
  BY <1>5
<1> DEFINE iter == [s \in SUBSET (1..n) |-> g[s]]
<1>7. \A s \in SUBSET (1..n) : iter[s] = g[s] /\ s \ {Max(s)} \in SUBSET (1..n)
  OBVIOUS
<1> HIDE DEF iter
<1>8. ASSUME NEW s \in SUBSET (1..n) PROVE g[s] = Reads(lines, iter, s)
  <2>1. g[s \ {Max(s)}] = iter[s \ {Max(s)}]
    BY <1>7
  <2>2. Reads(lines, g, s) = Reads(lines, iter, s)
    BY <1>1, <2>1
  <2>3. QED BY <1>6, <2>2
<1>9. iter = [s \in SUBSET (1..n) |-> Reads(lines, iter, s)]
  BY <1>8 DEF iter
<1>10. QED BY <1>9

\* parse reads one line after the other.
LEMMA ParseSteps ==
  ASSUME NEW lines \in Seq(Lines)
  PROVE  \E db : /\ db[0] = ParseStart /\ parse(lines) = db[Len(lines)]
                 /\ \A k \in 1..Len(lines) : db[k] = ParseLine(db[k - 1], lines[k])
<1> DEFINE n == Len(lines)
           iter == CHOOSE iter : iter = [s \in SUBSET (1..n) |-> Reads(lines, iter, s)]
           db == [k \in 0..n |-> iter[1..k]]
<1>1. n \in Nat /\ DOMAIN lines = 1..n
  BY LenProperties
<1>2. iter = [s \in SUBSET (1..n) |-> Reads(lines, iter, s)]
  <2>1. \E g : g = [s \in SUBSET (1..n) |-> Reads(lines, g, s)]
    BY <1>1, ReadsExists
  <2> HIDE DEF n
  <2>2. QED BY <2>1, Zenon
<1>3. parse(lines) = iter[1..n]
  BY <1>1, ParseIs, Zenon
<1> HIDE DEF n, iter
<1>4. \A s \in SUBSET (1..n) : iter[s] = Reads(lines, iter, s)
  BY <1>2, Zenon
<1>5. iter[{}] = ParseStart
  <2>1. {} \in SUBSET (1..n)
    OBVIOUS
  <2>2. QED BY <1>4, <2>1, Zenon DEF Reads
<1>6. ASSUME NEW k \in 1..n PROVE iter[1..k] = ParseLine(iter[1..(k - 1)], lines[k])
  <2>1. k \in Nat /\ k \in 1..k /\ 1..k \in SUBSET (1..n)
    BY <1>1
  <2>1a. 1..k # {}
    <3>1. k \in 1..k
      BY <2>1
    <3> DEFINE K == 1..k
    <3>2. k \in K
      BY <3>1
    <3> HIDE DEF K
    <3>3. K # {}
      BY <3>2
    <3>4. QED BY <3>3 DEF K
  <2>1b. 1..k \in SUBSET (0..k)
    BY <2>1
  <2>2. Max(1..k) \in 1..k /\ k <= Max(1..k)
    BY <2>1, <2>1a, <2>1b, MaxIs
  <2>3. Max(1..k) = k
    BY <2>1, <2>2
  <2>4. (1..k) \ {k} = 1..(k - 1)
    BY <2>1
  <2>5. iter[1..k] = Reads(lines, iter, 1..k)
    BY <1>4, <2>1
  <2>6. QED BY <2>1, <2>1a, <2>3, <2>4, <2>5, Zenon DEF Reads
<1>7. db[0] = ParseStart
  <2>1. 0 \in 0..n /\ 1..0 = {}
    BY <1>1
  <2>2. QED BY <1>5, <2>1
<1>8. \A k \in 1..n : db[k] = ParseLine(db[k - 1], lines[k])
  <2>1. \A k \in 1..n : k \in 0..n /\ k - 1 \in 0..n
    BY <1>1
  <2>2. QED BY <1>6, <2>1
<1>9. parse(lines) = db[n]
  BY <1>1, <1>3
<1> HIDE DEF db
<1>10. QED BY <1>7, <1>8, <1>9 DEF n

\* The lines about the entry i, and those of them in the first k lines that hold.
IsV(l, i) == l.kind = "vendor" /\ l.id = i[1]
IsD(l, i) == l.kind = "device" /\ l.id = i[2]
IsS(l, i) == l.kind = "subdevice" /\ l.id = i[3] /\ l.sub = i[4]

Vs(lines, k, i) == {j \in 1..k : IsV(lines[j], i)}
Ds(lines, k, i) ==
  {j \in 1..k : /\ IsD(lines[j], i) /\ Vs(lines, k, i) # {}
                /\ Within(lines, Max(Vs(lines, k, i)), j, {"vendor"})}
Ss(lines, k, i) ==
  {j \in 1..k : /\ IsS(lines[j], i)
                /\ \E d \in Ds(lines, k, i) : Within(lines, d, j, {"vendor", "device"})}

\* The latest vendor, or device, is that of i.
AtV(lines, k, i) ==
  Vs(lines, k, i) # {} /\ Within(lines, Max(Vs(lines, k, i)), k + 1, {"vendor"})
AtD(lines, k, i) ==
  \E d \in 1..k : IsD(lines[d], i) /\ Within(lines, d, k + 1, {"device"})

\* The subdevice that comes next is one of i's device.
AtS(lines, k, i) == \E d \in Ds(lines, k, i) : Within(lines, d, k + 1, {"vendor", "device"})

\* One line more.
LEMMA WithinNext ==
  ASSUME NEW lines, NEW k \in Nat, NEW kinds
  PROVE  /\ Within(lines, k + 1, k + 2, kinds)
         /\ \A j \in 1..k : Within(lines, j, k + 2, kinds)
                              <=> Within(lines, j, k + 1, kinds) /\ lines[k + 1].kind \notin kinds
<1>1. Within(lines, k + 1, k + 2, kinds)
  BY DEF Within
<1>2. ASSUME NEW j \in 1..k
      PROVE  Within(lines, j, k + 2, kinds)
               <=> Within(lines, j, k + 1, kinds) /\ lines[k + 1].kind \notin kinds
  <2>1. (j + 1)..(k + 2 - 1) = (j + 1)..(k + 1 - 1) \cup {k + 1} /\ j < k + 2 /\ j < k + 1
    OBVIOUS
  <2>2. QED BY <2>1 DEF Within
<1>3. QED BY <1>1, <1>2

\* The greatest of some places and a later one.
LEMMA MaxNext ==
  ASSUME NEW k \in Nat, NEW Q \in SUBSET (1..k)
  PROVE  Max(Q \cup {k + 1}) = k + 1
<1> DEFINE R == Q \cup {k + 1}
<1>1. R \in SUBSET (0..(k + 1)) /\ k + 1 \in R
  OBVIOUS
<1>2. \A q \in R : q \in 0..(k + 1)
  OBVIOUS
<1> HIDE DEF R
<1>3. Max(R) \in R /\ k + 1 <= Max(R)
  BY <1>1, MaxIs
<1>4. Max(R) \in 0..(k + 1)
  BY <1>2, <1>3
<1>5. Max(R) = k + 1
  BY <1>3, <1>4
<1>6. QED BY <1>5 DEF R

\* The least of them is the earlier one.
LEMMA MinNext ==
  ASSUME NEW k \in Nat, NEW Q \in SUBSET (1..k)
  PROVE  /\ Q = {} => Min(Q \cup {k + 1}) = k + 1
         /\ Q # {} => Min(Q \cup {k + 1}) = Min(Q)
<1> DEFINE R == Q \cup {k + 1}
<1>1. R \in SUBSET Nat /\ R # {} /\ Q \in SUBSET Nat
  OBVIOUS
<1>2. \A q \in R : q \in Q \/ q = k + 1
  OBVIOUS
<1>2a. \A q \in Q : q \in R /\ q \in 1..k
  OBVIOUS
<1> HIDE DEF R
<1>3. Min(R) \in R /\ \A q \in R : Min(R) <= q
  BY <1>1, MinIs
<1>4. CASE Q = {}
  BY <1>2, <1>3, <1>4 DEF R
<1>5. CASE Q # {}
  <2>1. Min(Q) \in Q /\ \A q \in Q : Min(Q) <= q
    BY <1>1, <1>5, MinIs
  <2>2. Min(R) <= Min(Q) /\ Min(Q) \in 1..k
    BY <1>2a, <1>3, <2>1
  <2>3. Min(R) \in Q
    BY <1>2, <1>3, <2>2
  <2>4. Min(R) \in 1..k /\ Min(Q) <= Min(R)
    BY <1>2a, <2>1, <2>3
  <2>5. Min(R) = Min(Q)
    BY <2>2, <2>4
  <2>6. QED BY <1>5, <2>5 DEF R
<1>6. QED BY <1>4, <1>5

\* The next line is not the vendor of i.
LEMMA OtherNext ==
  ASSUME NEW lines, NEW i, NEW k \in Nat, ~IsV(lines[k + 1], i)
  PROVE  /\ Vs(lines, k + 1, i) = Vs(lines, k, i)
         /\ Ds(lines, k + 1, i) = IF IsD(lines[k + 1], i) /\ AtV(lines, k, i)
                                  THEN Ds(lines, k, i) \cup {k + 1} ELSE Ds(lines, k, i)
         /\ Ss(lines, k + 1, i) = IF IsS(lines[k + 1], i) /\ AtS(lines, k, i)
                                  THEN Ss(lines, k, i) \cup {k + 1} ELSE Ss(lines, k, i)
         /\ AtV(lines, k + 1, i) <=> AtV(lines, k, i) /\ lines[k + 1].kind # "vendor"
<1>1. /\ \A j \in 1..(k + 1) : j \in 1..k \/ j = k + 1
      /\ \A j \in 1..k : j \in 1..(k + 1)
      /\ k + 1 \in 1..(k + 1)
  OBVIOUS
<1>2. Vs(lines, k + 1, i) = Vs(lines, k, i)
  BY <1>1 DEF Vs
<1>3. /\ \A j \in 1..(k + 1) : j \in Ds(lines, k + 1, i)
           <=> /\ IsD(lines[j], i) /\ Vs(lines, k, i) # {}
               /\ Within(lines, Max(Vs(lines, k, i)), j, {"vendor"})
      /\ \A j \in 1..k : j \in Ds(lines, k, i)
           <=> /\ IsD(lines[j], i) /\ Vs(lines, k, i) # {}
               /\ Within(lines, Max(Vs(lines, k, i)), j, {"vendor"})
      /\ Ds(lines, k + 1, i) \in SUBSET (1..(k + 1)) /\ Ds(lines, k, i) \in SUBSET (1..k)
  BY <1>2 DEF Ds
<1>4. \A j \in 1..k : j \in Ds(lines, k + 1, i) <=> j \in Ds(lines, k, i)
  BY <1>1, <1>3
<1>5. k + 1 \in Ds(lines, k + 1, i) <=> IsD(lines[k + 1], i) /\ AtV(lines, k, i)
  BY <1>1, <1>3 DEF AtV
<1>6. Ds(lines, k + 1, i) = IF IsD(lines[k + 1], i) /\ AtV(lines, k, i)
                            THEN Ds(lines, k, i) \cup {k + 1} ELSE Ds(lines, k, i)
  BY <1>1, <1>3, <1>4, <1>5
<1>7. ASSUME NEW j \in 1..(k + 1)
      PROVE  (\E d \in Ds(lines, k + 1, i) : Within(lines, d, j, {"vendor", "device"}))
               <=> \E d \in Ds(lines, k, i) : Within(lines, d, j, {"vendor", "device"})
  <2>1. ~Within(lines, k + 1, j, {"vendor", "device"})
    BY DEF Within
  <2>2. QED BY <1>6, <2>1
<1>8. /\ \A j \in 1..(k + 1) : j \in Ss(lines, k + 1, i)
           <=> /\ IsS(lines[j], i)
               /\ \E d \in Ds(lines, k, i) : Within(lines, d, j, {"vendor", "device"})
      /\ \A j \in 1..k : j \in Ss(lines, k, i)
           <=> /\ IsS(lines[j], i)
               /\ \E d \in Ds(lines, k, i) : Within(lines, d, j, {"vendor", "device"})
      /\ Ss(lines, k + 1, i) \in SUBSET (1..(k + 1)) /\ Ss(lines, k, i) \in SUBSET (1..k)
  BY <1>7 DEF Ss
<1>9. \A j \in 1..k : j \in Ss(lines, k + 1, i) <=> j \in Ss(lines, k, i)
  BY <1>1, <1>8
<1>10. k + 1 \in Ss(lines, k + 1, i) <=> IsS(lines[k + 1], i) /\ AtS(lines, k, i)
  BY <1>1, <1>8 DEF AtS
<1>11. Ss(lines, k + 1, i) = IF IsS(lines[k + 1], i) /\ AtS(lines, k, i)
                             THEN Ss(lines, k, i) \cup {k + 1} ELSE Ss(lines, k, i)
  BY <1>1, <1>8, <1>9, <1>10
<1>12. AtV(lines, k + 1, i) <=> AtV(lines, k, i) /\ lines[k + 1].kind # "vendor"
  <2> DEFINE S == Vs(lines, k, i)
  <2>1. CASE S # {}
    <3>1. S \in SUBSET (0..k) /\ S \in SUBSET (1..k)
      BY DEF Vs
    <3>2. Max(S) \in 1..k
      BY <2>1, <3>1, MaxIs
    <3>3. k + 1 + 1 = k + 2
      OBVIOUS
    <3>4. Within(lines, Max(S), k + 2, {"vendor"})
            <=> Within(lines, Max(S), k + 1, {"vendor"}) /\ lines[k + 1].kind \notin {"vendor"}
      BY <3>2, WithinNext
    <3>5. QED BY <1>2, <3>3, <3>4 DEF AtV
  <2>2. CASE S = {}
    BY <1>2, <2>2 DEF AtV
  <2>3. QED BY <2>1, <2>2
<1>13. QED BY <1>2, <1>6, <1>11, <1>12

\* The next line is the vendor of i.
LEMMA VendorNext ==
  ASSUME NEW lines, NEW i, NEW k \in Nat, IsV(lines[k + 1], i)
  PROVE  /\ Vs(lines, k + 1, i) # {} /\ Max(Vs(lines, k + 1, i)) = k + 1
         /\ Ds(lines, k + 1, i) = {} /\ Ss(lines, k + 1, i) = {}
         /\ AtV(lines, k + 1, i)
<1>1. Vs(lines, k + 1, i) = Vs(lines, k, i) \cup {k + 1} /\ Vs(lines, k, i) \in SUBSET (1..k)
  <2>1. /\ \A j \in 1..(k + 1) : j \in 1..k \/ j = k + 1
        /\ \A j \in 1..k : j \in 1..(k + 1)
        /\ k + 1 \in 1..(k + 1)
    OBVIOUS
  <2>2. QED BY <2>1 DEF Vs
<1>2. Vs(lines, k + 1, i) # {}
  BY <1>1
<1>3. Max(Vs(lines, k + 1, i)) = k + 1
  BY <1>1, MaxNext
<1>4. \A j \in 1..(k + 1) : ~Within(lines, k + 1, j, {"vendor"})
  BY DEF Within
<1>5. Ds(lines, k + 1, i) = {}
  BY <1>3, <1>4 DEF Ds
<1>6. Ss(lines, k + 1, i) = {}
  BY <1>5 DEF Ss
<1>7. AtV(lines, k + 1, i)
  <2>1. k + 1 + 1 = k + 2
    OBVIOUS
  <2>2. Within(lines, k + 1, k + 2, {"vendor"})
    BY WithinNext
  <2>3. QED BY <1>2, <1>3, <2>1, <2>2 DEF AtV
<1>8. QED BY <1>2, <1>3, <1>5, <1>6, <1>7

\* The latest device after the next line.
LEMMA DeviceNext ==
  ASSUME NEW lines, NEW i, NEW k \in Nat
  PROVE  AtD(lines, k + 1, i) <=> IF lines[k + 1].kind = "device" THEN lines[k + 1].id = i[2]
                                  ELSE AtD(lines, k, i)
<1>1. /\ \A j \in 1..(k + 1) : j \in 1..k \/ j = k + 1
      /\ \A j \in 1..k : j \in 1..(k + 1)
      /\ k + 1 \in 1..(k + 1) /\ k + 1 + 1 = k + 2
  OBVIOUS
<1>2. /\ Within(lines, k + 1, k + 2, {"device"})
      /\ \A j \in 1..k : Within(lines, j, k + 2, {"device"})
           <=> Within(lines, j, k + 1, {"device"}) /\ lines[k + 1].kind # "device"
  <2>1. /\ Within(lines, k + 1, k + 2, {"device"})
        /\ \A j \in 1..k : Within(lines, j, k + 2, {"device"})
             <=> Within(lines, j, k + 1, {"device"}) /\ lines[k + 1].kind \notin {"device"}
    BY WithinNext
  <2>2. QED BY <2>1
<1>3. AtD(lines, k + 1, i)
        <=> \E d \in 1..(k + 1) : IsD(lines[d], i) /\ Within(lines, d, k + 2, {"device"})
  BY <1>1 DEF AtD
<1>4. CASE lines[k + 1].kind = "device"
  <2>1. AtD(lines, k + 1, i) <=> IsD(lines[k + 1], i)
    BY <1>1, <1>2, <1>3, <1>4
  <2>2. QED BY <1>4, <2>1 DEF IsD
<1>5. CASE lines[k + 1].kind # "device"
  <2>1. ~IsD(lines[k + 1], i)
    BY <1>5 DEF IsD
  <2>2. AtD(lines, k + 1, i)
          <=> \E d \in 1..k : IsD(lines[d], i) /\ Within(lines, d, k + 2, {"device"})
    BY <1>1, <1>3, <2>1
  <2>3. QED BY <1>2, <1>5, <2>2 DEF AtD
<1>6. QED BY <1>4, <1>5

\* A subdevice belongs to i when the latest vendor and the latest device are i's, and
\* that vendor has the device.
LEMMA SubdeviceOf ==
  ASSUME NEW lines, NEW i, NEW k \in Nat
  PROVE  AtS(lines, k, i) <=> AtV(lines, k, i) /\ AtD(lines, k, i) /\ Ds(lines, k, i) # {}
<1> DEFINE S == Vs(lines, k, i)
           v == Max(S)
<1>1. S # {} => v \in 1..k
  <2>1. S \in SUBSET (0..k) /\ S \in SUBSET (1..k)
    BY DEF Vs
  <2> HIDE DEF S
  <2>2. QED BY <2>1, MaxIs
<1>2. \A d : d \in Ds(lines, k, i) <=> /\ d \in 1..k /\ IsD(lines[d], i) /\ S # {}
                                      /\ Within(lines, v, d, {"vendor"})
  BY DEF Ds
<1>3. AtV(lines, k, i) <=> S # {} /\ Within(lines, v, k + 1, {"vendor"})
  BY DEF AtV
<1>4. \A d : IsD(lines[d], i) => lines[d].kind = "device"
  BY DEF IsD
<1> HIDE DEF v, S
<1>5. ASSUME NEW d \in Ds(lines, k, i), Within(lines, d, k + 1, {"vendor", "device"})
      PROVE  AtV(lines, k, i) /\ AtD(lines, k, i)
  <2>1. /\ d \in 1..k /\ v \in 1..k /\ v < d /\ lines[d].kind = "device" /\ IsD(lines[d], i)
        /\ \A m \in (v + 1)..(d - 1) : lines[m].kind # "vendor"
        /\ \A m \in (d + 1)..k : lines[m].kind # "vendor" /\ lines[m].kind # "device"
        /\ S # {}
    <3>1. /\ d \in 1..k /\ IsD(lines[d], i) /\ S # {} /\ Within(lines, v, d, {"vendor"})
          /\ v \in 1..k /\ lines[d].kind = "device"
      BY <1>1, <1>2, <1>4, <1>5
    <3>2. k + 1 - 1 = k
      OBVIOUS
    <3>3. QED BY <1>5, <3>1, <3>2 DEF Within
  <2>2. \A m \in (v + 1)..k : m \in (v + 1)..(d - 1) \/ m = d \/ m \in (d + 1)..k
    BY <2>1
  <2>3. \A m \in (v + 1)..k : lines[m].kind # "vendor"
    BY <2>1, <2>2
  <2>4. Within(lines, v, k + 1, {"vendor"}) /\ Within(lines, d, k + 1, {"device"})
    BY <2>1, <2>3 DEF Within
  <2>5. QED BY <1>3, <2>1, <2>4 DEF AtD
<1>6. ASSUME AtV(lines, k, i), AtD(lines, k, i), NEW d \in Ds(lines, k, i)
      PROVE  AtS(lines, k, i)
  <2>1. PICK e \in 1..k : IsD(lines[e], i) /\ Within(lines, e, k + 1, {"device"})
    BY <1>6 DEF AtD
  <2>2. /\ d \in 1..k /\ lines[d].kind = "device" /\ S # {} /\ v \in 1..k /\ v < d
        /\ \A m \in (v + 1)..k : lines[m].kind # "vendor"
        /\ \A m \in (e + 1)..k : lines[m].kind # "device"
    <3>1. k + 1 - 1 = k
      OBVIOUS
    <3>2. QED BY <1>1, <1>2, <1>3, <1>4, <1>6, <2>1, <3>1 DEF Within
  <2>3. ~(d \in (e + 1)..k)
    BY <2>2
  <2>4. v < e
    BY <2>2, <2>3
  <2>5. \A m \in (e + 1)..k : m \in (v + 1)..k
    BY <2>2, <2>4
  <2>6. \A m \in (v + 1)..(e - 1) : m \in (v + 1)..k
    BY <2>2, <2>4
  <2>7. Within(lines, v, e, {"vendor"})
    BY <2>2, <2>4, <2>6 DEF Within
  <2>8. Within(lines, e, k + 1, {"vendor", "device"})
    BY <2>2, <2>5 DEF Within
  <2>9. QED BY <1>2, <2>1, <2>2, <2>7, <2>8 DEF AtS
<1>7. QED BY <1>5, <1>6 DEF AtS

\* Every vendor has a name and devices, and every device a name and subdevices.
Shape(V) ==
  \A a \in DOMAIN V : \E n, D :
    V[a] = VendorWith(n, D) /\ \A d \in DOMAIN D : \E m, S : D[d] = DeviceWith(m, S)

\* What the first k lines say about the entry i is what the dictionaries hold.
Key(i) == <<FileId(i[3]), FileId(i[4])>>
HoldsDevice(lines, k, i, t) ==
  /\ t.name = lines[Min(Ds(lines, k, i))].name
  /\ Key(i) \in DOMAIN t.subdevices <=> Ss(lines, k, i) # {}
  /\ Ss(lines, k, i) # {} => t.subdevices[Key(i)] = lines[Max(Ss(lines, k, i))].name
HoldsVendor(lines, k, i, w) ==
  /\ w.name = lines[Max(Vs(lines, k, i))].name
  /\ FileId(i[2]) \in DOMAIN w.devices <=> Ds(lines, k, i) # {}
  /\ Ds(lines, k, i) # {} => HoldsDevice(lines, k, i, w.devices[FileId(i[2])])
Holds(lines, k, i, V) ==
  /\ FileId(i[1]) \in DOMAIN V <=> Vs(lines, k, i) # {}
  /\ Vs(lines, k, i) # {} => HoldsVendor(lines, k, i, V[FileId(i[1])])

\* The vendor and the device that parse is at are the latest.
Points(lines, k, i, a, d) ==
  /\ a = FileId(i[1]) <=> AtV(lines, k, i)
  /\ d = FileId(i[2]) <=> AtD(lines, k, i)

GoodDB(lines, k, i, V, a, d) == Shape(V) /\ Points(lines, k, i, a, d) /\ Holds(lines, k, i, V)
Good(lines, k, i, s) ==
  \E V, a, d : s = DB(V, a, d, FALSE) /\ GoodDB(lines, k, i, V, a, d)

\* The text of an id is its own.
LEMMA FileIdIs ==
  ASSUME NEW x, NEW y
  PROVE  (FileId(x) = FileId(y) <=> x = y) /\ FileId(x) # <<>>
BY DEF FileId

\* The parts of a vendor and of a device.
LEMMA FieldsAre ==
  ASSUME NEW n, NEW D
  PROVE  /\ VendorWith(n, D).name = n /\ VendorWith(n, D).devices = D
         /\ DeviceWith(n, D).name = n /\ DeviceWith(n, D).subdevices = D
BY DEF VendorWith, DeviceWith

\* The places are places.
LEMMA Places ==
  ASSUME NEW lines, NEW i, NEW k \in Nat
  PROVE  /\ Vs(lines, k, i) \in SUBSET (1..k) /\ Ds(lines, k, i) \in SUBSET (1..k)
         /\ Ss(lines, k, i) \in SUBSET (1..k)
         /\ Vs(lines, k, i) = {} => Ds(lines, k, i) = {}
         /\ Ds(lines, k, i) = {} => Ss(lines, k, i) = {}
         /\ AtV(lines, k, i) => Vs(lines, k, i) # {}
BY DEF Vs, Ds, Ss, AtV

\* Before the first line.
LEMMA GoodStart ==
  ASSUME NEW lines, NEW i
  PROVE  Good(lines, 0, i, ParseStart)
<1>1. ParseStart = DB(<<>>, <<>>, <<>>, FALSE)
  BY DEF ParseStart, DB, Empty
<1>2. DOMAIN <<>> = {}
  OBVIOUS
<1>3. 1..0 = {}
  OBVIOUS
<1>4. Vs(lines, 0, i) = {} /\ ~AtV(lines, 0, i) /\ ~AtD(lines, 0, i)
  BY <1>3 DEF Vs, AtV, AtD
<1>5. Shape(<<>>)
  BY <1>2 DEF Shape
<1>6. Points(lines, 0, i, <<>>, <<>>)
  BY <1>4, FileIdIs DEF Points
<1>7. Holds(lines, 0, i, <<>>)
  BY <1>2, <1>4 DEF Holds
<1>8. QED BY <1>1, <1>5, <1>6, <1>7 DEF Good, GoodDB

\* A vendor is put in.
LEMMA ShapePut ==
  ASSUME NEW V, Shape(V), NEW a, NEW n, NEW D, \A d \in DOMAIN D : \E m, S : D[d] = DeviceWith(m, S)
  PROVE  Shape(Put(V, a, VendorWith(n, D)))
<1> DEFINE W == Put(V, a, VendorWith(n, D))
<1>0. IsPut(W, V, a, VendorWith(n, D))
  BY PutIs
<1> HIDE DEF W
<1>1. /\ DOMAIN W = DOMAIN V \cup {a} /\ W[a] = VendorWith(n, D)
      /\ \A x \in DOMAIN V : x # a => W[x] = V[x]
  BY <1>0 DEF IsPut
<1>2. ASSUME NEW x \in DOMAIN W
      PROVE  \E p, E : /\ W[x] = VendorWith(p, E)
                       /\ \A d \in DOMAIN E : \E m, S : E[d] = DeviceWith(m, S)
  <2>1. CASE x = a
    BY <1>1, <2>1
  <2>2. CASE x # a
    <3>1. x \in DOMAIN V /\ W[x] = V[x]
      BY <1>1, <2>2
    <3>2. QED BY <3>1 DEF Shape
  <2>3. QED BY <2>1, <2>2
<1>3. QED BY <1>2 DEF Shape, W

\* The next line says nothing about i.
LEMMA NothingNext ==
  ASSUME NEW lines, NEW i, NEW k \in Nat, NEW l, l = lines[k + 1],
         ~IsV(l, i), ~(IsD(l, i) /\ AtV(lines, k, i)), ~(IsS(l, i) /\ AtS(lines, k, i))
  PROVE  /\ Vs(lines, k + 1, i) = Vs(lines, k, i) /\ Ds(lines, k + 1, i) = Ds(lines, k, i)
         /\ Ss(lines, k + 1, i) = Ss(lines, k, i)
         /\ AtV(lines, k + 1, i) <=> AtV(lines, k, i) /\ l.kind # "vendor"
<1>1. /\ Vs(lines, k + 1, i) = Vs(lines, k, i)
      /\ Ds(lines, k + 1, i) = IF IsD(lines[k + 1], i) /\ AtV(lines, k, i)
                               THEN Ds(lines, k, i) \cup {k + 1} ELSE Ds(lines, k, i)
      /\ Ss(lines, k + 1, i) = IF IsS(lines[k + 1], i) /\ AtS(lines, k, i)
                               THEN Ss(lines, k, i) \cup {k + 1} ELSE Ss(lines, k, i)
      /\ AtV(lines, k + 1, i) <=> AtV(lines, k, i) /\ lines[k + 1].kind # "vendor"
  BY OtherNext
<1>2. QED BY <1>1

\* After a vendor.
LEMMA GoodVendor ==
  ASSUME NEW lines, NEW i, NEW k \in Nat, NEW l, l = lines[k + 1], l.kind = "vendor",
         NEW V, NEW a, NEW d, GoodDB(lines, k, i, V, a, d)
  PROVE  GoodDB(lines, k + 1, i, Put(V, FileId(l.id), VendorWith(l.name, <<>>)), FileId(l.id), d)
<1> DEFINE x == FileId(l.id)
           W == Put(V, x, VendorWith(l.name, <<>>))
           A == FileId(i[1])
<1>1. Shape(V) /\ Points(lines, k, i, a, d) /\ Holds(lines, k, i, V)
  BY DEF GoodDB
<1>2. IsPut(W, V, x, VendorWith(l.name, <<>>))
  BY PutIs
<1>3. DOMAIN <<>> = {}
  OBVIOUS
<1>4. Shape(W)
  BY <1>1, <1>3, ShapePut
<1>5. x = A <=> l.id = i[1]
  BY FileIdIs
<1>6. AtD(lines, k + 1, i) <=> AtD(lines, k, i)
  BY DeviceNext
<1> HIDE DEF x, W, A
<1>2a. /\ DOMAIN W = DOMAIN V \cup {x} /\ W[x] = VendorWith(l.name, <<>>)
       /\ \A y \in DOMAIN V : y # x => W[y] = V[y]
  BY <1>2 DEF IsPut
<1>7. CASE l.id = i[1]
  <2>1. IsV(lines[k + 1], i)
    BY <1>7 DEF IsV
  <2>2. /\ Vs(lines, k + 1, i) # {} /\ Max(Vs(lines, k + 1, i)) = k + 1
        /\ Ds(lines, k + 1, i) = {} /\ AtV(lines, k + 1, i)
    BY <2>1, VendorNext
  <2>3. Points(lines, k + 1, i, x, d)
    BY <1>1, <1>5, <1>6, <1>7, <2>2 DEF Points, A
  <2>4. W[A].name = l.name /\ DOMAIN W[A].devices = {}
    BY <1>2a, <1>3, <1>5, <1>7, FieldsAre
  <2>5. HoldsVendor(lines, k + 1, i, W[A])
    BY <2>2, <2>4 DEF HoldsVendor
  <2>6. Holds(lines, k + 1, i, W)
    BY <1>2a, <1>5, <1>7, <2>2, <2>5 DEF Holds, A
  <2>7. QED BY <1>4, <2>3, <2>6 DEF GoodDB, W, x
<1>8. CASE l.id # i[1]
  <2>1. ~IsV(l, i) /\ ~IsD(l, i) /\ ~IsS(l, i)
    BY <1>8 DEF IsV, IsD, IsS
  <2>2. /\ Vs(lines, k + 1, i) = Vs(lines, k, i) /\ Ds(lines, k + 1, i) = Ds(lines, k, i)
        /\ Ss(lines, k + 1, i) = Ss(lines, k, i)
        /\ AtV(lines, k + 1, i) <=> AtV(lines, k, i) /\ l.kind # "vendor"
    BY <2>1, NothingNext
  <2>3. Points(lines, k + 1, i, x, d)
    BY <1>1, <1>5, <1>6, <1>8, <2>2 DEF Points, A
  <2>4. (A \in DOMAIN W <=> A \in DOMAIN V) /\ (A \in DOMAIN V => W[A] = V[A])
    BY <1>2a, <1>5, <1>8
  <2>5. Holds(lines, k + 1, i, W)
    BY <1>1, <2>2, <2>4 DEF Holds, HoldsVendor, HoldsDevice, A
  <2>6. QED BY <1>4, <2>3, <2>5 DEF GoodDB, W, x
<1>9. QED BY <1>7, <1>8

\* The latest vendor has the device already.
LEMMA GoodAgain ==
  ASSUME NEW lines, NEW i, NEW k \in Nat, NEW l, l = lines[k + 1], l.kind = "device",
         NEW V, NEW a, NEW d, GoodDB(lines, k, i, V, a, d),
         a \in DOMAIN V, NEW n, NEW D, V[a] = VendorWith(n, D), FileId(l.id) \in DOMAIN D
  PROVE  GoodDB(lines, k + 1, i, V, a, FileId(l.id))
<1> DEFINE x == FileId(l.id)
           A == FileId(i[1])
           X == FileId(i[2])
<1>1. Shape(V) /\ Points(lines, k, i, a, d) /\ Holds(lines, k, i, V)
  BY DEF GoodDB
<1>2. (x = X <=> l.id = i[2]) /\ V[a].devices = D
  BY FileIdIs, FieldsAre
<1>3. ~IsV(lines[k + 1], i) /\ ~IsS(lines[k + 1], i) /\ (IsD(lines[k + 1], i) <=> l.id = i[2])
  BY DEF IsV, IsD, IsS
<1>4. /\ Vs(lines, k + 1, i) = Vs(lines, k, i)
      /\ Ds(lines, k + 1, i) = IF l.id = i[2] /\ AtV(lines, k, i)
                               THEN Ds(lines, k, i) \cup {k + 1} ELSE Ds(lines, k, i)
      /\ Ss(lines, k + 1, i) = Ss(lines, k, i)
      /\ AtV(lines, k + 1, i) <=> AtV(lines, k, i)
  BY <1>3, OtherNext
<1>5. AtD(lines, k + 1, i) <=> l.id = i[2]
  BY DeviceNext
<1> HIDE DEF x, X, A
<1>6. Points(lines, k + 1, i, a, x)
  BY <1>1, <1>2, <1>4, <1>5 DEF Points, A, X
<1>7. ASSUME l.id = i[2], AtV(lines, k, i) PROVE Ds(lines, k, i) # {}
  <2>1. a = A /\ Vs(lines, k, i) # {}
    BY <1>1, <1>7, Places DEF Points, A
  <2>2. X \in DOMAIN V[A].devices
    BY <1>2, <1>7, <2>1 DEF x
  <2>3. QED BY <1>1, <2>1, <2>2 DEF Holds, HoldsVendor, A, X
<1>8. /\ Ds(lines, k + 1, i) # {} <=> Ds(lines, k, i) # {}
      /\ Ds(lines, k, i) # {} => Min(Ds(lines, k + 1, i)) = Min(Ds(lines, k, i))
  <2>1. Ds(lines, k, i) \in SUBSET (1..k)
    BY Places
  <2>2. QED BY <1>4, <1>7, <2>1, MinNext
<1>9. Holds(lines, k + 1, i, V)
  BY <1>1, <1>4, <1>8 DEF Holds, HoldsVendor, HoldsDevice
<1>10. QED BY <1>1, <1>6, <1>9 DEF GoodDB, x

\* The latest vendor gets a device.
LEMMA GoodDevice ==
  ASSUME NEW lines, NEW i, NEW k \in Nat, NEW l, l = lines[k + 1], l.kind = "device",
         NEW V, NEW a, NEW d, GoodDB(lines, k, i, V, a, d),
         a \in DOMAIN V, NEW n, NEW D, V[a] = VendorWith(n, D), FileId(l.id) \notin DOMAIN D
  PROVE  GoodDB(lines, k + 1, i,
                Put(V, a, VendorWith(n, Put(D, FileId(l.id), DeviceWith(l.name, <<>>)))),
                a, FileId(l.id))
<1> DEFINE x == FileId(l.id)
           E == Put(D, x, DeviceWith(l.name, <<>>))
           W == Put(V, a, VendorWith(n, E))
           A == FileId(i[1])
           X == FileId(i[2])
<1>1. Shape(V) /\ Points(lines, k, i, a, d) /\ Holds(lines, k, i, V)
  BY DEF GoodDB
<1>2. /\ x = X <=> l.id = i[2]
      /\ V[a].devices = D /\ V[a].name = n
      /\ VendorWith(n, E).devices = E /\ VendorWith(n, E).name = n
  BY FileIdIs, FieldsAre
<1>3. /\ DeviceWith(l.name, <<>>).name = l.name
      /\ DOMAIN DeviceWith(l.name, <<>>).subdevices = {}
  <2>1. DeviceWith(l.name, <<>>).subdevices = <<>> /\ DOMAIN <<>> = {}
    BY FieldsAre
  <2>2. QED BY <2>1, FieldsAre
<1>0. IsPut(W, V, a, VendorWith(n, E)) /\ IsPut(E, D, x, DeviceWith(l.name, <<>>))
  BY PutIs
<1>6. x \notin DOMAIN D
  OBVIOUS
<1> HIDE DEF x, E, W, A, X
<1>4. /\ DOMAIN W = DOMAIN V \cup {a} /\ W[a] = VendorWith(n, E)
      /\ \A y \in DOMAIN V : y # a => W[y] = V[y]
  BY <1>0 DEF IsPut
<1>5. /\ DOMAIN E = DOMAIN D \cup {x} /\ E[x] = DeviceWith(l.name, <<>>)
      /\ \A y \in DOMAIN D : y # x => E[y] = D[y]
  BY <1>0 DEF IsPut
<1>7. Shape(W)
  <2>1. \A y \in DOMAIN D : \E m, S : D[y] = DeviceWith(m, S)
    <3>1. PICK n1, D1 : V[a] = VendorWith(n1, D1)
                        /\ \A y \in DOMAIN D1 : \E m, S : D1[y] = DeviceWith(m, S)
      BY <1>1 DEF Shape
    <3>2. D1 = D
      BY <1>2, <3>1, FieldsAre
    <3>3. QED BY <3>1, <3>2
  <2>2. ASSUME NEW y \in DOMAIN E PROVE \E m, S : E[y] = DeviceWith(m, S)
    BY <1>5, <2>1
  <2>3. QED BY <1>1, <2>2, ShapePut DEF W
<1>8. ~IsV(l, i) /\ ~IsS(l, i) /\ (IsD(l, i) <=> l.id = i[2])
  BY DEF IsV, IsD, IsS
<1>9. AtD(lines, k + 1, i) <=> l.id = i[2]
  BY DeviceNext
<1>10. CASE ~(l.id = i[2] /\ a = A)
  <2>1. ~(IsD(l, i) /\ AtV(lines, k, i))
    BY <1>1, <1>8, <1>10 DEF Points, A
  <2>2. /\ Vs(lines, k + 1, i) = Vs(lines, k, i) /\ Ds(lines, k + 1, i) = Ds(lines, k, i)
        /\ Ss(lines, k + 1, i) = Ss(lines, k, i)
        /\ AtV(lines, k + 1, i) <=> AtV(lines, k, i) /\ l.kind # "vendor"
    BY <1>8, <2>1, NothingNext
  <2>3. Points(lines, k + 1, i, a, x)
    BY <1>1, <1>2, <1>9, <2>2 DEF Points, A, X
  <2>4. A \in DOMAIN W <=> A \in DOMAIN V
    BY <1>4
  <2>5. CASE a # A
    <3>1. A \in DOMAIN V => W[A] = V[A]
      BY <1>4, <2>5
    <3>2. Holds(lines, k + 1, i, W)
      BY <1>1, <2>2, <2>4, <3>1 DEF Holds, HoldsVendor, HoldsDevice, A
    <3>3. QED BY <1>7, <2>3, <3>2 DEF GoodDB, W, E, x
  <2>6. CASE a = A
    <3>1. x # X
      BY <1>2, <1>10, <2>6
    <3>2. /\ W[A].name = V[A].name
          /\ X \in DOMAIN W[A].devices <=> X \in DOMAIN V[A].devices
          /\ X \in DOMAIN V[A].devices => W[A].devices[X] = V[A].devices[X]
      BY <1>2, <1>4, <1>5, <2>6, <3>1
    <3>3. ASSUME HoldsVendor(lines, k, i, V[A]) PROVE HoldsVendor(lines, k + 1, i, W[A])
      BY <2>2, <3>2, <3>3 DEF HoldsVendor, HoldsDevice, X
    <3>4. Holds(lines, k + 1, i, W)
      BY <1>1, <2>2, <2>4, <3>3 DEF Holds, A
    <3>5. QED BY <1>7, <2>3, <3>4 DEF GoodDB, W, E, x
  <2>7. QED BY <2>5, <2>6
<1>11. CASE l.id = i[2] /\ a = A
  <2>1. AtV(lines, k, i) /\ Vs(lines, k, i) # {}
    BY <1>1, <1>11, Places DEF Points, A
  <2>2. Ds(lines, k, i) = {} /\ Ss(lines, k, i) = {}
    <3>1. X \notin DOMAIN V[A].devices
      BY <1>2, <1>6, <1>11
    <3>2. Ds(lines, k, i) = {}
      BY <1>1, <2>1, <3>1 DEF Holds, HoldsVendor, A, X
    <3>3. QED BY <3>2, Places
  <2>3. /\ Vs(lines, k + 1, i) = Vs(lines, k, i) /\ Ds(lines, k + 1, i) = {} \cup {k + 1}
        /\ Ss(lines, k + 1, i) = {} /\ AtV(lines, k + 1, i)
    <3>1. /\ Vs(lines, k + 1, i) = Vs(lines, k, i)
          /\ Ds(lines, k + 1, i) = IF IsD(lines[k + 1], i) /\ AtV(lines, k, i)
                                   THEN Ds(lines, k, i) \cup {k + 1} ELSE Ds(lines, k, i)
          /\ Ss(lines, k + 1, i) = IF IsS(lines[k + 1], i) /\ AtS(lines, k, i)
                                   THEN Ss(lines, k, i) \cup {k + 1} ELSE Ss(lines, k, i)
          /\ AtV(lines, k + 1, i) <=> AtV(lines, k, i) /\ lines[k + 1].kind # "vendor"
      BY <1>8, OtherNext
    <3>2. QED BY <1>8, <1>11, <2>1, <2>2, <3>1
  <2>4. Points(lines, k + 1, i, a, x)
    BY <1>2, <1>9, <1>11, <2>3 DEF Points, A, X
  <2>5. Ds(lines, k + 1, i) # {} /\ Min(Ds(lines, k + 1, i)) = k + 1
    <3>1. {} \in SUBSET (1..k)
      OBVIOUS
    <3>2. QED BY <2>3, <3>1, MinNext
  <2>6. /\ W[A].devices = E /\ W[A].name = V[A].name /\ A \in DOMAIN W
        /\ E[X] = DeviceWith(l.name, <<>>) /\ X \in DOMAIN E
    BY <1>2, <1>4, <1>5, <1>11
  <2>7. HoldsDevice(lines, k + 1, i, E[X])
    BY <1>3, <2>3, <2>5, <2>6 DEF HoldsDevice
  <2>8. HoldsVendor(lines, k + 1, i, W[A])
    BY <1>1, <2>1, <2>3, <2>5, <2>6, <2>7 DEF Holds, HoldsVendor, A, X
  <2>9. Holds(lines, k + 1, i, W)
    BY <2>1, <2>3, <2>6, <2>8 DEF Holds, A
  <2>10. QED BY <1>7, <2>4, <2>9 DEF GoodDB, W, E, x
<1>12. QED BY <1>10, <1>11

\* A subdevice of the latest device of the latest vendor.
LEMMA GoodSubdevice ==
  ASSUME NEW lines, NEW i, NEW k \in Nat, NEW l, l = lines[k + 1], l.kind = "subdevice",
         NEW V, NEW a, NEW d, GoodDB(lines, k, i, V, a, d),
         a \in DOMAIN V, NEW n, NEW D, V[a] = VendorWith(n, D),
         d \in DOMAIN D, NEW m, NEW S, D[d] = DeviceWith(m, S)
  PROVE  GoodDB(lines, k + 1, i,
                Put(V, a, VendorWith(n, Put(D, d, DeviceWith(m,
                    Put(S, <<FileId(l.id), FileId(l.sub)>>, l.name))))), a, d)
<1> DEFINE y == <<FileId(l.id), FileId(l.sub)>>
           P == Put(S, y, l.name)
           E == Put(D, d, DeviceWith(m, P))
           W == Put(V, a, VendorWith(n, E))
           A == FileId(i[1])
           X == FileId(i[2])
<1>1. Shape(V) /\ Points(lines, k, i, a, d) /\ Holds(lines, k, i, V)
  BY DEF GoodDB
<1>2. /\ V[a].devices = D /\ V[a].name = n
      /\ VendorWith(n, E).devices = E /\ VendorWith(n, E).name = n
  BY FieldsAre
<1>3. /\ D[d].subdevices = S /\ D[d].name = m
      /\ DeviceWith(m, P).name = m /\ DeviceWith(m, P).subdevices = P
  BY FieldsAre
<1>0. /\ IsPut(W, V, a, VendorWith(n, E)) /\ IsPut(E, D, d, DeviceWith(m, P))
      /\ IsPut(P, S, y, l.name)
  BY PutIs
<1>7. y = Key(i) <=> l.id = i[3] /\ l.sub = i[4]
  BY FileIdIs DEF Key
<1> HIDE DEF y, P, E, W, A, X
<1>4. /\ DOMAIN W = DOMAIN V \cup {a} /\ W[a] = VendorWith(n, E)
      /\ \A x \in DOMAIN V : x # a => W[x] = V[x]
  BY <1>0 DEF IsPut
<1>5. /\ DOMAIN E = DOMAIN D \cup {d} /\ E[d] = DeviceWith(m, P)
      /\ \A x \in DOMAIN D : x # d => E[x] = D[x]
  BY <1>0 DEF IsPut
<1>6. /\ DOMAIN P = DOMAIN S \cup {y} /\ P[y] = l.name
      /\ \A x \in DOMAIN S : x # y => P[x] = S[x]
  BY <1>0 DEF IsPut
<1>8. Shape(W)
  <2>1. \A x \in DOMAIN D : \E m1, S1 : D[x] = DeviceWith(m1, S1)
    <3>1. PICK n1, D1 : V[a] = VendorWith(n1, D1)
                        /\ \A x \in DOMAIN D1 : \E m1, S1 : D1[x] = DeviceWith(m1, S1)
      BY <1>1 DEF Shape
    <3>2. D1 = D
      BY <1>2, <3>1, FieldsAre
    <3>3. QED BY <3>1, <3>2
  <2>2. ASSUME NEW x \in DOMAIN E PROVE \E m1, S1 : E[x] = DeviceWith(m1, S1)
    BY <1>5, <2>1
  <2>3. QED BY <1>1, <2>2, ShapePut DEF W
<1>9. ~IsV(l, i) /\ ~IsD(l, i) /\ (IsS(l, i) <=> y = Key(i))
  BY <1>7 DEF IsV, IsD, IsS
<1>10. AtD(lines, k + 1, i) <=> AtD(lines, k, i)
  BY DeviceNext
<1>11. a = A /\ d = X => Ds(lines, k, i) # {} /\ AtS(lines, k, i)
  <2> SUFFICES ASSUME a = A, d = X PROVE Ds(lines, k, i) # {} /\ AtS(lines, k, i)
    OBVIOUS
  <2>1. AtV(lines, k, i) /\ AtD(lines, k, i) /\ Vs(lines, k, i) # {}
    BY <1>1, Places DEF Points, A, X
  <2>2. X \in DOMAIN V[A].devices
    BY <1>2
  <2>3. Ds(lines, k, i) # {}
    BY <1>1, <2>1, <2>2 DEF Holds, HoldsVendor, A, X
  <2>4. QED BY <2>1, <2>3, SubdeviceOf
<1>12. ~(a = A /\ d = X) => ~AtS(lines, k, i)
  BY <1>1, SubdeviceOf DEF Points, A, X
<1>13. /\ Vs(lines, k + 1, i) = Vs(lines, k, i) /\ Ds(lines, k + 1, i) = Ds(lines, k, i)
       /\ AtV(lines, k + 1, i) <=> AtV(lines, k, i)
       /\ Ss(lines, k + 1, i) = IF y = Key(i) /\ a = A /\ d = X
                                THEN Ss(lines, k, i) \cup {k + 1} ELSE Ss(lines, k, i)
  <2>1. /\ Vs(lines, k + 1, i) = Vs(lines, k, i)
        /\ Ds(lines, k + 1, i) = IF IsD(lines[k + 1], i) /\ AtV(lines, k, i)
                                 THEN Ds(lines, k, i) \cup {k + 1} ELSE Ds(lines, k, i)
        /\ Ss(lines, k + 1, i) = IF IsS(lines[k + 1], i) /\ AtS(lines, k, i)
                                 THEN Ss(lines, k, i) \cup {k + 1} ELSE Ss(lines, k, i)
        /\ AtV(lines, k + 1, i) <=> AtV(lines, k, i) /\ lines[k + 1].kind # "vendor"
    BY <1>9, OtherNext
  <2>2. QED BY <1>9, <1>11, <1>12, <2>1
<1>14. Points(lines, k + 1, i, a, d)
  BY <1>1, <1>10, <1>13 DEF Points
<1>15. A \in DOMAIN W <=> A \in DOMAIN V
  BY <1>4
<1>16. CASE a # A
  <2>1. A \in DOMAIN V => W[A] = V[A]
    BY <1>4, <1>16
  <2>2. Ss(lines, k + 1, i) = Ss(lines, k, i)
    BY <1>13, <1>16
  <2>3. Holds(lines, k + 1, i, W)
    BY <1>1, <1>13, <1>15, <2>1, <2>2 DEF Holds, HoldsVendor, HoldsDevice, A
  <2>4. QED BY <1>8, <1>14, <2>3 DEF GoodDB, W, E, P, y
<1>17. CASE a = A
  <2>1. /\ W[A].name = V[A].name /\ V[A].devices = D /\ W[A].devices = E
        /\ X \in DOMAIN E <=> X \in DOMAIN D
    BY <1>2, <1>4, <1>5, <1>17
  <2>2. ASSUME X \in DOMAIN D, HoldsDevice(lines, k, i, D[X])
        PROVE  HoldsDevice(lines, k + 1, i, E[X])
    <3>1. CASE d # X
      <4>1. E[X] = D[X] /\ Ss(lines, k + 1, i) = Ss(lines, k, i)
        BY <1>5, <1>13, <2>2, <3>1
      <4>2. QED BY <1>13, <2>2, <4>1 DEF HoldsDevice
    <3>2. CASE d = X /\ y = Key(i)
      <4>1. Ss(lines, k + 1, i) = Ss(lines, k, i) \cup {k + 1} /\ Ss(lines, k, i) \in SUBSET (1..k)
        BY <1>13, <1>17, <3>2, Places
      <4>2. Max(Ss(lines, k + 1, i)) = k + 1
        BY <4>1, MaxNext
      <4>3. /\ E[X].name = D[X].name /\ E[X].subdevices = P
            /\ Key(i) \in DOMAIN P /\ P[Key(i)] = l.name
        BY <1>3, <1>5, <1>6, <3>2
      <4>4. Ss(lines, k + 1, i) # {}
        BY <4>1
      <4>5. QED BY <1>13, <2>2, <4>2, <4>3, <4>4 DEF HoldsDevice
    <3>3. CASE d = X /\ y # Key(i)
      <4>1. Ss(lines, k + 1, i) = Ss(lines, k, i)
        BY <1>13, <3>3
      <4>2. /\ E[X].name = D[X].name /\ E[X].subdevices = P /\ D[X].subdevices = S
            /\ Key(i) \in DOMAIN P <=> Key(i) \in DOMAIN S
            /\ Key(i) \in DOMAIN S => P[Key(i)] = S[Key(i)]
        BY <1>3, <1>5, <1>6, <3>3
      <4>3. QED BY <1>13, <2>2, <4>1, <4>2 DEF HoldsDevice
    <3>4. QED BY <3>1, <3>2, <3>3
  <2>3. ASSUME HoldsVendor(lines, k, i, V[A]) PROVE HoldsVendor(lines, k + 1, i, W[A])
    BY <1>13, <2>1, <2>2, <2>3 DEF HoldsVendor, X
  <2>4. Holds(lines, k + 1, i, W)
    BY <1>1, <1>13, <1>15, <2>3 DEF Holds, A
  <2>5. QED BY <1>8, <1>14, <2>4 DEF GoodDB, W, E, P, y
<1>18. QED BY <1>16, <1>17

\* A comment.
LEMMA GoodComment ==
  ASSUME NEW lines, NEW i, NEW k \in Nat, NEW l, l = lines[k + 1], l.kind = "comment",
         NEW V, NEW a, NEW d, GoodDB(lines, k, i, V, a, d)
  PROVE  GoodDB(lines, k + 1, i, V, a, d)
<1>1. ~IsV(l, i) /\ ~IsD(l, i) /\ ~IsS(l, i)
  BY DEF IsV, IsD, IsS
<1>2. /\ Vs(lines, k + 1, i) = Vs(lines, k, i) /\ Ds(lines, k + 1, i) = Ds(lines, k, i)
      /\ Ss(lines, k + 1, i) = Ss(lines, k, i)
      /\ AtV(lines, k + 1, i) <=> AtV(lines, k, i) /\ l.kind # "vendor"
  BY <1>1, NothingNext
<1>3. AtD(lines, k + 1, i) <=> AtD(lines, k, i)
  BY DeviceNext
<1>4. QED BY <1>2, <1>3 DEF GoodDB, Points, Holds, HoldsVendor, HoldsDevice

\* A line keeps what is good, or raises a KeyError.
LEMMA GoodStep ==
  ASSUME NEW lines, NEW i, NEW k \in Nat, NEW l, l = lines[k + 1], l.kind \in Kinds,
         NEW s, s.keyError = TRUE \/ Good(lines, k, i, s), NEW t, t = ParseLine(s, l)
  PROVE  t.keyError = TRUE \/ Good(lines, k + 1, i, t)
<1>1. CASE s.keyError = TRUE
  <2>1. t = s
    BY <1>1, Zenon DEF ParseLine
  <2>2. QED BY <1>1, <2>1
<1>2. CASE Good(lines, k, i, s)
  <2>1. PICK V, a, d, e : s = DB(V, a, d, e) /\ e = FALSE /\ GoodDB(lines, k, i, V, a, d)
    BY <1>2 DEF Good
  <2>2. s.keyError = FALSE
    BY <2>1 DEF DB
  <2>3. t = CASE l.kind = "comment" -> s
              [] l.kind = "subdevice" -> addSubDevice(s, l)
              [] l.kind = "device" -> addDevice(s, l)
              [] l.kind = "vendor" -> addVendor(s, l)
    BY <2>2, Zenon DEF ParseLine
  <2>4. \E n, D : a \in DOMAIN V => V[a] = VendorWith(n, D)
                                    /\ \A y \in DOMAIN D : \E m, S : D[y] = DeviceWith(m, S)
    BY <2>1 DEF GoodDB, Shape
  <2>5. PICK n, D : a \in DOMAIN V => V[a] = VendorWith(n, D)
                                      /\ \A y \in DOMAIN D : \E m, S : D[y] = DeviceWith(m, S)
    BY <2>4
  <2>6. ASSUME NEW W, NEW b, NEW c, t = DB(W, b, c, e), GoodDB(lines, k + 1, i, W, b, c)
        PROVE  Good(lines, k + 1, i, t)
    BY <2>1, <2>6 DEF Good
  <2>7. CASE l.kind = "comment"
    <3>1. t = DB(V, a, d, e)
      BY <2>1, <2>3, <2>7
    <3>2. GoodDB(lines, k + 1, i, V, a, d)
      BY <2>1, <2>7, GoodComment
    <3>3. QED BY <2>6, <3>1, <3>2
  <2>8. CASE l.kind = "vendor"
    <3> DEFINE x == FileId(l.id)
               W == Put(V, x, VendorWith(l.name, <<>>))
    <3>1. t = addVendor(DB(V, a, d, e), l)
      BY <2>1, <2>3, <2>8
    <3>2. addVendor(DB(V, a, d, e), l) = DB(W, x, d, e)
      BY VendorLine
    <3>3. GoodDB(lines, k + 1, i, W, x, d)
      BY <2>1, <2>8, GoodVendor
    <3> HIDE DEF W, x
    <3>4. QED BY <2>6, <3>1, <3>2, <3>3
  <2>9. CASE l.kind = "device"
    <3> DEFINE x == FileId(l.id)
               W == Put(V, a, VendorWith(n, Put(D, x, DeviceWith(l.name, <<>>))))
    <3>1. t = addDevice(DB(V, a, d, e), l)
      BY <2>1, <2>3, <2>9
    <3>2. a \in DOMAIN V => V[a] = VendorWith(n, D)
      BY <2>5
    <3>3. /\ a \notin DOMAIN V => t.keyError = TRUE
          /\ a \in DOMAIN V /\ x \in DOMAIN D => t = DB(V, a, x, e)
          /\ a \in DOMAIN V /\ x \notin DOMAIN D => t = DB(W, a, x, e)
      <4>1. DeviceDone(V, a, d, e, l, n, D)
        BY <3>2, DeviceLine DEF AtVendor
      <4>2. QED BY <3>1, <4>1, Zenon DEF DeviceDone
    <3>4. ASSUME a \in DOMAIN V, x \in DOMAIN D PROVE GoodDB(lines, k + 1, i, V, a, x)
      BY <2>1, <3>2, <2>9, <3>4, GoodAgain
    <3>5. ASSUME a \in DOMAIN V, x \notin DOMAIN D PROVE GoodDB(lines, k + 1, i, W, a, x)
      BY <2>1, <3>2, <2>9, <3>5, GoodDevice
    <3> HIDE DEF W, x
    <3>6. QED BY <2>6, <3>3, <3>4, <3>5
  <2>10. CASE l.kind = "subdevice"
    <3>1. t = addSubDevice(DB(V, a, d, e), l)
      BY <2>1, <2>3, <2>10
    <3>2. \E m, S : a \in DOMAIN V /\ d \in DOMAIN D => D[d] = DeviceWith(m, S)
      BY <2>5
    <3>3. PICK m, S : a \in DOMAIN V /\ d \in DOMAIN D => D[d] = DeviceWith(m, S)
      BY <3>2
    <3>4. a \in DOMAIN V => V[a] = VendorWith(n, D)
      BY <2>5
    <3> DEFINE P == Put(S, <<FileId(l.id), FileId(l.sub)>>, l.name)
               W == Put(V, a, VendorWith(n, Put(D, d, DeviceWith(m, P))))
    <3>5. /\ ~(a \in DOMAIN V /\ d \in DOMAIN D) => t.keyError = TRUE
          /\ a \in DOMAIN V /\ d \in DOMAIN D => t = DB(W, a, d, e)
      <4>1. AtVendor(V, a, n, D) /\ AtDevice(V, a, D, d, m, S)
        BY <3>3, <3>4 DEF AtVendor, AtDevice
      <4>2. SubdeviceDone(V, a, d, e, l, n, D, m, S)
        BY <4>1, SubdeviceLine
      <4>3. QED BY <3>1, <4>2, Zenon DEF SubdeviceDone
    <3>6. ASSUME a \in DOMAIN V, d \in DOMAIN D PROVE GoodDB(lines, k + 1, i, W, a, d)
      BY <2>1, <2>10, <3>3, <3>4, <3>6, GoodSubdevice
    <3> HIDE DEF W, P
    <3>7. QED BY <2>6, <3>5, <3>6
  <2>11. QED BY <2>7, <2>8, <2>9, <2>10 DEF Kinds
<1>3. QED BY <1>1, <1>2

\* What parse gives, unless it raises a KeyError.
LEMMA ParseGood ==
  ASSUME NEW lines \in Seq(Lines), NEW i
  PROVE  parse(lines).keyError = TRUE \/ Good(lines, Len(lines), i, parse(lines))
<1> DEFINE n == Len(lines)
<1>1. PICK db : /\ db[0] = ParseStart /\ parse(lines) = db[n]
                /\ \A k \in 1..n : db[k] = ParseLine(db[k - 1], lines[k])
  BY ParseSteps
<1>2. n \in Nat
  BY LenProperties
<1>3. \A k \in 1..n : lines[k].kind \in Kinds
  <2>1. \A k \in 1..n : lines[k] \in Lines
    BY ElementOfSeq
  <2>2. QED BY <2>1 DEF Lines
<1> HIDE DEF n
<1> DEFINE P(k) == db[k].keyError = TRUE \/ Good(lines, k, i, db[k])
           N == {k \in Nat : k <= n => P(k)}
<1>4. P(0)
  BY <1>1, GoodStart
<1>5. ASSUME NEW k \in Nat, k + 1 <= n, P(k) PROVE P(k + 1)
  <2>1. k + 1 \in 1..n /\ k + 1 - 1 = k
    BY <1>2, <1>5
  <2>2. db[k + 1] = ParseLine(db[k], lines[k + 1]) /\ lines[k + 1].kind \in Kinds
    BY <1>1, <1>3, <2>1
  <2>3. QED BY <1>5, <2>2, GoodStep
<1> HIDE DEF P
<1>6. 0 \in N
  BY <1>4
<1>7. ASSUME NEW k \in Nat, k \in N PROVE k + 1 \in N
  <2>1. k + 1 <= n => k <= n
    BY <1>2
  <2>2. QED BY <1>5, <1>7, <2>1
<1>8. n \in N
  <2> HIDE DEF N
  <2>1. QED BY <1>2, <1>6, <1>7, SetInduction
<1>9. P(n)
  BY <1>2, <1>8
<1>10. QED BY <1>1, <1>9 DEF n, P

\* What a vendor or a device that is not listed has.
LEMMA UnknownIs ==
  ASSUME NEW n
  PROVE  /\ Vendor(n).name = n /\ DOMAIN Vendor(n).devices = {}
         /\ Device(n).name = n /\ DOMAIN Device(n).subdevices = {}
<1>1. DOMAIN <<>> = {}
  OBVIOUS
<1>2. /\ Vendor(n).name = n /\ Vendor(n).devices = <<>>
      /\ Device(n).name = n /\ Device(n).subdevices = <<>>
  BY DEF Vendor, Device, Empty
<1>3. QED BY <1>1, <1>2

\* The places of the lines that ListedNames names.
LEMMA PlacesAre ==
  ASSUME NEW lines \in Seq(Lines), NEW i
  PROVE  /\ VendorLines(lines, i) = Vs(lines, Len(lines), i)
         /\ DeviceLines(lines, i) = Ds(lines, Len(lines), i)
         /\ SubdeviceLines(lines, i) = Ss(lines, Len(lines), i)
<1>1. DOMAIN lines = 1..Len(lines)
  BY LenProperties
<1>2. VendorLines(lines, i) = Vs(lines, Len(lines), i)
  BY <1>1 DEF Vs, IsV, LinesOf, VendorLines
<1>3. DeviceLines(lines, i) = Ds(lines, Len(lines), i)
  BY <1>1, <1>2 DEF Ds, IsD, LinesOf, DeviceLines
<1>4. SubdeviceLines(lines, i) = Ss(lines, Len(lines), i)
  BY <1>1, <1>3 DEF Ss, IsS, LinesOf, SubdeviceLines
<1>5. QED BY <1>2, <1>3, <1>4

\* Names finds what the lines say.
LEMMA NamesListed ==
  ASSUME NEW lines \in Seq(Lines), NEW i, FullIds(i), ~parse(lines).keyError
  PROVE  Names(parse(lines).vendors, i) = ListedNames(lines, i)
<1> DEFINE n == Len(lines)
           vs == Vs(lines, n, i)
           ds == Ds(lines, n, i)
           ss == Ss(lines, n, i)
<1>1. n \in Nat
  BY LenProperties
<1>2. PICK V, a, d : parse(lines) = DB(V, a, d, FALSE) /\ GoodDB(lines, n, i, V, a, d)
  BY ParseGood DEF Good
<1>3. parse(lines).vendors = V /\ Holds(lines, n, i, V)
  BY <1>2 DEF DB, GoodDB
<1>4. /\ Hex(i[1]) = FileId(i[1]) /\ Hex(i[2]) = FileId(i[2])
      /\ Hex(i[3]) = FileId(i[3]) /\ Hex(i[4]) = FileId(i[4])
  <2>1. \A k \in 1..4 : Hex(i[k]) = FileId(i[k])
    BY DEF FullIds, Hex, FileId
  <2>2. QED BY <2>1
<1>5. ListedNames(lines, i) =
        << IF vs = {} THEN "Unknown Vendor" ELSE lines[Max(vs)].name,
           IF ds = {} THEN "Unknown Device" ELSE lines[Min(ds)].name,
           IF ss # {} THEN lines[Max(ss)].name
           ELSE IF i[3] = AnyId /\ i[4] = AnyId THEN "(All Subdevices)"
           ELSE "(Unknown Subdevice)" >>
  <2>1. VendorLines(lines, i) = vs /\ DeviceLines(lines, i) = ds /\ SubdeviceLines(lines, i) = ss
    BY PlacesAre
  <2> HIDE DEF vs, ds, ss
  <2>2. QED BY <2>1, Zenon DEF ListedNames
<1> DEFINE vendor == find_vendor(V, i[1])
           device == find_device(vendor, i[2])
<1>6. Names(V, i) = <<vendor.name, device.name, find_subid(device, i[3], i[4])>>
  BY Zenon DEF Names
<1>7. (vs = {} => ds = {}) /\ (ds = {} => ss = {})
  BY <1>1, Places
<1>8. /\ vs = {} => vendor = Vendor("Unknown Vendor")
      /\ vs # {} => HoldsVendor(lines, n, i, vendor)
  <2>1. vendor = IF FileId(i[1]) \in DOMAIN V THEN V[FileId(i[1])] ELSE Vendor("Unknown Vendor")
    BY <1>4, Zenon DEF find_vendor
  <2> HIDE DEF vendor, n
  <2>2. QED BY <1>3, <2>1 DEF Holds
<1> HIDE DEF vendor
<1>9. vendor.name = IF vs = {} THEN "Unknown Vendor" ELSE lines[Max(vs)].name
  <2>1. vs = {} => vendor.name = "Unknown Vendor"
    BY <1>8, UnknownIs
  <2>2. vs # {} => vendor.name = lines[Max(vs)].name
    BY <1>8 DEF HoldsVendor
  <2> HIDE DEF vs
  <2>3. QED BY <2>1, <2>2
<1>10. /\ ds = {} => device = Device("Unknown Device")
       /\ ds # {} => HoldsDevice(lines, n, i, device)
  <2>1. FileId(i[2]) \in DOMAIN vendor.devices <=> ds # {}
    <3>1. CASE vs = {}
      <4>1. DOMAIN vendor.devices = {}
        BY <1>8, <3>1, UnknownIs
      <4>2. QED BY <1>7, <3>1, <4>1
    <3>2. CASE vs # {}
      BY <1>8, <3>2 DEF HoldsVendor
    <3>3. QED BY <3>1, <3>2
  <2>2. device = IF FileId(i[2]) \in DOMAIN vendor.devices THEN vendor.devices[FileId(i[2])]
                 ELSE Device("Unknown Device")
    BY <1>4, Zenon DEF find_device
  <2>3. ds # {} => HoldsDevice(lines, n, i, vendor.devices[FileId(i[2])])
    BY <1>7, <1>8 DEF HoldsVendor
  <2> HIDE DEF ds, device
  <2>4. QED BY <2>1, <2>2, <2>3
<1> HIDE DEF device
<1>11. device.name = IF ds = {} THEN "Unknown Device" ELSE lines[Min(ds)].name
  <2>1. ds = {} => device.name = "Unknown Device"
    BY <1>10, UnknownIs
  <2>2. ds # {} => device.name = lines[Min(ds)].name
    BY <1>10 DEF HoldsDevice
  <2> HIDE DEF ds
  <2>3. QED BY <2>1, <2>2
<1>12. /\ Key(i) \in DOMAIN device.subdevices <=> ss # {}
       /\ ss # {} => device.subdevices[Key(i)] = lines[Max(ss)].name
  <2>1. CASE ds = {}
    <3>1. DOMAIN device.subdevices = {}
      BY <1>10, <2>1, UnknownIs
    <3>2. QED BY <1>7, <2>1, <3>1
  <2>2. CASE ds # {}
    BY <1>10, <2>2 DEF HoldsDevice
  <2>3. QED BY <2>1, <2>2
<1>13. find_subid(device, i[3], i[4]) = IF ss # {} THEN lines[Max(ss)].name
                                        ELSE IF i[3] = AnyId /\ i[4] = AnyId THEN "(All Subdevices)"
                                        ELSE "(Unknown Subdevice)"
  <2>1. <<Hex(i[3]), Hex(i[4])>> = Key(i)
    BY <1>4 DEF Key
  <2>2. find_subid(device, i[3], i[4]) =
          IF Key(i) \in DOMAIN device.subdevices THEN device.subdevices[Key(i)]
          ELSE IF i[3] = AnyId /\ i[4] = AnyId THEN "(All Subdevices)"
          ELSE "(Unknown Subdevice)"
    BY <2>1, Zenon DEF find_subid
  <2> HIDE DEF ss
  <2>3. QED BY <1>12, <2>2, Zenon
<1> HIDE DEF vs, ds, ss
<1>14. QED BY <1>3, <1>5, <1>6, <1>9, <1>11, <1>13, Zenon

-----------------------------------------------------------------------------
(*****************************************************************************)
(* process_dt_needed_entries.  A cycle of libraries never ends well, so a    *)
(* library that is passed is displayed or still under way.                   *)
(*****************************************************************************)
\* f is in what was printed.
In(shown, f) == \E j \in 1..Len(shown) : shown[j].file = f

\* What was printed is a sequence.
OutOK == \E S : out \in Seq(S)

\* The files process_dt_needed_entries is in: each one needs the next.
Chain ==
  /\ stack \in Seq(world.elf \X (Nat \ {0}))
  /\ stack # <<>> => stack[1][1] = world.file
  /\ \A i \in 1..(Len(stack) - 1) :
       /\ stack[i][2] - 1 \in 1..Len(Tags(stack[i][1]))
       /\ stack[i + 1][1] = Tags(stack[i][1])[stack[i][2] - 1]
       /\ stack[i + 1][1] \in world.found

\* The libraries it has gone past are displayed, but for the one it is in.
Past ==
  \A i \in 1..Len(stack) : \A k \in 1..Len(Tags(stack[i][1])) :
    k < stack[i][2] /\ Tags(stack[i][1])[k] \in world.found \cap world.elf =>
      In(out, Tags(stack[i][1])[k]) \/ (i < Len(stack) /\ k = stack[i][2] - 1)

\* What a library needs comes before it.
Ordered ==
  \A i \in 1..Len(out) : \A lib \in Linked(out[i].file) : \E j \in 1..(i - 1) : out[j].file = lib

\* What is displayed is needed by something displayed later or under way, but for
\* the program.
Needed ==
  \A i \in 1..Len(out) :
    \/ \E j \in (i + 1)..Len(out) : out[i].file \in Linked(out[j].file)
    \/ \E k \in 1..Len(stack) : out[i].file \in Linked(stack[k][1])
    \/ pc = "done" /\ i = Len(out)

\* All that is so without -p.
Linking ==
  ~world.pdir =>
    /\ pc \in {"main", "args", "needed", "done"}
    /\ Chain /\ Past /\ Ordered /\ Needed
    /\ pc \in {"main", "args"} => out = <<>> /\ stack = <<>>
    /\ pc = "needed" => stack # <<>>
    /\ exit # "none" => pc = "done"
    /\ exit = "ok" => stack = <<>> /\ out # <<>> /\ out[Len(out)].file = world.file

LInv == world \in Worlds /\ OutOK /\ Linking

\* The needed entries are a sequence.
LEMMA TagsIs ==
  ASSUME world \in Worlds, NEW f \in world.elf
  PROVE  \E S : Tags(f) \in Seq(S)
<1>1. world.needed \in [DOMAIN world.needed -> Seq(DOMAIN world.needed)]
      /\ world.elf \cap world.dynamic \subseteq DOMAIN world.needed
  BY WorldsAssumption
<1>2. CASE f \in world.dynamic
  <2>1. world.needed[f] \in Seq(DOMAIN world.needed)
    BY <1>1, <1>2
  <2>2. QED BY <1>2, <2>1, Zenon DEF Tags
<1>3. CASE f \notin world.dynamic
  <2>1. <<>> \in Seq({})
    OBVIOUS
  <2>2. QED BY <1>3, <2>1, Zenon DEF Tags
<1>4. QED BY <1>2, <1>3

\* What is linked stands at one of the tags.
LEMMA LinkedIs ==
  ASSUME world \in Worlds, NEW f \in world.elf
  PROVE  /\ Len(Tags(f)) \in Nat
         /\ \A lib : lib \in Linked(f) <=> /\ lib \in world.found \cap world.elf
                                           /\ \E k \in 1..Len(Tags(f)) : Tags(f)[k] = lib
<1>1. PICK S : Tags(f) \in Seq(S)
  BY TagsIs
<1>2. Len(Tags(f)) \in Nat /\ DOMAIN Tags(f) = 1..Len(Tags(f))
  BY <1>1, LenProperties
<1>3. QED BY <1>2 DEF Linked, ToSet

\* Before main has done anything.
LEMMA LinkInit == Init => LInv
<1> SUFFICES ASSUME Init PROVE LInv
  OBVIOUS
<1>1. world \in Worlds /\ pc = "main" /\ stack = <<>> /\ out = <<>> /\ exit = "none"
  BY DEF Init
<1>2. OutOK
  <2>1. <<>> \in Seq({})
    OBVIOUS
  <2>2. QED BY <1>1, <2>1 DEF OutOK
<1>3. Chain
  BY <1>1 DEF Chain
<1>4. Past /\ Ordered /\ Needed
  BY <1>1 DEF Past, Ordered, Needed
<1>5. QED BY <1>1, <1>2, <1>3, <1>4 DEF LInv, Linking

\* What a step that displays adds.
LEMMA ShowIs ==
  ASSUME OutOK, NEW f, display_pmd_info_strings(f)
  PROVE  /\ OutOK' /\ Len(out) \in Nat /\ Len(out') = Len(out) + 1
         /\ \A i \in 1..Len(out) : out'[i] = out[i]
         /\ out'[Len(out) + 1].file = f
<1>1. PICK S : out \in Seq(S)
  BY DEF OutOK
<1>2. out \in Seq(S \cup {Printed(f)})
  BY <1>1
<1>3. /\ out' \in Seq(S \cup {Printed(f)}) /\ Len(out) \in Nat /\ Len(out') = Len(out) + 1
      /\ \A i \in 1..Len(out) : out'[i] = out[i]
      /\ out'[Len(out) + 1] = Printed(f)
  BY <1>2, AppendIs DEF display_pmd_info_strings
<1>4. Printed(f).file = f
  BY DEF Printed
<1>5. OutOK'
  BY <1>3 DEF OutOK
<1>6. QED BY <1>3, <1>4, <1>5

\* The file process_dt_needed_entries is in, and the tag it is at.
File == Top[1]
Tag == Top[2]

\* While it is in a file, there is a file at the top, and what LInv says of it.
LEMMA TopIs ==
  ASSUME LInv, pc = "needed", ~world.pdir
  PROVE  /\ world \in Worlds /\ OutOK /\ Chain /\ Past /\ Ordered /\ Needed /\ exit = "none"
         /\ Len(stack) \in Nat /\ Len(stack) >= 1
         /\ stack[Len(stack)][1] = File /\ stack[Len(stack)][2] = Tag
         /\ File \in world.elf /\ Tag \in Nat \ {0} /\ Len(Tags(File)) \in Nat
         /\ Below \in Seq(world.elf \X (Nat \ {0})) /\ Len(Below) = Len(stack) - 1
         /\ \A i \in 1..(Len(stack) - 1) : Below[i] = stack[i]
<1>1. /\ stack # <<>> /\ Chain /\ Past /\ Ordered /\ Needed
      /\ world \in Worlds /\ OutOK /\ exit = "none"
  BY DEF LInv, Linking
<1>2. /\ Len(stack) \in Nat /\ Len(stack) >= 1 /\ Top \in world.elf \X (Nat \ {0})
      /\ Below \in Seq(world.elf \X (Nat \ {0})) /\ Len(Below) = Len(stack) - 1
      /\ \A i \in 1..(Len(stack) - 1) : Below[i] = stack[i]
  BY <1>1, TopBelow DEF Chain, Top, Below
<1>3. File \in world.elf /\ Tag \in Nat \ {0} 
  BY <1>2 DEF File, Tag
<1>4. Len(Tags(File)) \in Nat
  BY <1>1, <1>3, LinkedIs
<1>5. stack[Len(stack)][1] = File /\ stack[Len(stack)][2] = Tag
  BY DEF File, Tag, Top
<1>6. QED BY <1>1, <1>2, <1>3, <1>4, <1>5

\* Going on to the next tag keeps the files.
LEMMA AdvanceIs ==
  ASSUME LInv, pc = "needed", ~world.pdir
  PROVE  /\ Advance \in Seq(world.elf \X (Nat \ {0})) /\ Len(Advance) = Len(stack)
         /\ \A i \in 1..(Len(stack) - 1) : Advance[i] = stack[i]
         /\ Advance[Len(stack)] = <<File, Tag + 1>>
         /\ \A i \in 1..Len(stack) : Advance[i][1] = stack[i][1]
<1>1. /\ Len(stack) \in Nat /\ Len(stack) >= 1
      /\ stack[Len(stack)][1] = File /\ stack[Len(stack)][2] = Tag
      /\ File \in world.elf /\ Tag \in Nat \ {0}
      /\ Below \in Seq(world.elf \X (Nat \ {0})) /\ Len(Below) = Len(stack) - 1
      /\ \A i \in 1..(Len(stack) - 1) : Below[i] = stack[i]
  BY TopIs
<1>2. <<File, Tag + 1>> \in world.elf \X (Nat \ {0}) /\ <<File, Tag + 1>>[1] = File
  BY <1>1
<1>3. Advance = Append(Below, <<File, Tag + 1>>)
  BY DEF Advance, File, Tag
<1>4. /\ Advance \in Seq(world.elf \X (Nat \ {0})) /\ Len(Advance) = Len(Below) + 1
      /\ \A i \in 1..Len(Below) : Advance[i] = Below[i]
      /\ Advance[Len(Below) + 1] = <<File, Tag + 1>>
  BY <1>1, <1>2, <1>3, AppendIs
<1>5. Len(Advance) = Len(stack) /\ Advance[Len(stack)] = <<File, Tag + 1>>
  BY <1>1, <1>4
<1>6. \A i \in 1..(Len(stack) - 1) : Advance[i] = stack[i]
  BY <1>1, <1>4
<1>7. ASSUME NEW i \in 1..Len(stack) PROVE Advance[i][1] = stack[i][1]
  <2>1. CASE i = Len(stack)
    BY <1>1, <1>2, <1>5, <2>1
  <2>2. CASE i # Len(stack)
    <3>1. i \in 1..(Len(stack) - 1)
      BY <1>1, <2>2
    <3>2. QED BY <1>6, <3>1
  <2>3. QED BY <2>1, <2>2
<1>8. QED BY <1>4, <1>5, <1>6, <1>7

\* NeededSkip: what is passed over is not linked, so it need not be displayed.
LEMMA SkipHolds ==
  ASSUME LInv, NeededSkip, ~world.pdir
  PROVE  LInv'
<1> DEFINE n == Len(stack)
<1>1. /\ pc = "needed" /\ Tag <= Len(Tags(File))
      /\ Tags(File)[Tag] \notin world.found \cap world.elf
      /\ stack' = Advance /\ UNCHANGED <<world, pc, out, exit>>
  BY DEF NeededSkip, AtTag, File, Tag
<1>2. /\ Chain /\ Past /\ Ordered /\ Needed
      /\ n \in Nat /\ n >= 1 /\ stack[n][1] = File /\ stack[n][2] = Tag
      /\ File \in world.elf /\ Tag \in Nat \ {0} /\ Len(Tags(File)) \in Nat
  BY <1>1, TopIs
<1>3. /\ stack' \in Seq(world.elf \X (Nat \ {0})) /\ Len(stack') = n
      /\ \A i \in 1..(n - 1) : stack'[i] = stack[i]
      /\ stack'[n] = <<File, Tag + 1>>
      /\ \A i \in 1..n : stack'[i][1] = stack[i][1]
  BY <1>1, AdvanceIs
<1> HIDE DEF n
<1>4. \A x : Tags(x)' = Tags(x) /\ Linked(x)' = Linked(x)
  BY <1>1 DEF Tags, Linked
<1>5. stack' # <<>> /\ stack # <<>> /\ Len(stack) = n
  BY <1>2, <1>3 DEF n
<1>6. Chain'
  <2>1. stack'[1][1] = world.file
    <3>1. 1 \in 1..n
      BY <1>2
    <3>2. QED BY <1>2, <1>3, <1>5, <3>1 DEF Chain
  <2>2. ASSUME NEW i \in 1..(n - 1)
        PROVE  /\ stack'[i][2] - 1 \in 1..Len(Tags(stack'[i][1]))
               /\ stack'[i + 1][1] = Tags(stack'[i][1])[stack'[i][2] - 1]
               /\ stack'[i + 1][1] \in world.found
    <3>1. i + 1 \in 1..n /\ i \in 1..n
      BY <1>2
    <3>2. stack'[i] = stack[i] /\ stack'[i + 1][1] = stack[i + 1][1]
      BY <1>3, <3>1
    <3>3. QED BY <1>2, <1>5, <3>2 DEF Chain
  <2>3. QED BY <1>1, <1>3, <1>4, <2>1, <2>2 DEF Chain
<1>7. Past'
  <2> SUFFICES ASSUME NEW i \in 1..n, NEW k \in 1..Len(Tags(stack'[i][1])),
                      k < stack'[i][2], Tags(stack'[i][1])[k] \in world.found \cap world.elf
               PROVE  In(out, Tags(stack'[i][1])[k]) \/ (i < n /\ k = stack'[i][2] - 1)
    BY <1>1, <1>3, <1>4 DEF Past
  <2>1. CASE i # n
    <3>1. i \in 1..(n - 1)
      BY <1>2, <2>1
    <3>2. stack'[i] = stack[i]
      BY <1>3, <3>1
    <3>3. QED BY <1>2, <1>5, <3>1, <3>2 DEF Past
  <2>2. CASE i = n
    <3>1. stack'[i][1] = File /\ stack'[i][2] = Tag + 1 /\ stack[i][1] = File /\ stack[i][2] = Tag
      BY <1>2, <1>3, <2>2
    <3>2. k # Tag /\ k \in 1..Len(Tags(File)) /\ k < Tag + 1
      BY <1>1, <3>1
    <3>3. k < Tag
      BY <1>2, <3>2
    <3>4. In(out, Tags(File)[k]) \/ i < n
      BY <1>2, <1>5, <3>1, <3>2, <3>3 DEF Past
    <3>5. QED BY <1>2, <2>2, <3>1, <3>4
  <2>3. QED BY <2>1, <2>2
<1>8. Ordered'
  <2>2. \A i : Linked(out[i].file)' = Linked(out[i].file)
    BY <1>1 DEF Linked, Tags
  <2> SUFFICES ASSUME NEW i \in 1..Len(out), NEW lib \in Linked(out[i].file)
               PROVE  \E j \in 1..(i - 1) : out[j].file = lib
    BY <1>1, <2>2 DEF Ordered
  <2>1. QED BY <1>2 DEF Ordered
<1>9. Needed'
  BY <1>1, <1>2, <1>3, <1>4, <1>5 DEF Needed
<1>10. OutOK' /\ world' \in Worlds
  BY <1>1 DEF LInv, OutOK
<1>11. QED BY <1>1, <1>5, <1>6, <1>7, <1>8, <1>9, <1>10, TopIs DEF LInv, Linking

\* NeededEnter: the file that is entered is the one its caller has gone past.
LEMMA EnterHolds ==
  ASSUME LInv, NeededEnter, ~world.pdir
  PROVE  LInv'
<1> DEFINE n == Len(stack)
           lib == Tags(File)[Tag]
<1>1. /\ pc = "needed" /\ Tag <= Len(Tags(File)) /\ lib \in world.found \cap world.elf
      /\ \/ stack' = Append(Advance, <<lib, 1>>) /\ UNCHANGED <<pc, exit>>
         \/ pc' = "done" /\ exit' = "recursion" /\ stack' = stack
      /\ UNCHANGED <<world, out>>
  BY DEF NeededEnter, AtTag, File, Tag, Stop
<1>2. /\ Chain /\ Past /\ Ordered /\ Needed /\ exit = "none"
      /\ n \in Nat /\ n >= 1 /\ stack[n][1] = File /\ stack[n][2] = Tag
      /\ File \in world.elf /\ Tag \in Nat \ {0} /\ Len(Tags(File)) \in Nat
  BY <1>1, TopIs
<1>3. \A x : Tags(x)' = Tags(x) /\ Linked(x)' = Linked(x)
  BY <1>1 DEF Tags, Linked
<1>4. OutOK' /\ world' \in Worlds
  BY <1>1 DEF LInv, OutOK
<1>5. Ordered'
  <2>1. out' = out /\ \A i : Linked(out[i].file)' = Linked(out[i].file)
    BY <1>1 DEF Linked, Tags
  <2> SUFFICES ASSUME NEW i \in 1..Len(out), NEW l \in Linked(out[i].file)
               PROVE  \E j \in 1..(i - 1) : out[j].file = l
    BY <2>1 DEF Ordered
  <2>2. QED BY <1>2 DEF Ordered
<1>6. CASE pc' = "done" /\ exit' = "recursion" /\ stack' = stack
  <2>1. Chain'
    BY <1>1, <1>2, <1>3, <1>6 DEF Chain
  <2>2. Past'
    BY <1>1, <1>2, <1>3, <1>6 DEF Past
  <2>3. Needed'
    BY <1>1, <1>2, <1>3, <1>6 DEF Needed
  <2>4. QED BY <1>1, <1>4, <1>5, <1>6, <2>1, <2>2, <2>3 DEF LInv, Linking
<1>7. CASE stack' = Append(Advance, <<lib, 1>>) /\ UNCHANGED <<pc, exit>>
  <2>1. /\ Advance \in Seq(world.elf \X (Nat \ {0})) /\ Len(Advance) = n
        /\ \A i \in 1..(n - 1) : Advance[i] = stack[i]
        /\ Advance[n] = <<File, Tag + 1>>
        /\ \A i \in 1..n : Advance[i][1] = stack[i][1]
    BY <1>1, AdvanceIs
  <2>2. /\ stack' \in Seq(world.elf \X (Nat \ {0})) /\ Len(stack') = n + 1
        /\ \A i \in 1..n : stack'[i] = Advance[i]
        /\ stack'[n + 1] = <<lib, 1>>
    <3>1. <<lib, 1>> \in world.elf \X (Nat \ {0})
      BY <1>1
    <3> HIDE DEF lib, n
    <3>2. QED BY <1>7, <2>1, <3>1, AppendIs
  <2> HIDE DEF n
  <2>3. /\ stack' # <<>> /\ stack # <<>> /\ Len(stack) = n
        /\ \A i \in 1..n : stack'[i][1] = stack[i][1] /\ i \in 1..(n + 1)
        /\ stack'[n] = <<File, Tag + 1>>
        /\ \A i \in 1..(n - 1) : stack'[i] = stack[i]
    <3>1. \A i \in 1..(n - 1) : i \in 1..n
      BY <1>2
    <3>2. n \in 1..n /\ \A i \in 1..n : i \in 1..(n + 1)
      BY <1>2
    <3>3. stack' # <<>> /\ stack # <<>> /\ Len(stack) = n
      BY <1>2, <2>2 DEF n
    <3>4. QED BY <2>1, <2>2, <3>1, <3>2, <3>3
  <2>4. Chain'
    <3>1. stack'[1][1] = world.file
      <4>1. 1 \in 1..n
        BY <1>2
      <4>2. QED BY <1>2, <2>3, <4>1 DEF Chain
    <3>2. ASSUME NEW i \in 1..n
          PROVE  /\ stack'[i][2] - 1 \in 1..Len(Tags(stack'[i][1]))
                 /\ stack'[i + 1][1] = Tags(stack'[i][1])[stack'[i][2] - 1]
                 /\ stack'[i + 1][1] \in world.found
      <4>1. CASE i = n
        <5>1. stack'[i][1] = File /\ stack'[i][2] = Tag + 1 /\ stack'[i + 1][1] = lib
          BY <2>2, <2>3, <4>1
        <5>2. Tag + 1 - 1 = Tag /\ Tag \in 1..Len(Tags(File))
          BY <1>1, <1>2
        <5>3. QED BY <1>1, <5>1, <5>2
      <4>2. CASE i # n
        <5>1. i \in 1..(n - 1) /\ i + 1 \in 1..n
          BY <1>2, <4>2
        <5>2. stack'[i] = stack[i] /\ stack'[i + 1][1] = stack[i + 1][1]
          BY <2>3, <5>1
        <5>3. QED BY <1>2, <2>3, <5>1, <5>2 DEF Chain
      <4>3. QED BY <4>1, <4>2
    <3>3. Len(stack') - 1 = n
      BY <1>2, <2>2
    <3>4. QED BY <1>1, <1>3, <2>2, <3>1, <3>2, <3>3 DEF Chain
  <2>5. Past'
    <3> SUFFICES ASSUME NEW i \in 1..(n + 1), NEW k \in 1..Len(Tags(stack'[i][1])),
                        k < stack'[i][2], Tags(stack'[i][1])[k] \in world.found \cap world.elf
                 PROVE  \/ In(out, Tags(stack'[i][1])[k])
                        \/ i < n + 1 /\ k = stack'[i][2] - 1
      BY <1>1, <1>3, <2>2 DEF Past
    <3>1. CASE i = n + 1
      BY <2>2, <3>1
    <3>2. CASE i = n
      <4>1. stack'[i][1] = File /\ stack'[i][2] = Tag + 1 /\ stack[i][1] = File /\ stack[i][2] = Tag
        BY <1>2, <2>3, <3>2 DEF n
      <4>2. CASE k = Tag
        BY <1>2, <3>2, <4>1, <4>2
      <4>3. CASE k # Tag
        <5>1. k < Tag /\ k \in 1..Len(Tags(File)) /\ i \in 1..n /\ ~(i < n)
          BY <1>2, <3>2, <4>1, <4>3
        <5>2. QED BY <1>2, <2>3, <4>1, <5>1 DEF Past
      <4>4. QED BY <4>2, <4>3
    <3>3. CASE i # n /\ i # n + 1
      <4>1. i \in 1..(n - 1) /\ i \in 1..n
        BY <1>2, <3>3
      <4>2. stack'[i] = stack[i]
        BY <2>3, <4>1
      <4>3. In(out, Tags(stack[i][1])[k]) \/ (i < n /\ k = stack[i][2] - 1)
        BY <1>2, <2>3, <4>1, <4>2 DEF Past
      <4>4. QED BY <1>2, <4>1, <4>2, <4>3
    <3>4. QED BY <3>1, <3>2, <3>3
  <2>6. Needed'
    <3>1. out' = out /\ pc = "needed" /\ Len(stack') = n + 1
      BY <1>1, <2>2
    <3>2. \A i \in 1..Len(out) :
            \/ \E j \in (i + 1)..Len(out) : out[i].file \in Linked(out[j].file)
            \/ \E k \in 1..n : out[i].file \in Linked(stack[k][1])
      BY <1>2, <2>3, <3>1 DEF Needed
    <3>3. \A i \in 1..Len(out) :
            \/ \E j \in (i + 1)..Len(out) : out[i].file \in Linked(out[j].file)
            \/ \E k \in 1..(n + 1) : out[i].file \in Linked(stack'[k][1])
      BY <2>3, <3>2
    <3>4. QED BY <1>3, <3>1, <3>3 DEF Needed
  <2>7. QED BY <1>1, <1>2, <1>4, <1>5, <1>7, <2>3, <2>4, <2>5, <2>6 DEF LInv, Linking
<1>8. QED BY <1>1, <1>6, <1>7

\* NeededReturn: a file is displayed when it has gone past all it needs.
LEMMA ReturnHolds ==
  ASSUME LInv, NeededReturn, ~world.pdir
  PROVE  LInv'
<1> DEFINE n == Len(stack)
           o == Len(out)
<1>1. /\ pc = "needed" /\ Tag > Len(Tags(File)) /\ display_pmd_info_strings(File)
      /\ stack' = Below /\ UNCHANGED world
      /\ IF Below = <<>> THEN pc' = "done" /\ exit' = "ok" ELSE UNCHANGED <<pc, exit>>
  BY DEF NeededReturn, File, Tag, Stop
<1>2. /\ Chain /\ Past /\ Ordered /\ Needed /\ OutOK /\ exit = "none" /\ world \in Worlds
      /\ n \in Nat /\ n >= 1 /\ stack[n][1] = File /\ stack[n][2] = Tag
      /\ File \in world.elf /\ Tag \in Nat \ {0} /\ Len(Tags(File)) \in Nat
      /\ stack' \in Seq(world.elf \X (Nat \ {0})) /\ Len(stack') = n - 1
      /\ \A i \in 1..(n - 1) : stack'[i] = stack[i]
  BY <1>1, TopIs
<1>3. /\ OutOK' /\ o \in Nat /\ Len(out') = o + 1
      /\ \A i \in 1..o : out'[i] = out[i]
      /\ out'[o + 1].file = File
  BY <1>1, <1>2, ShowIs
<1> HIDE DEF n, o
<1>4. \A x : Tags(x)' = Tags(x) /\ Linked(x)' = Linked(x)
  BY <1>1 DEF Tags, Linked
<1>5. In(out', File) /\ \A x : In(out, x) => In(out', x)
  <2>1. o + 1 \in 1..Len(out')
    BY <1>3
  <2>2. \A i \in 1..Len(out) : i \in 1..Len(out') /\ out'[i] = out[i]
    BY <1>3 DEF o
  <2>3. QED BY <1>3, <2>1, <2>2 DEF In
<1>6. \A lib \in Linked(File) : In(out, lib)
  <2> SUFFICES ASSUME NEW lib \in Linked(File) PROVE In(out, lib)
    OBVIOUS
  <2>1. PICK k \in 1..Len(Tags(File)) : Tags(File)[k] = lib
    BY <1>2, LinkedIs
  <2>2. lib \in world.found \cap world.elf /\ k < Tag /\ n \in 1..n /\ ~(n < n)
    BY <1>1, <1>2, LinkedIs
  <2>3. QED BY <1>2, <2>1, <2>2 DEF Past, n
<1>7. ASSUME n # 1
      PROVE  /\ stack[n - 1][2] - 1 \in 1..Len(Tags(stack[n - 1][1]))
             /\ File = Tags(stack[n - 1][1])[stack[n - 1][2] - 1]
             /\ File \in Linked(stack[n - 1][1]) /\ n - 1 \in 1..(n - 1)
  <2>1. /\ n - 1 \in 1..(n - 1) /\ (n - 1) + 1 = n /\ n - 1 \in 1..n
        /\ stack[n - 1] \in world.elf \X (Nat \ {0})
    <3>1. n - 1 \in 1..(n - 1) /\ (n - 1) + 1 = n /\ n - 1 \in 1..n
      BY <1>2, <1>7
    <3>2. QED BY SMTT(20), <1>2, <3>1 DEF Chain, n
  <2>2. /\ stack[n - 1][2] - 1 \in 1..Len(Tags(stack[n - 1][1]))
        /\ File = Tags(stack[n - 1][1])[stack[n - 1][2] - 1] /\ File \in world.found
    BY <1>2, <2>1 DEF Chain, n
  <2>3. QED BY <1>2, <2>1, <2>2, LinkedIs
<1>8. Chain'
  <2>1. stack' # <<>> => stack'[1][1] = world.file
    <3> SUFFICES ASSUME stack' # <<>> PROVE stack'[1][1] = world.file
      OBVIOUS
    <3>1. 1 \in 1..(n - 1) /\ stack # <<>>
      BY <1>2, EmptySeq DEF n
    <3>2. QED BY <1>2, <3>1 DEF Chain
  <2>2. ASSUME NEW i \in 1..(Len(stack') - 1)
        PROVE  /\ stack'[i][2] - 1 \in 1..Len(Tags(stack'[i][1]))
               /\ stack'[i + 1][1] = Tags(stack'[i][1])[stack'[i][2] - 1]
               /\ stack'[i + 1][1] \in world.found
    <3>1. i \in 1..(n - 1) /\ i + 1 \in 1..(n - 1)
      BY <1>2
    <3>2. stack'[i] = stack[i] /\ stack'[i + 1] = stack[i + 1]
      BY <1>2, <3>1
    <3>3. QED BY <1>2, <3>1, <3>2 DEF Chain, n
  <2>3. QED BY <1>1, <1>2, <1>4, <2>1, <2>2 DEF Chain
<1>9. Past'
  <2> SUFFICES ASSUME NEW i \in 1..(n - 1), NEW k \in 1..Len(Tags(stack'[i][1])),
                      k < stack'[i][2], Tags(stack'[i][1])[k] \in world.found \cap world.elf
               PROVE  \/ In(out', Tags(stack'[i][1])[k])
                      \/ i < n - 1 /\ k = stack'[i][2] - 1
    BY <1>1, <1>2, <1>4 DEF Past
  <2>1. i \in 1..n /\ stack'[i] = stack[i]
    BY <1>2
  <2>2. In(out, Tags(stack[i][1])[k]) \/ k = stack[i][2] - 1
    BY <1>2, <2>1 DEF Past, n
  <2>3. CASE i = n - 1
    <3>1. n # 1
      BY <1>2, <2>3
    <3>2. k = stack[i][2] - 1 => Tags(stack[i][1])[k] = File
      BY <1>7, <2>3, <3>1
    <3>3. QED BY <1>5, <2>1, <2>2, <3>2
  <2>4. CASE i # n - 1
    <3>1. i < n - 1
      BY <1>2, <2>4
    <3>2. QED BY <1>5, <2>1, <2>2, <3>1
  <2>5. QED BY <2>3, <2>4
<1>10. Ordered'
  <2>1. \A i : Linked(out[i].file)' = Linked(out'[i].file)
    BY <1>1 DEF Linked, Tags
  <2> SUFFICES ASSUME NEW i \in 1..(o + 1), NEW l \in Linked(out'[i].file)
               PROVE  \E j \in 1..(i - 1) : out'[j].file = l
    <3>1. Len(out)' = o + 1
      BY <1>3
    <3>2. \A i \in 1..(o + 1) : \A l \in Linked(out[i].file)' :
            \E j \in 1..(i - 1) : out'[j].file = l
      BY <2>1
    <3>3. QED BY <3>1, <3>2, Zenon DEF Ordered
  <2>2. CASE i = o + 1
    <3>1. In(out, l)
      BY <1>3, <1>6, <2>2
    <3>2. PICK j \in 1..o : out[j].file = l
      BY <3>1 DEF In, o
    <3>3. j \in 1..(i - 1) /\ out'[j].file = l
      BY <1>3, <2>2, <3>2
    <3>4. QED BY <3>3
  <2>3. CASE i # o + 1
    <3>1. i \in 1..o /\ out'[i] = out[i]
      BY <1>3, <2>3
    <3>2. PICK j \in 1..(i - 1) : out[j].file = l
      BY <1>2, <3>1 DEF Ordered, o
    <3>3. j \in 1..o
      BY <1>3, <3>1
    <3>4. QED BY <1>3, <3>2, <3>3
  <2>4. QED BY <2>2, <2>3
<1>11. Needed'
  <2>1. \A i, j :
          /\ (out[i].file \in Linked(out[j].file))' <=> out'[i].file \in Linked(out'[j].file)
          /\ (out[i].file \in Linked(stack[j][1]))' <=> out'[i].file \in Linked(stack'[j][1])
    BY <1>1 DEF Linked, Tags
  <2> SUFFICES ASSUME NEW i \in 1..(o + 1)
               PROVE  \/ \E j \in (i + 1)..(o + 1) : out'[i].file \in Linked(out'[j].file)
                      \/ \E k \in 1..(n - 1) : out'[i].file \in Linked(stack'[k][1])
                      \/ pc' = "done" /\ i = o + 1
    BY <1>2, <1>3, <2>1 DEF Needed
  <2>2. CASE i = o + 1 /\ n = 1
    <3>1. Below = <<>>
      BY <1>1, <1>2, <2>2, EmptySeq
    <3>2. QED BY <1>1, <2>2, <3>1
  <2>3. CASE i = o + 1 /\ n # 1
    <3>1. stack'[n - 1] = stack[n - 1] /\ n - 1 \in 1..(n - 1)
      BY <1>2, <1>7, <2>3
    <3>2. QED BY <1>3, <1>7, <2>3, <3>1
  <2>4. CASE i # o + 1
    <3>1. i \in 1..o /\ out'[i] = out[i]
      BY <1>3, <2>4
    <3>2. \/ \E j \in (i + 1)..o : out[i].file \in Linked(out[j].file)
          \/ \E k \in 1..n : out[i].file \in Linked(stack[k][1])
      BY <1>1, <1>2, <3>1 DEF Needed, o, n
    <3>3. ASSUME NEW j \in (i + 1)..o, out[i].file \in Linked(out[j].file)
          PROVE  \E j1 \in (i + 1)..(o + 1) : out'[i].file \in Linked(out'[j1].file)
      <4>1. j \in 1..o /\ j \in (i + 1)..(o + 1)
        BY <1>3, <3>1
      <4>2. out'[j] = out[j]
        BY <1>3, <4>1
      <4>3. QED BY <3>1, <3>3, <4>1, <4>2
    <3>4. ASSUME NEW k \in 1..n, out[i].file \in Linked(stack[k][1])
          PROVE  \/ \E j \in (i + 1)..(o + 1) : out'[i].file \in Linked(out'[j].file)
                 \/ \E k1 \in 1..(n - 1) : out'[i].file \in Linked(stack'[k1][1])
      <4>1. CASE k = n
        <5>1. o + 1 \in (i + 1)..(o + 1)
          BY <1>3, <3>1
        <5>2. QED BY <1>2, <1>3, <3>1, <3>4, <4>1, <5>1
      <4>2. CASE k # n
        <5>1. k \in 1..(n - 1)
          BY <1>2, <4>2
        <5>2. stack'[k] = stack[k]
          BY <1>2, <5>1
        <5>3. QED BY <3>1, <3>4, <5>1, <5>2
      <4>3. QED BY <4>1, <4>2
    <3>5. QED BY <3>2, <3>3, <3>4
  <2>5. QED BY <2>2, <2>3, <2>4
<1>12. CASE Below = <<>>
  <2>1. stack' = <<>> /\ pc' = "done" /\ exit' = "ok"
    BY <1>1, <1>12
  <2>2. n = 1
    <3>1. Len(<<>>) = 0
      OBVIOUS
    <3>2. QED BY <1>2, <2>1, <3>1
  <2>3. File = world.file
    <3>1. stack # <<>>
      BY <1>2, EmptySeq DEF n
    <3>2. QED BY <1>2, <2>2, <3>1 DEF Chain
  <2>4. out' # <<>> /\ out'[Len(out')].file = world.file
    BY <1>3, <2>3, EmptySeq
  <2>5. QED BY <1>1, <1>2, <1>3, <1>8, <1>9, <1>10, <1>11, <2>1, <2>4 DEF LInv, Linking
<1>13. CASE Below # <<>>
  <2>1. stack' # <<>> /\ pc' = "needed" /\ exit' = "none"
    BY <1>1, <1>2, <1>13
  <2>2. QED BY <1>1, <1>2, <1>3, <1>8, <1>9, <1>10, <1>11, <2>1 DEF LInv, Linking
<1>14. QED BY <1>12, <1>13

\* Every step keeps it.
LEMMA LinkStep == LInv /\ [Next]_vars => LInv'
<1> SUFFICES ASSUME LInv, [Next]_vars PROVE LInv'
  OBVIOUS
<1>1. world' = world /\ world \in Worlds
  BY DEF LInv, Next, ReadPciIds, NoPciIds, Usage, NotFound, Open, NeededPython3, NeededSkip,
     NeededEnter, NeededReturn, NotAnElf, FindLibrary, FindPath, Walk, WalkEnd, vars
<1>2. OutOK'
  <2>1. ASSUME NEW f, display_pmd_info_strings(f) PROVE OutOK'
    BY <2>1, ShowIs DEF LInv
  <2>2. (\E f : display_pmd_info_strings(f)) \/ out' = out
    BY DEF Next, ReadPciIds, NoPciIds, Usage, NotFound, Open, NeededPython3, NeededSkip,
       NeededEnter, NeededReturn, NotAnElf, FindLibrary, FindPath, Walk, WalkEnd, vars
  <2>3. QED BY <2>1, <2>2 DEF LInv, OutOK
<1>3. CASE world.pdir
  BY <1>1, <1>2, <1>3 DEF LInv, Linking
<1>4. CASE ~world.pdir
  <2>1. CASE NeededSkip
    BY <1>4, <2>1, SkipHolds
  <2>2. CASE NeededEnter
    BY <1>4, <2>2, EnterHolds
  <2>3. CASE NeededReturn
    BY <1>4, <2>3, ReturnHolds
  <2>4. CASE Open /\ stack' # stack
    <3>1. /\ pc = "args" /\ pc' = "needed" /\ stack' = <<<<world.file, 1>>>>
          /\ UNCHANGED <<out, exit>>
          /\ world.file \in world.elf
      BY <2>4 DEF Open
    <3>2. out = <<>> /\ exit = "none"
      BY <1>4, <3>1 DEF LInv, Linking
    <3>3. /\ stack' \in Seq(world.elf \X (Nat \ {0})) /\ Len(stack') = 1
          /\ stack'[1] = <<world.file, 1>> /\ stack' # <<>>
      <4>1. <<world.file, 1>> \in world.elf \X (Nat \ {0})
        BY <3>1
      <4>2. QED BY <3>1, <4>1
    <3>4. Chain'
      BY <1>1, <3>3 DEF Chain
    <3>5. Past'
      BY <1>1, <3>3 DEF Past
    <3>6. Ordered' /\ Needed'
      BY <3>1, <3>2 DEF Ordered, Needed
    <3>7. QED BY <1>1, <1>2, <1>4, <3>1, <3>2, <3>3, <3>4, <3>5, <3>6 DEF LInv, Linking
  <2>5. CASE UNCHANGED <<stack, out>> /\ ((UNCHANGED <<pc, exit>>) \/ (exit' # "ok" /\ pc' = "done")
                                         \/ (pc = "main" /\ pc' = "args" /\ exit' = exit))
    <3>1. Chain /\ Past /\ Ordered /\ Needed
      BY <1>4 DEF LInv, Linking
    <3>2. \A x : Tags(x)' = Tags(x) /\ Linked(x)' = Linked(x)
      BY <1>1 DEF Tags, Linked
    <3>3. Chain'
      BY <1>1, <2>5, <3>1, <3>2 DEF Chain
    <3>4. Past'
      BY <1>1, <2>5, <3>1, <3>2 DEF Past
    <3>5. Ordered'
      <4>1. out' = out /\ \A i : Linked(out[i].file)' = Linked(out[i].file)
        BY <1>1, <2>5 DEF Linked, Tags
      <4>2. QED BY <3>1, <4>1 DEF Ordered
    <3>6. Needed'
      BY <2>5, <3>1, <3>2 DEF Needed
    <3>7. QED BY <1>1, <1>2, <1>4, <2>5, <3>3, <3>4, <3>5, <3>6 DEF LInv, Linking
  <2>6. pc \in {"main", "args", "needed", "done"}
    BY <1>4 DEF LInv, Linking
  <2>7. CASE ReadPciIds \/ NoPciIds
    BY <2>5, <2>7 DEF ReadPciIds, NoPciIds, Stop
  <2>8. CASE Usage \/ NotFound
    BY <2>5, <2>8 DEF Usage, NotFound, Stop
  <2>9. CASE Open
    <3>1. CASE world.file \in world.elf
      <4>1. CASE stack' = stack
        <5>1. stack = <<>>
          BY <1>4, <2>9 DEF Open, LInv, Linking
        <5>2. QED BY <2>9, <3>1, <4>1, <5>1 DEF Open
      <4>2. QED BY <2>4, <2>9, <4>1
    <3>2. CASE world.file \notin world.elf
      BY <2>5, <2>9, <3>2 DEF Open, Stop
    <3>3. QED BY <3>1, <3>2
  <2>10. CASE NeededPython3
    BY <2>5, <2>10 DEF NeededPython3, Stop
  <2>11. CASE NotAnElf \/ FindLibrary
    BY <1>4, <2>11 DEF NotAnElf, FindLibrary
  <2>12. CASE FindPath \/ Walk \/ WalkEnd
    BY <2>6, <2>12 DEF FindPath, Walk, WalkEnd
  <2>13. CASE UNCHANGED vars
    BY <2>5, <2>13 DEF vars
  <2>14. QED BY <2>1, <2>2, <2>3, <2>7, <2>8, <2>9, <2>10, <2>11, <2>12, <2>13 DEF Next
<1>5. QED BY <1>3, <1>4

\* The invariant of process_dt_needed_entries, for every graph.
LEMMA LinkHolds == Spec => []LInv
BY LinkInit, LinkStep, PTL DEF Spec

\* What Linking says at the end.
LEMMA LinkDone == LInv /\ exit = "ok" /\ ~world.pdir => LinkedDisplayed
<1> SUFFICES ASSUME LInv, exit = "ok", ~world.pdir PROVE LinkedDisplayed
  OBVIOUS
<1>1. /\ Ordered /\ Needed /\ stack = <<>> /\ out # <<>> /\ out[Len(out)].file = world.file /\ OutOK
  BY DEF LInv, Linking
<1>2. Len(out) \in Nat /\ DOMAIN out = 1..Len(out)
  <2>1. PICK S : out \in Seq(S)
    BY <1>1 DEF OutOK
  <2>2. QED BY <2>1, LenProperties
<1>3. \A i \in 1..Len(out) : i < Len(out) =>
        \E j \in (i + 1)..Len(out) : out[i].file \in Linked(out[j].file)
  <2> SUFFICES ASSUME NEW i \in 1..Len(out), i < Len(out)
               PROVE  \E j \in (i + 1)..Len(out) : out[i].file \in Linked(out[j].file)
    OBVIOUS
  <2>1. ~(\E k \in 1..Len(stack) : out[i].file \in Linked(stack[k][1]))
    BY <1>1
  <2>2. i # Len(out)
    <3>1. Len(out) \in Nat
      BY <1>2
    <3>2. QED BY <3>1
  <2>3. QED BY <1>1, <2>1, <2>2 DEF Needed
<1>4. QED BY <1>1, <1>2, <1>3 DEF Ordered, LinkedDisplayed

-----------------------------------------------------------------------------
(*****************************************************************************)
(* scan_autoload_path.  The invariant speaks of the directories entered so   *)
(* far; the program does not keep them.                                      *)
(*****************************************************************************)
\* What stands in a directory.
Listed(d) == ToSet(world.tree[d])
Files == DOMAIN world.rodata \cup DOMAIN world.tree

\* V are the directories entered so far.  What is listed in them waits, was entered,
\* or was displayed if it is an ELF file, once.
Walked(V) ==
  /\ V \subseteq DOMAIN world.tree /\ world.plugins \in V
  /\ \A d \in V : d = world.plugins \/ \E e \in V : d \in Listed(e)
  /\ todo \in Seq(Files) /\ Once(todo)
  /\ \A f \in El(todo) : f \notin V /\ ~In(out, f) /\ \E d \in V : f \in Listed(d)
  /\ \A f : In(out, f) => f \in world.elf /\ \E d \in V : f \in Listed(d)
  /\ \A i, j \in 1..Len(out) : out[i].file = out[j].file => i = j
  /\ \A d \in V : \A f \in Listed(d) :
       \/ f \in V \/ f \in El(todo)
       \/ f \notin DOMAIN world.tree /\ (f \in world.elf => In(out, f))

\* All that is so with -p.
Scanning ==
  world.pdir =>
    /\ pc \in {"main", "args", "scan", "walk", "done"}
    /\ pc \in {"main", "args"} => scanned = "none"
    /\ pc \in {"main", "args", "scan"} => out = <<>>
    /\ pc = "scan" => scanned \in world.elf
    /\ exit # "none" => pc = "done"
    /\ pc = "walk" => \E V : Walked(V)
    /\ exit = "ok" /\ HasPath => PluginsDisplayed

WInv == world \in Worlds /\ OutOK /\ Scanning

\* What the assumption says of the directories.
LEMMA TreeIs ==
  ASSUME world \in Worlds
  PROVE  /\ world.plugins \in DOMAIN world.tree /\ world.elf \cap DOMAIN world.tree = {}
         /\ world.elf \subseteq DOMAIN world.rodata
         /\ \A f \in DOMAIN world.rodata : world.rodata[f] \in Seq(Bytes)
         /\ \A d \in DOMAIN world.tree :
              /\ world.tree[d] \in Seq(Files) /\ world.plugins \notin Listed(d)
              /\ Len(world.tree[d]) \in Nat
              /\ Listed(d) = El(world.tree[d]) /\ Once(world.tree[d])
         /\ \A d, e \in DOMAIN world.tree : \A f : f \in Listed(d) /\ f \in Listed(e) => d = e
         /\ \A S \in SUBSET (DOMAIN world.tree \ {world.plugins}) : S # {} =>
              \E d \in S, e \in DOMAIN world.tree \ S : d \in Listed(e)
<1> DEFINE tree == world.tree
           first == world.plugins
<1>1. /\ world.elf \cap DOMAIN tree = {} /\ world.elf \subseteq DOMAIN world.rodata
      /\ \A f \in DOMAIN world.rodata : world.rodata[f] \in Seq(Bytes)
      /\ IsTree(tree, first, DOMAIN world.rodata)
  BY WorldsAssumption
<1> HIDE DEF tree, first
<1>2. /\ first \in DOMAIN tree
      /\ \A d \in DOMAIN tree : /\ tree[d] \in Seq(DOMAIN world.rodata \cup DOMAIN tree)
                                /\ first \notin ToSet(tree[d])
  BY <1>1 DEF IsTree
<1>3. \A d, e \in DOMAIN tree : \A i \in DOMAIN tree[d], j \in DOMAIN tree[e] :
        tree[d][i] = tree[e][j] => d = e /\ i = j
  BY <1>1 DEF IsTree
<1>4. \A S \in SUBSET (DOMAIN tree \ {first}) : S # {} =>
        \E d \in S, e \in DOMAIN tree \ S : d \in ToSet(tree[e])
  BY <1>1, Zenon DEF IsTree
<1>5. \A d \in DOMAIN tree : DOMAIN tree[d] = 1..Len(tree[d]) /\ Len(tree[d]) \in Nat
  BY <1>2, LenProperties
<1>6. \A d : Listed(d) = ToSet(tree[d])
  BY DEF Listed, tree
<1>7. \A d \in DOMAIN tree : Listed(d) = El(tree[d])
  BY <1>5, <1>6 DEF ToSet, El
<1>8. \A d, e \in DOMAIN tree : \A f : f \in Listed(d) /\ f \in Listed(e) => d = e
  BY <1>3, <1>5, <1>7 DEF El
<1>9. \A d \in DOMAIN tree : Once(tree[d])
  BY <1>3, <1>5 DEF Once
<1>10. Files = DOMAIN world.rodata \cup DOMAIN tree
  BY DEF Files, tree
<1>11. \A d \in DOMAIN tree : tree[d] \in Seq(Files) /\ first \notin Listed(d)
  BY <1>2, <1>6, <1>10
<1>12. \A S \in SUBSET (DOMAIN tree \ {first}) : S # {} =>
         \E d \in S, e \in DOMAIN tree \ S : d \in Listed(e)
  BY <1>4, <1>6
<1>13. QED BY <1>1, <1>2, <1>5, <1>7, <1>8, <1>9, <1>11, <1>12, Zenon DEF tree, first

\* It starts with what the first directory lists.
LEMMA WalkStarts ==
  ASSUME WInv, world.pdir, pc = "scan", todo' = world.tree[world.plugins], UNCHANGED <<world, out>>
  PROVE  Walked({world.plugins})'
<1> DEFINE d == world.plugins
<1>1. /\ world \in Worlds /\ out = <<>> /\ Len(out) = 0
  <2>1. Len(<<>>) = 0
    OBVIOUS
  <2>2. QED BY <2>1 DEF WInv, Scanning
<1>2. /\ d \in DOMAIN world.tree /\ todo' \in Seq(Files) /\ d \notin Listed(d)
      /\ Listed(d) = El(todo') /\ Once(todo')
  BY <1>1, TreeIs
<1>3. \A e : Listed(e)' = Listed(e)
  BY DEF Listed
<1>4. Files' = Files
  BY DEF Files
<1>5. \A f : ~In(out, f) 
  BY <1>1 DEF In
<1>6. {d} \subseteq DOMAIN world.tree
  BY <1>2
<1>7. QED BY <1>1, <1>2, <1>3, <1>4, <1>5, <1>6 DEF Walked

\* A directory is entered.
LEMMA EnterDirectory ==
  ASSUME world \in Worlds, NEW CONSTANT V, Walked(V), todo # <<>>,
         NEW CONSTANT h, h = Head(todo), h \in DOMAIN world.tree,
         todo' = world.tree[h] \o Tail(todo), UNCHANGED <<world, out>>
  PROVE  Walked(V \cup {h})'
<1> DEFINE U == V \cup {h}
           rest == Tail(todo)
<1>1. /\ V \subseteq DOMAIN world.tree /\ world.plugins \in V
      /\ \A d \in V : d = world.plugins \/ \E e \in V : d \in Listed(e)
      /\ todo \in Seq(Files) /\ Once(todo)
      /\ \A f \in El(todo) : f \notin V /\ ~In(out, f) /\ \E d \in V : f \in Listed(d)
      /\ \A f : In(out, f) => f \in world.elf /\ \E d \in V : f \in Listed(d)
      /\ \A i, j \in 1..Len(out) : out[i].file = out[j].file => i = j
      /\ \A d \in V : \A f \in Listed(d) :
           \/ f \in V \/ f \in El(todo)
           \/ f \notin DOMAIN world.tree /\ (f \in world.elf => In(out, f))
  BY DEF Walked
<1>2. /\ rest \in Seq(Files) /\ El(todo) = El(rest) \cup {h} /\ Once(rest) /\ h \notin El(rest)
  BY <1>1, TailEl
<1>3. /\ world.tree[h] \in Seq(Files) /\ Listed(h) = El(world.tree[h]) /\ Once(world.tree[h])
      /\ world.plugins \notin Listed(h)
      /\ \A d, e \in DOMAIN world.tree : \A f : f \in Listed(d) /\ f \in Listed(e) => d = e
  BY TreeIs
<1>4. /\ h \notin V /\ ~In(out, h) /\ \E d \in V : h \in Listed(d)
  BY <1>1, <1>2
<1>5. \A f \in Listed(h) : \A d \in V : f \notin Listed(d)
  BY <1>1, <1>3, <1>4
<1>6. Listed(h) \cap El(rest) = {}
  BY <1>1, <1>2, <1>5
<1>7. todo' \in Seq(Files) /\ El(todo') = Listed(h) \cup El(rest) /\ Once(todo')
  <2> HIDE DEF rest
  <2> DEFINE q == world.tree[h]
  <2>1. /\ q \in Seq(Files) /\ rest \in Seq(Files) /\ Once(q) /\ Once(rest)
        /\ El(q) = Listed(h) /\ El(q) \cap El(rest) = {}
    BY <1>2, <1>3, <1>6
  <2> HIDE DEF q
  <2>2. /\ q \o rest \in Seq(Files) /\ El(q \o rest) = El(q) \cup El(rest)
        /\ Once(q \o rest)
    BY <2>1, ConcatEl
  <2>3. todo' = q \o rest
    BY DEF q, rest
  <2>4. Once(todo')
    BY <2>2, <2>3
  <2>5. todo' \in Seq(Files) /\ El(todo') = Listed(h) \cup El(rest)
    BY <2>1, <2>2, <2>3
  <2>6. QED BY <2>4, <2>5
<1> HIDE DEF rest
<1>8. \A e : Listed(e)' = Listed(e)
  BY DEF Listed
<1>9. Files' = Files
  BY DEF Files
<1>10. \A f \in El(todo') : f \notin U /\ ~In(out, f) /\ \E d \in U : f \in Listed(d)
  <2>1. ASSUME NEW f \in Listed(h) PROVE f \notin U /\ ~In(out, f)
    <3>1. f \notin V
      BY <1>1, <1>3, <1>5
    <3>2. f # h
      BY <1>4, <1>5
    <3>3. ~In(out, f)
      BY <1>1, <1>5
    <3>4. QED BY <3>1, <3>2, <3>3
  <2>2. ASSUME NEW f \in El(rest) PROVE f \notin U /\ ~In(out, f) /\ \E d \in U : f \in Listed(d)
    BY <1>1, <1>2
  <2>3. QED BY <1>7, <2>1, <2>2
<1>11. \A d \in U : d = world.plugins \/ \E e \in U : d \in Listed(e)
  BY <1>1, <1>4
<1>12. \A f : In(out, f) => f \in world.elf /\ \E d \in U : f \in Listed(d)
  BY <1>1
<1>13. \A d \in U : \A f \in Listed(d) :
         \/ f \in U \/ f \in El(todo')
         \/ f \notin DOMAIN world.tree /\ (f \in world.elf => In(out, f))
  BY <1>1, <1>2, <1>7
<1>14. U \subseteq DOMAIN world.tree /\ world.plugins \in U
  BY <1>1
<1> HIDE DEF U
<1>15. Walked(U)'
  BY <1>1, <1>7, <1>8, <1>9, <1>10, <1>11, <1>12, <1>13, <1>14 DEF Walked
<1>16. QED BY <1>15 DEF U

\* Anything else is displayed, or passed over.
LEMMA PassFile ==
  ASSUME world \in Worlds, OutOK, NEW CONSTANT V, Walked(V), todo # <<>>,
         NEW CONSTANT h, h = Head(todo), h \notin DOMAIN world.tree,
         todo' = Tail(todo), world' = world,
         IF h \in world.elf THEN display_pmd_info_strings(h) ELSE out' = out
  PROVE  Walked(V)'
<1>1. /\ V \subseteq DOMAIN world.tree /\ world.plugins \in V
      /\ \A d \in V : d = world.plugins \/ \E e \in V : d \in Listed(e)
      /\ todo \in Seq(Files) /\ Once(todo)
      /\ \A f \in El(todo) : f \notin V /\ ~In(out, f) /\ \E d \in V : f \in Listed(d)
      /\ \A f : In(out, f) => f \in world.elf /\ \E d \in V : f \in Listed(d)
      /\ \A i, j \in 1..Len(out) : out[i].file = out[j].file => i = j
      /\ \A d \in V : \A f \in Listed(d) :
           \/ f \in V \/ f \in El(todo)
           \/ f \notin DOMAIN world.tree /\ (f \in world.elf => In(out, f))
  BY DEF Walked
<1>2. /\ todo' \in Seq(Files) /\ El(todo) = El(todo') \cup {h} /\ Once(todo') /\ h \notin El(todo')
  BY <1>1, TailEl
<1>3. \A e : Listed(e)' = Listed(e)
  BY DEF Listed
<1>4. Files' = Files
  BY DEF Files
<1>5. /\ \A f : In(out', f) <=> In(out, f) \/ (f = h /\ h \in world.elf)
      /\ \A i, j \in 1..Len(out') : out'[i].file = out'[j].file => i = j
  <2>1. CASE h \notin world.elf
    BY <1>1, <2>1
  <2>2. CASE h \in world.elf
    <3> DEFINE o == Len(out)
    <3>1. /\ o \in Nat /\ Len(out') = o + 1 /\ \A i \in 1..o : out'[i] = out[i]
          /\ out'[o + 1].file = h
      BY <2>2, ShowIs
    <3>2. \A i \in 1..o : out[i].file # h
      BY <1>1, <1>2 DEF In
    <3> HIDE DEF o
    <3>3. \A i \in 1..(o + 1) : i = o + 1 \/ (i \in 1..o /\ out'[i] = out[i])
      BY <3>1
    <3>4. o + 1 \in 1..(o + 1) /\ \A i \in 1..o : i \in 1..(o + 1)
      BY <3>1
    <3>5. \A f : In(out', f) <=> In(out, f) \/ f = h
      <4>1. \A f : In(out, f) <=> \E i \in 1..o : out[i].file = f
        BY DEF In, o
      <4>2. \A f : In(out', f) <=> \E i \in 1..(o + 1) : out'[i].file = f
        BY <3>1 DEF In
      <4>3. QED BY <3>1, <3>3, <3>4, <4>1, <4>2
    <3>6. \A i, j \in 1..(o + 1) : out'[i].file = out'[j].file => i = j
      <4>1. \A i, j \in 1..o : out[i].file = out[j].file => i = j
        BY <1>1 DEF o
      <4>2. QED BY <3>1, <3>2, <3>3, <4>1
    <3>7. QED BY <2>2, <3>1, <3>5, <3>6
  <2>3. QED BY <2>1, <2>2
<1>6. \A f \in El(todo') : f \notin V /\ ~In(out', f) /\ \E d \in V : f \in Listed(d)
  BY <1>1, <1>2, <1>5
<1>7. \A f : In(out', f) => f \in world.elf /\ \E d \in V : f \in Listed(d)
  BY <1>1, <1>2, <1>5
<1>8. \A d \in V : \A f \in Listed(d) :
        \/ f \in V \/ f \in El(todo')
        \/ f \notin DOMAIN world.tree /\ (f \in world.elf => In(out', f))
  BY <1>1, <1>2, <1>5
<1>9. QED BY <1>1, <1>2, <1>3, <1>4, <1>5, <1>6, <1>7, <1>8 DEF Walked

\* When nothing is left every directory was entered.
LEMMA WalkDone ==
  ASSUME world \in Worlds, OutOK, NEW V, Walked(V), todo = <<>>
  PROVE  PluginsDisplayed
<1>1. /\ V \subseteq DOMAIN world.tree /\ world.plugins \in V
      /\ \A f : In(out, f) => f \in world.elf /\ \E d \in V : f \in Listed(d)
      /\ \A i, j \in 1..Len(out) : out[i].file = out[j].file => i = j
      /\ \A d \in V : \A f \in Listed(d) :
           \/ f \in V \/ f \in El(todo)
           \/ f \notin DOMAIN world.tree /\ (f \in world.elf => In(out, f))
  BY DEF Walked
<1>2. El(todo) = {}
  BY DEF El
<1>3. V = DOMAIN world.tree
  <2> DEFINE S == DOMAIN world.tree \ V
  <2> SUFFICES ASSUME S # {} PROVE FALSE
    BY <1>1
  <2>1. S \in SUBSET (DOMAIN world.tree \ {world.plugins}) /\ DOMAIN world.tree \ S = V
    BY <1>1
  <2> HIDE DEF S
  <2>2. PICK d \in S, e \in V : d \in Listed(e)
    BY <2>1, TreeIs
  <2>3. QED BY <1>1, <1>2, <2>2 DEF S
<1>4. \A f : In(out, f) <=> f \in Plugins
  <2>1. \A f \in world.elf : f \notin DOMAIN world.tree
    BY TreeIs
  <2>2. \A f : f \in Plugins <=> f \in world.elf /\ \E d \in V : f \in Listed(d)
    BY <1>3 DEF Plugins, Listed
  <2>3. QED BY <1>1, <1>2, <1>3, <2>1, <2>2
<1>5. Len(out) \in Nat /\ DOMAIN out = 1..Len(out)
  <2>1. PICK S : out \in Seq(S)
    BY DEF OutOK
  <2>2. QED BY <2>1, LenProperties
<1>6. {out[i].file : i \in DOMAIN out} = Plugins
  BY <1>4, <1>5 DEF In
<1>7. Cardinality(Plugins) = Len(out)
  <2> DEFINE g == [i \in 1..Len(out) |-> out[i].file]
  <2>1. g \in Injection(1..Len(out), Plugins)
    <3>1. \A i \in 1..Len(out) : out[i].file \in Plugins
      BY <1>4 DEF In
    <3>2. g \in [1..Len(out) -> Plugins]
      BY <3>1
    <3>3. \A i, j \in 1..Len(out) : g[i] = g[j] => i = j
      BY <1>1
    <3>4. QED BY <3>2, <3>3 DEF Injection, IsInjective
  <2>2. g \in Surjection(1..Len(out), Plugins)
    BY <1>4 DEF Surjection, In
  <2>3. ExistsBijection(1..Len(out), Plugins)
    BY <2>1, <2>2 DEF ExistsBijection, Bijection
  <2>4. IsFiniteSet(1..Len(out)) /\ Cardinality(1..Len(out)) = Len(out)
    BY <1>5, FS_Interval
  <2>5. QED BY <2>3, <2>4, FS_Bijection
<1>8. QED BY <1>6, <1>7 DEF PluginsDisplayed

\* Every step keeps it.
LEMMA WalkStep == WInv /\ [Next]_vars => WInv'
<1> SUFFICES ASSUME WInv, [Next]_vars PROVE WInv'
  OBVIOUS
<1>1. world' = world /\ world \in Worlds
  BY DEF WInv, Next, ReadPciIds, NoPciIds, Usage, NotFound, Open, NeededPython3, NeededSkip,
     NeededEnter, NeededReturn, NotAnElf, FindLibrary, FindPath, Walk, WalkEnd, vars
<1>2. OutOK'
  <2>1. ASSUME NEW f, display_pmd_info_strings(f) PROVE OutOK'
    BY <2>1, ShowIs DEF WInv
  <2>2. (\E f : display_pmd_info_strings(f)) \/ out' = out
    BY DEF Next, ReadPciIds, NoPciIds, Usage, NotFound, Open, NeededPython3, NeededSkip,
       NeededEnter, NeededReturn, NotAnElf, FindLibrary, FindPath, Walk, WalkEnd, vars
  <2>3. QED BY <2>1, <2>2 DEF WInv, OutOK
<1>3. SUFFICES ASSUME world.pdir PROVE Scanning'
  BY <1>1, <1>2 DEF WInv, Scanning
<1>4. /\ pc \in {"main", "args", "scan", "walk", "done"}
      /\ pc \in {"main", "args"} => scanned = "none"
      /\ pc \in {"main", "args", "scan"} => out = <<>>
      /\ pc = "scan" => scanned \in world.elf
      /\ exit # "none" => pc = "done"
      /\ pc = "walk" => \E V : Walked(V)
      /\ OutOK
  BY <1>3 DEF WInv, Scanning
<1>5. CASE ReadPciIds \/ NoPciIds
  BY <1>1, <1>4, <1>5 DEF ReadPciIds, NoPciIds, Stop, Scanning
<1>6. CASE Usage \/ NotFound \/ Open
  BY <1>1, <1>3, <1>4, <1>6 DEF Usage, NotFound, Open, Stop, Scanning
<1>7. CASE NeededPython3 \/ NeededSkip \/ NeededEnter \/ NeededReturn
  BY <1>4, <1>7 DEF NeededPython3, NeededSkip, NeededEnter, NeededReturn, AtTag
<1>8. CASE NotAnElf
  BY <1>1, <1>4, <1>8 DEF NotAnElf, Stop, Scanning, HasPath
<1>9. CASE FindLibrary
  BY <1>1, <1>4, <1>9 DEF FindLibrary, Stop, Scanning, HasPath
<1>10. CASE FindPath
  <2>1. pc = "scan" /\ scanned' = scanned /\ out' = <<>> /\ exit = "none" /\ out' = out
    BY <1>4, <1>10 DEF FindPath
  <2>2. CASE StringsWith("path", world.rodata[scanned]) # <<>>
    <3>1. todo' = world.tree[world.plugins] /\ pc' = "walk" /\ exit' = "none"
      BY <1>10, <2>1, <2>2 DEF FindPath
    <3>2. Walked({world.plugins})'
      BY <1>1, <1>3, <2>1, <3>1, WalkStarts
    <3>3. QED BY <1>1, <2>1, <3>1, <3>2 DEF Scanning
  <2>3. CASE StringsWith("path", world.rodata[scanned]) = <<>>
    <3>1. pc' = "done" /\ exit' = "ok"
      BY <1>10, <2>3 DEF FindPath, Stop
    <3>2. world.rodata[scanned] \in Seq(Bytes)
      BY <1>1, <1>4, <2>1, TreeIs
    <3>3. \A i \in 1..Len(world.rodata[scanned]) : world.rodata[scanned][i] # "path"
      BY <2>3, <3>2, StringsFound
    <3>4. "path" \notin ToSet(world.rodata[scanned])
      BY <3>2, <3>3, LenProperties DEF ToSet
    <3>5. ~HasPath'
      BY <1>1, <2>1, <3>4 DEF HasPath
    <3>6. QED BY <1>1, <3>1, <3>5 DEF Scanning
  <2>4. QED BY <2>2, <2>3
<1>11. CASE Walk
  <2>1. pc = "walk" /\ todo # <<>> /\ pc' = pc /\ exit' = exit /\ exit = "none"
    BY <1>4, <1>11 DEF Walk
  <2>2. PICK V : Walked(V)
    BY <1>4, <2>1
  <2>3. CASE Head(todo) \in DOMAIN world.tree
    <3>1. todo' = world.tree[Head(todo)] \o Tail(todo) /\ out' = out
      BY <1>11, <2>3 DEF Walk
    <3>2. \E h : Walked(V \cup {h})'
      BY <1>1, <2>1, <2>2, <2>3, <3>1, EnterDirectory
    <3>3. QED BY <1>1, <2>1, <3>2 DEF Scanning
  <2>4. CASE Head(todo) \notin DOMAIN world.tree
    <3>1. /\ todo' = Tail(todo)
          /\ IF Head(todo) \in world.elf THEN display_pmd_info_strings(Head(todo)) ELSE out' = out
      BY <1>11, <2>4 DEF Walk
    <3>2. Walked(V)'
      BY <1>1, <1>4, <2>1, <2>2, <2>4, <3>1, PassFile
    <3>3. QED BY <1>1, <2>1, <3>2 DEF Scanning
  <2>5. QED BY <2>3, <2>4
<1>12. CASE WalkEnd
  <2>1. pc = "walk" /\ todo = <<>> /\ pc' = "done" /\ UNCHANGED <<out, scanned, world>>
    BY <1>12 DEF WalkEnd, Stop
  <2>2. PluginsDisplayed
    BY <1>1, <1>4, <2>1, WalkDone
  <2>3. PluginsDisplayed'
    BY <2>1, <2>2 DEF PluginsDisplayed, Plugins
  <2>4. QED BY <2>1, <2>3 DEF Scanning
<1>13. CASE UNCHANGED vars
  <2>1. UNCHANGED <<world, pc, scanned, todo, out, exit>>
    BY <1>13 DEF vars
  <2>2. \A e : Listed(e)' = Listed(e)
    BY <2>1 DEF Listed
  <2>3. Files' = Files
    BY <2>1 DEF Files
  <2>4. ASSUME NEW CONSTANT V, Walked(V) PROVE Walked(V)'
    BY <2>1, <2>2, <2>3, <2>4 DEF Walked
  <2>5. pc = "walk" => \E V : Walked(V)'
    BY <1>4, <2>4
  <2>6. exit = "ok" /\ HasPath => PluginsDisplayed
    BY <1>3 DEF WInv, Scanning
  <2>7. exit' = "ok" /\ HasPath' => PluginsDisplayed'
    BY <2>1, <2>6 DEF HasPath, PluginsDisplayed, Plugins
  <2>8. QED BY <1>4, <2>1, <2>5, <2>7 DEF Scanning
<1>14. QED BY <1>5, <1>6, <1>7, <1>8, <1>9, <1>10, <1>11, <1>12, <1>13 DEF Next

\* Before main has done anything.
LEMMA WalkInit == Init => WInv
<1> SUFFICES ASSUME Init PROVE WInv
  OBVIOUS
<1>1. OutOK
  <2>1. <<>> \in Seq({})
    OBVIOUS
  <2>2. QED BY <2>1 DEF OutOK, Init
<1>2. QED BY <1>1 DEF Init, WInv, Scanning

\* AllDisplayed for every graph of libraries, with cycles too, every tree of plugins
\* and every section: process_dt_needed_entries displays what the file is linked
\* with, each library after those it needs, and scan_autoload_path every ELF file
\* of the directory once.
THEOREM EverythingDisplayed == Spec => []AllDisplayed
<1>1. WInv => (exit = "ok" /\ world.pdir /\ HasPath => PluginsDisplayed)
  BY DEF WInv, Scanning
<1>2. LInv /\ WInv => AllDisplayed
  BY <1>1, LinkDone DEF AllDisplayed
<1>3. Spec => []WInv
  BY WalkInit, WalkStep, PTL DEF Spec
<1>4. QED BY <1>2, <1>3, LinkHolds, PTL

-----------------------------------------------------------------------------
(*****************************************************************************)
(* What is displayed.                                                        *)
(*****************************************************************************)
\* The database that is used is what parse gave.
Database ==
  pcidb = <<>> \/ (pcidb = <<parse(world.pci).vendors>> /\ ~parse(world.pci).keyError)

\* What is printed of one file.
Exact(e) ==
  /\ e.strings = ListedStrings("pmd", world.rodata[e.file])
  /\ \A k \in DOMAIN e.names :
       FullIds(PciEntries[k]) => e.names[k] = ListedNames(world.pci, PciEntries[k])

PInv == LInv /\ WInv /\ Database /\ \A i \in 1..Len(out) : Exact(out[i])

\* A file is printed as it is.
LEMMA PrintedExact ==
  ASSUME world \in Worlds, Database, NEW f \in world.elf
  PROVE  Exact(Printed(f))
<1>1. world.rodata[f] \in Seq(Bytes) /\ world.pci \in Seq(Lines)
  BY WorldsAssumption
<1>2. Printed(f).file = f /\ Printed(f).strings = StringsWith("pmd", world.rodata[f])
  BY DEF Printed
<1>3. Printed(f).strings = ListedStrings("pmd", world.rodata[f])
  BY <1>1, <1>2, StringsListed
<1>4. ASSUME NEW k \in DOMAIN Printed(f).names, FullIds(PciEntries[k])
      PROVE  Printed(f).names[k] = ListedNames(world.pci, PciEntries[k])
  <2> DEFINE names == [i \in DOMAIN PciEntries |-> Names(pcidb[1], PciEntries[i])]
  <2>1. Printed(f).names = IF pcidb = <<>> \/ world.raw THEN <<>> ELSE names
    BY DEF Printed
  <2>2. DOMAIN <<>> = {}
    OBVIOUS
  <2>3. pcidb # <<>> /\ Printed(f).names = names
    BY <1>4, <2>1, <2>2
  <2>4. pcidb[1] = parse(world.pci).vendors /\ ~parse(world.pci).keyError
    BY <2>3 DEF Database
  <2>5. names[k] = Names(parse(world.pci).vendors, PciEntries[k])
    BY <1>4, <2>3, <2>4
  <2>6. names[k] = ListedNames(world.pci, PciEntries[k])
    BY <1>1, <1>4, <2>4, <2>5, NamesListed
  <2>7. QED BY <2>3, <2>6
<1>5. QED BY <1>2, <1>3, <1>4 DEF Exact

\* Only ELF files are displayed.
LEMMA DisplaysElf ==
  ASSUME LInv, WInv, [Next]_vars
  PROVE  out' = out \/ \E f \in world.elf : display_pmd_info_strings(f)
<1>1. ASSUME NeededReturn PROVE display_pmd_info_strings(File) /\ File \in world.elf
  <2>1. pc = "needed" /\ display_pmd_info_strings(File)
    BY <1>1 DEF NeededReturn, File
  <2>2. ~world.pdir
    BY <2>1 DEF WInv, Scanning
  <2>3. QED BY <2>1, <2>2, TopIs
<1>2. ASSUME Walk PROVE out' = out \/ \E f \in world.elf : display_pmd_info_strings(f)
  BY <1>2 DEF Walk
<1>3. NeededReturn \/ Walk \/ out' = out
  BY DEF Next, ReadPciIds, NoPciIds, Usage, NotFound, Open, NeededPython3, NeededSkip,
     NeededEnter, NotAnElf, FindLibrary, FindPath, WalkEnd, vars
<1>4. QED BY <1>1, <1>2, <1>3

\* Every step keeps what is displayed exact.
LEMMA PrintStep == PInv /\ [Next]_vars => PInv'
<1> SUFFICES ASSUME PInv, [Next]_vars PROVE PInv'
  OBVIOUS
<1>1. /\ LInv /\ WInv /\ Database /\ world \in Worlds /\ OutOK
      /\ \A i \in 1..Len(out) : Exact(out[i])
  BY DEF PInv, LInv
<1>2. LInv' /\ WInv'
  BY <1>1, LinkStep, WalkStep
<1>3. world' = world
  BY DEF Next, ReadPciIds, NoPciIds, Usage, NotFound, Open, NeededPython3, NeededSkip,
     NeededEnter, NeededReturn, NotAnElf, FindLibrary, FindPath, Walk, WalkEnd, vars
<1>4. Database'
  <2>1. CASE ReadPciIds
    <3>1. pcidb' = pcidb \/ (~parse(world.pci).keyError
                             /\ pcidb' = IF world.table THEN <<>> ELSE <<parse(world.pci).vendors>>)
      BY <2>1, Zenon DEF ReadPciIds
    <3>2. QED BY <1>1, <1>3, <3>1, Zenon DEF Database
  <2>2. CASE ~ReadPciIds
    <3>1. pcidb' = pcidb
      BY <2>2 DEF Next, NoPciIds, Usage, NotFound, Open, NeededPython3, NeededSkip,
         NeededEnter, NeededReturn, NotAnElf, FindLibrary, FindPath, Walk, WalkEnd, vars
    <3>2. QED BY <1>1, <1>3, <3>1, Zenon DEF Database
  <2>3. QED BY <2>1, <2>2
<1>5. \A e : Exact(e) => Exact(e)'
  BY <1>3 DEF Exact
<1>6. ASSUME NEW i \in 1..Len(out') PROVE Exact(out'[i])
  <2>1. CASE out' = out
    BY <1>1, <2>1
  <2>2. ASSUME NEW f \in world.elf, display_pmd_info_strings(f) PROVE Exact(out'[i])
    <3>1. PICK S : out \in Seq(S)
      BY <1>1 DEF OutOK
    <3>2. out \in Seq(S \cup {Printed(f)})
      BY <3>1
    <3>3. /\ Len(out) \in Nat /\ Len(out') = Len(out) + 1
          /\ \A j \in 1..Len(out) : out'[j] = out[j]
          /\ out'[Len(out) + 1] = Printed(f)
      BY <2>2, <3>2, AppendIs DEF display_pmd_info_strings
    <3>4. Exact(Printed(f))
      BY <1>1, PrintedExact
    <3>5. i \in 1..Len(out) \/ i = Len(out) + 1
      BY <3>3
    <3>6. QED BY <1>1, <3>3, <3>4, <3>5
  <2>3. QED BY <1>1, <2>1, <2>2, DisplaysElf
<1>7. (\A i \in 1..Len(out) : Exact(out[i]))'
  BY <1>5, <1>6
<1>8. QED BY <1>2, <1>4, <1>7 DEF PInv

\* Before main has done anything.
LEMMA PrintInit == Init => PInv
<1> SUFFICES ASSUME Init PROVE PInv
  OBVIOUS
<1>1. LInv /\ WInv
  BY LinkInit, WalkInit
<1>2. Database
  BY DEF Init, Database
<1>3. Len(out) = 0
  BY DEF Init
<1>4. QED BY <1>1, <1>2, <1>3 DEF PInv

\* OutputExact for every section and every pci.ids: display_pmd_info_strings prints the
\* first PMD_INFO_STRING of each string of the section, and the names that PCIIds.parse
\* and the lookups give to an id in full are those its lines give it, whatever was
\* listed twice, or after a device or vendor listed twice.
THEOREM OutputIsExact == Spec => []OutputExact
<1>1. PInv => OutputExact
  <2> SUFFICES ASSUME PInv PROVE OutputExact
    OBVIOUS
  <2>1. OutOK /\ \A i \in 1..Len(out) : Exact(out[i])
    BY DEF PInv, LInv
  <2>2. DOMAIN out = 1..Len(out)
    BY <2>1, LenProperties DEF OutOK
  <2>3. QED BY <2>1, <2>2 DEF OutputExact, Exact
<1>2. QED BY <1>1, PrintInit, PrintStep, PTL DEF Spec
=============================================================================
