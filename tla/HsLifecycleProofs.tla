------------------------- MODULE HsLifecycleProofs -------------------------
(***************************************************************************)
(* Proofs about the life of a node, for every number of peers and channels: *)
(* what a thread does in a turn is any of the turns of HsLifecycle, the     *)
(* monitor's of any length.                                                *)
(***************************************************************************)
EXTENDS HsLifecycle, SequenceTheorems, FiniteSetTheorems, WellFoundedInduction,
        NaturalsInduction, TLAPS

USE ServerCountAssumption

-----------------------------------------------------------------------------
(***************************************************************************)
(* Induction over the naturals, for sets.                                  *)
(***************************************************************************)
LEMMA SetInduction ==
  ASSUME NEW S, 0 \in S, \A n \in Nat : n \in S => n + 1 \in S
  PROVE  Nat \subseteq S
<1> DEFINE R == {ss \in Nat \X Nat : ss[1] < ss[2]}
           T == Nat \ S
<1>1. SUFFICES ASSUME T # {} PROVE FALSE
  OBVIOUS
<1>2. IsWellFoundedOn(R, Nat)
  BY NatLessThanWellFounded DEF OpToRel
<1>3. PICK x \in T : \A y \in T : <<y, x>> \notin R
  <2>1. T \subseteq Nat
    OBVIOUS
  <2> HIDE DEF T, R
  <2>2. QED BY <1>1, <1>2, <2>1, WFMin
<1>4. x \in Nat /\ x # 0 /\ x - 1 \in T
  OBVIOUS
<1>5. <<x - 1, x>> \in R
  BY <1>4
<1>6. QED BY <1>3, <1>4, <1>5

-----------------------------------------------------------------------------
(***************************************************************************)
(* Programs.                                                               *)
(***************************************************************************)
Plain == Operations \ {"hang"}

\* What an operation adds to the depth at which its thread holds the mutex.
Adds(op) == CASE op = "lock" -> 1 [] op = "unlock" -> 0 - 1 [] OTHER -> 0

\* Done at depth a, q ends at depth b and is never outside 0..2 in between; h gives
\* the depth before each operation.
Levels(q, h, a, b) ==
  /\ h \in [1..(Len(q) + 1) -> 0..2]
  /\ h[1] = a /\ h[Len(q) + 1] = b
  /\ \A i \in 1..Len(q) : h[i + 1] = h[i] + Adds(q[i])

Nested(q, a, b) == \E h : Levels(q, h, a, b)

\* A channel that is taken is put into the hash at once, one that is taken out of
\* it is recycled at once.
Adjacent(q) ==
  \A i \in 1..Len(q) :
    /\ q[i] = "take"  => i < Len(q) /\ q[i + 1] = "map"
    /\ q[i] = "unmap" => i < Len(q) /\ q[i + 1] = "recycle"

Program(q, a, b) == q \in Seq(Plain) /\ Adjacent(q) /\ Nested(q, a, b)

\* Two programs one after the other are a program.
LEMMA Sequence ==
  ASSUME NEW p, NEW q, NEW a, NEW b, NEW c, Program(p, a, b), Program(q, b, c)
  PROVE  Program(p \o q, a, c)
<1>1. p \in Seq(Plain) /\ q \in Seq(Plain)
  BY DEF Program
<1>2. /\ Len(p) \in Nat /\ Len(q) \in Nat
      /\ p \o q \in Seq(Plain) /\ Len(p \o q) = Len(p) + Len(q)
      /\ \A i \in 1..(Len(p) + Len(q)) :
           (p \o q)[i] = IF i <= Len(p) THEN p[i] ELSE q[i - Len(p)]
  BY <1>1, ConcatProperties, LenProperties
<1> DEFINE r == p \o q
<1> HIDE DEF r
<1>3. Adjacent(r)
  <2> SUFFICES ASSUME NEW i \in 1..Len(r)
               PROVE  /\ r[i] = "take"  => i < Len(r) /\ r[i + 1] = "map"
                      /\ r[i] = "unmap" => i < Len(r) /\ r[i + 1] = "recycle"
    BY DEF Adjacent
  <2>1. CASE i <= Len(p)
    <3>1. i \in 1..Len(p) /\ r[i] = p[i]
      BY <1>2, <2>1 DEF r
    <3>2. i < Len(p) => r[i + 1] = p[i + 1] /\ i < Len(r)
      BY <1>2, <2>1 DEF r
    <3>3. QED BY <3>1, <3>2 DEF Program, Adjacent
  <2>2. CASE i > Len(p)
    <3>1. i - Len(p) \in 1..Len(q) /\ r[i] = q[i - Len(p)]
      BY <1>2, <2>2 DEF r
    <3>2. i - Len(p) < Len(q) => r[i + 1] = q[(i - Len(p)) + 1] /\ i < Len(r)
      BY <1>2, <2>2 DEF r
    <3>3. QED BY <3>1, <3>2 DEF Program, Adjacent
  <2>3. QED BY <1>2, <2>1, <2>2 DEF r
<1>4. Nested(r, a, c)
  <2>1. PICK h : Levels(p, h, a, b)
    BY DEF Program, Nested
  <2>2. PICK g : Levels(q, g, b, c)
    BY DEF Program, Nested
  <2> DEFINE f == [i \in 1..(Len(r) + 1) |-> IF i <= Len(p) THEN h[i] ELSE g[i - Len(p)]]
  <2>3. Len(r) = Len(p) + Len(q)
    BY <1>2 DEF r
  <2>4. f \in [1..(Len(r) + 1) -> 0..2]
    BY <1>2, <2>1, <2>2, <2>3 DEF Levels
  <2>5. f[1] = a /\ f[Len(r) + 1] = c
    BY <1>2, <2>1, <2>2, <2>3 DEF Levels
  <2>6. ASSUME NEW i \in 1..Len(r) PROVE f[i + 1] = f[i] + Adds(r[i])
    <3>1. CASE i < Len(p)
      BY <1>2, <2>1, <2>3, <3>1 DEF Levels, r
    <3>2. CASE i = Len(p)
      <4>1. f[i + 1] = g[1] /\ f[i] = h[i] /\ r[i] = p[i]
        BY <1>2, <2>3, <3>2 DEF r
      <4>2. g[1] = h[i + 1]
        BY <2>1, <2>2, <3>2 DEF Levels
      <4>3. i \in 1..Len(p)
        BY <1>2, <3>2
      <4>4. QED BY <2>1, <4>1, <4>2, <4>3 DEF Levels
    <3>3. CASE i > Len(p)
      <4>1. i - Len(p) \in 1..Len(q) /\ r[i] = q[i - Len(p)]
        BY <1>2, <2>3, <3>3 DEF r
      <4>2. f[i] = g[i - Len(p)] /\ f[i + 1] = g[(i - Len(p)) + 1]
        BY <1>2, <2>3, <3>3
      <4>3. QED BY <2>2, <4>1, <4>2 DEF Levels
    <3>4. QED BY <1>2, <3>1, <3>2, <3>3
  <2> HIDE DEF f
  <2>7. Levels(r, f, a, c)
    BY <2>4, <2>5, <2>6 DEF Levels
  <2>8. QED BY <2>7 DEF Nested
<1>5. QED BY <1>2, <1>3, <1>4 DEF Program, r

\* A program that does not touch the mutex is done at any depth.
LEMMA Flat ==
  ASSUME NEW q \in Seq(Plain \ {"lock", "unlock"}), Adjacent(q), NEW a \in 0..2
  PROVE  Program(q, a, a)
<1>1. q \in Seq(Plain) /\ Len(q) \in Nat
  BY SeqMonotonic, LenProperties
<1>2. \A i \in 1..Len(q) : Adds(q[i]) = 0
  BY ElementOfSeq DEF Adds
<1> DEFINE h == [i \in 1..(Len(q) + 1) |-> a]
<1>3. Levels(q, h, a, a)
  BY <1>1, <1>2 DEF Levels
<1>4. QED BY <1>1, <1>3 DEF Program, Nested

\* What is left of a program after its first operation.
LEMMA Rest ==
  ASSUME NEW q \in Seq(Operations), q # <<>>
  PROVE  /\ Head(q) \in Operations /\ Tail(q) \in Seq(Operations)
         /\ Adjacent(q) => Adjacent(Tail(q))
         /\ Adjacent(q) /\ Head(q) = "take" => Tail(q) # <<>> /\ Head(Tail(q)) = "map"
         /\ Adjacent(q) /\ Head(q) = "unmap" => Tail(q) # <<>> /\ Head(Tail(q)) = "recycle"
         /\ \A a, b : Nested(q, a, b) =>
              a + Adds(Head(q)) \in 0..2 /\ a \in 0..2 /\ Nested(Tail(q), a + Adds(Head(q)), b)
<1>1. /\ Len(q) \in Nat /\ Len(q) > 0 /\ Head(q) = q[1]
      /\ Head(q) \in Operations /\ Tail(q) \in Seq(Operations)
      /\ Len(Tail(q)) = Len(q) - 1
      /\ \A i \in 1..Len(Tail(q)) : Tail(q)[i] = q[i + 1]
  BY HeadTailProperties, LenProperties, EmptySeq
<1>2. Adjacent(q) => Adjacent(Tail(q))
  BY <1>1 DEF Adjacent
<1>3. Tail(q) # <<>> <=> Len(q) > 1
  <2>1. \A s \in Seq(Operations) : s = <<>> <=> Len(s) = 0
    BY EmptySeq
  <2> DEFINE r == Tail(q)
  <2>2. r \in Seq(Operations) /\ Len(r) = Len(q) - 1 /\ Len(q) \in Nat
    BY <1>1
  <2> HIDE DEF r
  <2>3. r # <<>> <=> Len(q) > 1
    BY <2>1, <2>2
  <2>4. QED BY <2>3 DEF r
<1>4. Len(q) > 1 => Head(Tail(q)) = q[2]
  BY <1>1, <1>3, HeadTailProperties
<1>5. ASSUME NEW a, NEW b, Nested(q, a, b)
      PROVE  a + Adds(Head(q)) \in 0..2 /\ a \in 0..2 /\ Nested(Tail(q), a + Adds(Head(q)), b)
  <2>1. PICK h : Levels(q, h, a, b)
    BY <1>5 DEF Nested
  <2>2. h[1] = a /\ h[2] = a + Adds(q[1]) /\ h[2] \in 0..2 /\ h[1] \in 0..2
    BY <1>1, <2>1 DEF Levels
  <2> DEFINE g == [i \in 1..Len(q) |-> h[i + 1]]
  <2>3. Levels(Tail(q), g, a + Adds(q[1]), b)
    <3>1. Len(Tail(q)) + 1 = Len(q)
      BY <1>1
    <3>2. g \in [1..Len(q) -> 0..2] /\ g[1] = a + Adds(q[1]) /\ g[Len(q)] = b
      BY <1>1, <2>1, <2>2 DEF Levels
    <3>3. \A i \in 1..Len(Tail(q)) : g[i + 1] = g[i] + Adds(Tail(q)[i])
      BY <1>1, <2>1 DEF Levels
    <3> HIDE DEF g
    <3>4. QED BY <3>1, <3>2, <3>3 DEF Levels
  <2>4. QED BY <1>1, <2>2, <2>3 DEF Nested
<1>6. QED BY <1>1, <1>2, <1>3, <1>4, <1>5 DEF Adjacent

-----------------------------------------------------------------------------
(***************************************************************************)
(* The programs of the threads keep to the mutex and to the channels.      *)
(***************************************************************************)
LEMMA LockPrograms ==
  /\ \A a \in 0..1 : Program(<<"lock">>, a, a + 1) /\ Program(<<"unlock">>, a + 1, a)
  /\ \A a \in 0..1 : Program(getChannelBySockId, a, a)
<1>1. ASSUME NEW a \in 0..1 PROVE Program(<<"lock">>, a, a + 1)
  <2> DEFINE q == <<"lock">>
             h == [i \in 1..2 |-> IF i = 1 THEN a ELSE a + 1]
  <2>1. q \in Seq(Plain) /\ Adjacent(q) /\ Len(q) = 1 /\ q[1] = "lock"
    BY DEF Plain, Operations, Adjacent
  <2>2. Levels(q, h, a, a + 1)
    BY <2>1 DEF Levels, Adds
  <2>3. QED BY <2>1, <2>2 DEF Program, Nested
<1>2. ASSUME NEW a \in 0..1 PROVE Program(<<"unlock">>, a + 1, a)
  <2> DEFINE q == <<"unlock">>
             h == [i \in 1..2 |-> IF i = 1 THEN a + 1 ELSE a]
  <2>1. q \in Seq(Plain) /\ Adjacent(q) /\ Len(q) = 1 /\ q[1] = "unlock"
    BY DEF Plain, Operations, Adjacent
  <2>2. Levels(q, h, a + 1, a)
    BY <2>1 DEF Levels, Adds
  <2>3. QED BY <2>1, <2>2 DEF Program, Nested
<1>3. ASSUME NEW a \in 0..1 PROVE Program(getChannelBySockId, a, a)
  <2> DEFINE q == <<"lock", "find", "unlock">>
             h == [i \in 1..4 |-> IF i \in 2..3 THEN a + 1 ELSE a]
  <2>1. q \in Seq(Plain) /\ Adjacent(q)
    BY DEF Plain, Operations, Adjacent
  <2>2. Len(q) = 3 /\ q[1] = "lock" /\ q[2] = "find" /\ q[3] = "unlock"
    OBVIOUS
  <2>3. Levels(q, h, a, a)
    BY <2>2 DEF Levels, Adds
  <2>4. QED BY <2>1, <2>3 DEF Program, Nested, getChannelBySockId
<1>4. QED BY <1>1, <1>2, <1>3

\* The statements of a turn that take no lock, and the dials.
LEMMA FlatPrograms ==
  \A a \in 0..2 :
    /\ Program(<<>>, a, a) /\ Program(<<"find">>, a, a) /\ Program(<<"peers">>, a, a)
    /\ Program(<<"peers", "watch">>, a, a)
    /\ \A d \in Dials : Program(d, a, a)
<1> DEFINE S == Plain \ {"lock", "unlock"}
<1> SUFFICES ASSUME NEW a \in 0..2
             PROVE  /\ Program(<<>>, a, a) /\ Program(<<"find">>, a, a)
                    /\ Program(<<"peers">>, a, a) /\ Program(<<"peers", "watch">>, a, a)
                    /\ \A d \in Dials : Program(d, a, a)
  OBVIOUS
<1>1. {"find", "peers", "watch", "connect", "take", "map"} \subseteq S
  BY DEF Plain, Operations
<1> HIDE DEF S
<1>2. <<>> \in Seq(S) /\ Adjacent(<<>>)
  BY DEF Adjacent
<1>3. /\ <<"find">> \in Seq(S) /\ Adjacent(<<"find">>)
      /\ <<"peers">> \in Seq(S) /\ Adjacent(<<"peers">>)
  BY <1>1 DEF Adjacent
<1>4. <<"peers", "watch">> \in Seq(S) /\ Adjacent(<<"peers", "watch">>)
  BY <1>1 DEF Adjacent
<1>5. <<"peers", "connect">> \in Seq(S) /\ Adjacent(<<"peers", "connect">>)
  BY <1>1 DEF Adjacent
<1>6. /\ <<"peers", "connect", "take", "map", "watch">> \in Seq(S)
      /\ Adjacent(<<"peers", "connect", "take", "map", "watch">>)
  BY <1>1 DEF Adjacent
<1>7. QED BY <1>2, <1>3, <1>4, <1>5, <1>6, Flat DEF Dials, S

\* Accepting locks and unlocks in pairs.
LEMMA AcceptProgram == Program(hsSock2ChannelOnAccept, 0, 0)
<1> DEFINE q == <<"lock", "find", "take", "map", "watch", "unlock">>
           h == [i \in 1..7 |-> IF i \in 2..6 THEN 1 ELSE 0]
<1>1. q \in Seq(Plain) /\ Adjacent(q)
  BY DEF Plain, Operations, Adjacent
<1>2. /\ Len(q) = 6 /\ q[1] = "lock" /\ q[2] = "find" /\ q[3] = "take" /\ q[4] = "map"
      /\ q[5] = "watch" /\ q[6] = "unlock"
  OBVIOUS
<1>3. Levels(q, h, 0, 0)
  BY <1>2 DEF Levels, Adds
<1>4. QED BY <1>1, <1>3 DEF Program, Nested, hsSock2ChannelOnAccept

\* So does onDisconnect.
LEMMA DisconnectProgram == Program(onDisconnect, 0, 0)
<1> DEFINE q == <<"lock", "find", "peers", "unmap", "recycle", "unlock", "watch">>
           h == [i \in 1..8 |-> IF i \in 2..6 THEN 1 ELSE 0]
<1>1. q \in Seq(Plain) /\ Adjacent(q)
  BY DEF Plain, Operations, Adjacent
<1>2. /\ Len(q) = 7 /\ q[1] = "lock" /\ q[2] = "find" /\ q[3] = "peers" /\ q[4] = "unmap"
      /\ q[5] = "recycle" /\ q[6] = "unlock" /\ q[7] = "watch"
  OBVIOUS
<1>3. Levels(q, h, 0, 0)
  BY <1>2 DEF Levels, Adds
<1>4. QED BY <1>1, <1>3 DEF Program, Nested, onDisconnect

\* The end of onWrite, once it holds the mutex.
LEMMA EndOfWrite == Program(<<"peers", "watch", "unlock">>, 1, 0)
<1> DEFINE q == <<"peers", "watch", "unlock">>
           h == [i \in 1..4 |-> IF i = 4 THEN 0 ELSE 1]
<1>1. q \in Seq(Plain) /\ Adjacent(q)
  BY DEF Plain, Operations, Adjacent
<1>2. Len(q) = 3 /\ q[1] = "peers" /\ q[2] = "watch" /\ q[3] = "unlock"
  OBVIOUS
<1>3. Levels(q, h, 1, 0)
  BY <1>2 DEF Levels, Adds
<1>4. QED BY <1>1, <1>3 DEF Program, Nested

\* Each epoll event locks and unlocks in pairs.
LEMMA EventPrograms == \A e \in hsEpollOp : Program(e, 0, 0)
<1>1. \A e \in onRead : Program(e, 0, 0)
  <2>1. Program(getChannelBySockId, 0, 0) /\ Program(<<"peers", "watch">>, 0, 0)
    BY LockPrograms, FlatPrograms
  <2>2. QED BY <2>1, DisconnectProgram, Sequence DEF onRead
<1>2. \A e \in onWrite : Program(e, 0, 0)
  <2>1. /\ Program(<<"lock">>, 0, 1) /\ Program(getChannelBySockId, 1, 1)
        /\ Program(<<"unlock">>, 1, 0)
    <3>1. 0 + 1 = 1
      OBVIOUS
    <3>2. QED BY <3>1, LockPrograms
  <2>2. Program(<<"lock">> \o getChannelBySockId, 0, 1)
    BY <2>1, Sequence
  <2>3. QED BY <2>1, <2>2, EndOfWrite, Sequence DEF onWrite
<1>3. \A d \in onData : Program(d, 0, 0)
  <2>1. Program(<<"find">>, 0, 0)
    BY FlatPrograms
  <2> DEFINE F == <<"find">>
  <2> HIDE DEF F
  <2>2. \A w \in onWrite : Program(F \o w, 0, 0)
    <3> SUFFICES ASSUME NEW w \in onWrite PROVE Program(F \o w, 0, 0)
      OBVIOUS
    <3>1. Program(F, 0, 0) /\ Program(w, 0, 0)
      BY <1>2, <2>1 DEF F
    <3>2. QED BY <3>1, Sequence
  <2>3. QED BY <2>1, <2>2 DEF onData, F
<1> DEFINE E == {<<>>, hsSock2ChannelOnAccept} \cup onRead
<1>4. \A e \in E : Program(e, 0, 0)
  BY <1>1, AcceptProgram, FlatPrograms
<1>5. \A e \in E, d \in onData : Program(e \o d, 0, 0)
  <2> SUFFICES ASSUME NEW e \in E, NEW d \in onData
               PROVE  Program(e \o d, 0, 0)
    OBVIOUS
  <2>1. Program(e, 0, 0) /\ Program(d, 0, 0)
    BY <1>3, <1>4
  <2>2. QED BY <2>1, Sequence
<1>6. hsEpollOp = IF build = "sys" THEN E \cup onWrite ELSE {e \o d : e \in E, d \in onData}
  BY DEF hsEpollOp
<1> HIDE DEF E
<1>7. ASSUME NEW q \in {e \o d : e \in E, d \in onData} PROVE Program(q, 0, 0)
  <2>1. PICK e \in E, d \in onData : q = e \o d
    OBVIOUS
  <2>2. Program(e \o d, 0, 0)
    BY <1>5
  <2>3. QED BY <2>1, <2>2
<1>8. \A q \in E \cup onWrite : Program(q, 0, 0)
  BY <1>2, <1>4
<1>9. QED BY <1>6, <1>7, <1>8

\* The function of FlattenSeq: f[i] is the first i turns one after the other.
Joined(f, s, m) == f = [i \in 1..m |-> IF i = 1 THEN s[i] ELSE f[i - 1] \o s[i]]

\* There is a function of what n pieces of programs in a row come to.
LEMMA JoinedExists ==
  ASSUME NEW s, NEW n \in Nat
  PROVE  \E f : Joined(f, s, n)
<1> DEFINE S == {m \in Nat : \E f : Joined(f, s, m)}
<1>1. 0 \in S
  <2>1. Joined([i \in 1..0 |-> 0], s, 0)
    BY DEF Joined
  <2>2. QED BY <2>1
<1>2. ASSUME NEW m \in Nat, m \in S PROVE m + 1 \in S
  <2>1. PICK f : Joined(f, s, m)
    BY <1>2
  <2> DEFINE last == IF m = 0 THEN s[1] ELSE f[m] \o s[m + 1]
             g == [i \in 1..(m + 1) |-> IF i <= m THEN f[i] ELSE last]
             h == [i \in 1..(m + 1) |-> IF i = 1 THEN s[i] ELSE g[i - 1] \o s[i]]
  <2>2. \A i \in 1..m : f[i] = IF i = 1 THEN s[i] ELSE f[i - 1] \o s[i]
    BY <2>1 DEF Joined
  <2>3. \A i \in 1..(m + 1) : g[i] = IF i = 1 THEN s[i] ELSE g[i - 1] \o s[i]
    <3>1. ASSUME NEW i \in 1..m PROVE g[i] = IF i = 1 THEN s[i] ELSE g[i - 1] \o s[i]
      BY <2>2
    <3>2. g[m + 1] = IF m + 1 = 1 THEN s[m + 1] ELSE g[(m + 1) - 1] \o s[m + 1]
      OBVIOUS
    <3> HIDE DEF g
    <3>3. \A i \in 1..(m + 1) : i \in 1..m \/ i = m + 1
      OBVIOUS
    <3>4. QED BY <3>1, <3>2, <3>3
  <2>4. g = h
    BY <2>3
  <2>5. Joined(g, s, m + 1)
    BY <2>4 DEF Joined
  <2>6. QED BY <2>5
<1>3. QED
  <2> HIDE DEF S
  <2>1. n \in S
    BY <1>1, <1>2, SetInduction
  <2>2. QED BY <2>1 DEF S

\* A pass of the monitor over any number of peers.
LEMMA PassPrograms ==
  ASSUME NEW n \in Nat, NEW turns \in [1..n -> Dials]
  PROVE  Program(FlattenSeq(turns), 1, 1)
<1>1. turns \in Seq(Dials) /\ Len(turns) = n
  <2>1. turns \in UNION {[1..m -> Dials] : m \in Nat}
    OBVIOUS
  <2>2. turns \in Seq(Dials)
    BY <2>1, SeqDef
  <2>3. QED BY <2>2, LenProperties
<1>2. CASE n = 0
  <2>1. turns = <<>>
    BY <1>1, <1>2, EmptySeq
  <2>2. FlattenSeq(turns) = <<>>
    BY <1>1, <1>2, <2>1 DEF FlattenSeq
  <2>3. QED BY <2>2, FlatPrograms
<1>3. CASE n # 0
  <2> DEFINE C == CHOOSE f : f = [i \in 1..n |-> IF i = 1 THEN turns[i] ELSE f[i - 1] \o turns[i]]
  <2>1. FlattenSeq(turns) = C[n]
    BY <1>1, <1>3 DEF FlattenSeq
  <2>2. Joined(C, turns, n)
    BY JoinedExists DEF Joined
  <2> HIDE DEF C
  <2> DEFINE S == {m \in Nat : m \in 1..n => Program(C[m], 1, 1)}
  <2>3. 0 \in S
    OBVIOUS
  <2>4. ASSUME NEW m \in Nat, m \in S PROVE m + 1 \in S
    <3> SUFFICES ASSUME m + 1 \in 1..n PROVE Program(C[m + 1], 1, 1)
      OBVIOUS
    <3>1. Program(turns[m + 1], 1, 1)
      BY FlatPrograms
    <3>2. C[m + 1] = IF m + 1 = 1 THEN turns[m + 1] ELSE C[m] \o turns[m + 1]
      <4> DEFINE G == [i \in 1..n |-> IF i = 1 THEN turns[i] ELSE C[i - 1] \o turns[i]]
      <4>1. G[m + 1] = IF m + 1 = 1 THEN turns[m + 1] ELSE C[(m + 1) - 1] \o turns[m + 1]
        OBVIOUS
      <4>2. C = G
        BY <2>2, Zenon DEF Joined
      <4>3. (m + 1) - 1 = m
        OBVIOUS
      <4> HIDE DEF G
      <4>4. QED BY <4>1, <4>2, <4>3, Zenon
    <3>3. m # 0 => Program(C[m], 1, 1)
      BY <2>4
    <3>4. QED BY <3>1, <3>2, <3>3, Sequence
  <2> HIDE DEF S
  <2>5. n \in S
    BY <2>3, <2>4, SetInduction
  <2>6. QED BY <1>3, <2>1, <2>5 DEF S
<1>4. QED BY <1>2, <1>3

\* So does every turn of either thread, whatever the number of peers.
LEMMA TurnPrograms ==
  ASSUME peerCount \in Nat, NEW t \in Threads, NEW turn \in Turns(t)
  PROVE  Program(turn, 0, 0)
<1>1. \A q \in hsMonitorCheckConnection : Program(q, 0, 0)
  <2> SUFFICES ASSUME NEW turns \in [1..peerCount -> Dials]
               PROVE  Program(<<"lock">> \o FlattenSeq(turns) \o <<"unlock">>, 0, 0)
    BY DEF hsMonitorCheckConnection
  <2>1. Program(<<"lock">>, 0, 1) /\ Program(<<"unlock">>, 1, 0)
    <3>1. 0 + 1 = 1
      OBVIOUS
    <3>2. QED BY <3>1, LockPrograms
  <2>2. Program(FlattenSeq(turns), 1, 1)
    BY PassPrograms
  <2>3. Program(<<"lock">> \o FlattenSeq(turns), 0, 1)
    BY <2>1, <2>2, Sequence
  <2>4. QED BY <2>1, <2>3, Sequence
<1>2. Program(<<>>, 0, 0) /\ Program(hsEchoRingTimeOutCheck, 0, 0)
  BY FlatPrograms DEF hsEchoRingTimeOutCheck
<1>3. \A echo \in {<<>>, hsEchoRingTimeOutCheck}, e \in hsEpollOp : Program(echo \o e, 0, 0)
  BY <1>2, EventPrograms, Sequence
<1>4. CASE t = "monitorThread"
  BY <1>1, <1>2, <1>4 DEF Turns
<1>5. CASE t # "monitorThread"
  <2>1. turn \in {echo \o e : echo \in {<<>>, hsEchoRingTimeOutCheck}, e \in hsEpollOp}
    BY <1>5 DEF Turns
  <2>2. PICK echo \in {<<>>, hsEchoRingTimeOutCheck}, e \in hsEpollOp : turn = echo \o e
    BY <2>1
  <2>3. Program(echo \o e, 0, 0)
    BY <1>3
  <2>4. QED BY <2>2, <2>3
<1>6. QED BY <1>4, <1>5

-----------------------------------------------------------------------------
(***************************************************************************)
(* How often a thread is to unlock the mutex.                              *)
(***************************************************************************)
Count(q, op) == Cardinality({i \in 1..Len(q) : q[i] = op})

\* How many of an operation are left after the first of the queue.
LEMMA CountTail ==
  ASSUME NEW q \in Seq(Operations), q # <<>>, NEW op
  PROVE  /\ Count(q, op) \in Nat /\ Count(Tail(q), op) \in Nat
         /\ Count(q, op) = Count(Tail(q), op) + IF Head(q) = op THEN 1 ELSE 0
<1>1. /\ Len(q) \in Nat /\ Len(q) > 0 /\ Head(q) = q[1]
      /\ Len(Tail(q)) = Len(q) - 1
      /\ \A i \in 1..Len(Tail(q)) : Tail(q)[i] = q[i + 1]
  BY HeadTailProperties, LenProperties, EmptySeq
<1> DEFINE A == {i \in 1..Len(q) : q[i] = op}
           B == {i \in 1..Len(Tail(q)) : Tail(q)[i] = op}
           f == [i \in B |-> i + 1]
<1>2. IsFiniteSet(A) /\ IsFiniteSet(B)
  <2>1. IsFiniteSet(1..Len(q)) /\ IsFiniteSet(1..Len(Tail(q)))
    BY <1>1, FS_Interval
  <2>2. QED BY <2>1, FS_Subset
<1>3. f \in Bijection(B, A \ {1})
  <2>1. f \in [B -> A \ {1}]
    BY <1>1
  <2>2. \A i, j \in B : f[i] = f[j] => i = j
    BY <1>1
  <2>3. \A j \in A \ {1} : \E i \in B : f[i] = j
    <3> SUFFICES ASSUME NEW j \in A \ {1} PROVE j - 1 \in B /\ f[j - 1] = j
      OBVIOUS
    <3>1. QED BY <1>1
  <2>4. QED
    BY <2>1, <2>2, <2>3 DEF Bijection, Injection, Surjection, IsInjective
<1>4. 1 \in A <=> Head(q) = op
  BY <1>1
<1> HIDE DEF A, B, f
<1>5. Cardinality(B) = Cardinality(A \ {1})
  <2>1. IsFiniteSet(A \ {1}) /\ ExistsBijection(B, A \ {1})
    BY <1>2, <1>3, FS_Subset DEF ExistsBijection
  <2>2. QED BY <1>2, <2>1, FS_Bijection
<1>6. Cardinality(A \ {1}) = IF 1 \in A THEN Cardinality(A) - 1 ELSE Cardinality(A)
  BY <1>2, FS_RemoveElement
<1>7. Cardinality(A) \in Nat /\ Cardinality(B) \in Nat
  BY <1>2, FS_CardinalityType
<1>8. Cardinality(A) = Cardinality(B) + IF Head(q) = op THEN 1 ELSE 0
  BY <1>4, <1>5, <1>6, <1>7
<1>9. QED BY <1>7, <1>8 DEF Count, A, B

\* A program that begins at depth a and ends with the mutex free is to unlock it a
\* times more than to lock it.
LEMMA HeldOfNested ==
  ASSUME NEW q \in Seq(Operations), NEW a, Nested(q, a, 0)
  PROVE  Count(q, "unlock") - Count(q, "lock") = a
<1> DEFINE S == {n \in Nat : \A p \in Seq(Operations) : \A b \in 0..2 :
                   Len(p) = n /\ Nested(p, b, 0) => Count(p, "unlock") - Count(p, "lock") = b}
<1>1. 0 \in S
  <2> SUFFICES ASSUME NEW p \in Seq(Operations), NEW b \in 0..2, Len(p) = 0, Nested(p, b, 0)
               PROVE  Count(p, "unlock") - Count(p, "lock") = b
    OBVIOUS
  <2>1. b = 0
    BY DEF Nested, Levels
  <2>2. {i \in 1..Len(p) : p[i] = "unlock"} = {} /\ {i \in 1..Len(p) : p[i] = "lock"} = {}
    OBVIOUS
  <2>3. Count(p, "unlock") = 0 /\ Count(p, "lock") = 0
    BY <2>2, FS_EmptySet DEF Count
  <2>4. QED BY <2>1, <2>3
<1>2. ASSUME NEW n \in Nat, n \in S PROVE n + 1 \in S
  <2> SUFFICES ASSUME NEW p \in Seq(Operations), NEW b \in 0..2, Len(p) = n + 1, Nested(p, b, 0)
               PROVE  Count(p, "unlock") - Count(p, "lock") = b
    OBVIOUS
  <2>1. p # <<>> /\ Len(Tail(p)) = n
    BY EmptySeq, HeadTailProperties
  <2>2. /\ Tail(p) \in Seq(Operations) /\ b + Adds(Head(p)) \in 0..2
        /\ Nested(Tail(p), b + Adds(Head(p)), 0)
    BY <2>1, Rest
  <2>3. Count(Tail(p), "unlock") - Count(Tail(p), "lock") = b + Adds(Head(p))
    BY <1>2, <2>1, <2>2
  <2>4. /\ Count(Tail(p), "unlock") \in Nat /\ Count(Tail(p), "lock") \in Nat
        /\ Count(p, "unlock") = Count(Tail(p), "unlock") + IF Head(p) = "unlock" THEN 1 ELSE 0
        /\ Count(p, "lock") = Count(Tail(p), "lock") + IF Head(p) = "lock" THEN 1 ELSE 0
    BY <2>1, CountTail
  <2>5. QED BY <2>3, <2>4 DEF Adds
<1> HIDE DEF S
<1>3. Len(q) \in S
  BY <1>1, <1>2, SetInduction, LenProperties
<1>4. a \in 0..2
  BY LenProperties DEF Nested, Levels
<1>5. QED BY <1>3, <1>4 DEF S

-----------------------------------------------------------------------------
(***************************************************************************)
(* The owner's calls.                                                      *)
(***************************************************************************)
Starting == << <<"count", "peers">>, <<"run", "epollThread">>, <<"create", "epollThread">>,
               <<"run", "monitorThread">>, <<"create", "monitorThread">> >>

Deletion == << <<"free", "selfIp">>, <<"free", "mutex">>,
               <<"stop", "epollThread">>, <<"join", "epollThread">>, <<"free", "epollThread">>,
               <<"stop", "monitorThread">>, <<"join", "monitorThread">>,
               <<"free", "monitorThread">>,
               <<"empty", "hash">>, <<"free", "hash">>, <<"empty", "ring">>, <<"free", "ring">>,
               <<"free", "peers">>, <<"free", "epoll">>, <<"free", "mod">> >>

OwnerOps == {"count", "run", "create", "stop", "join", "empty", "free"} \X Resources

\* p is what call has between its places lo and hi.
Part(p, call, lo, hi) ==
  /\ p \in Seq(OwnerOps) /\ Len(p) = hi - lo
  /\ \A i \in 1..Len(p) : p[i] = call[lo + i]

\* p is what is still to do of a call of n operations.
Left(p, call, n) ==
  /\ p \in Seq(OwnerOps) /\ Len(p) <= n
  /\ \A i \in 1..Len(p) : p[i] = call[(n - Len(p)) + i]

\* Two parts of the owner's call one after the other are a part.
LEMMA Parts ==
  ASSUME NEW p, NEW q, NEW call, NEW a \in Nat, NEW b \in Nat, NEW c \in Nat,
         Part(p, call, a, b), Part(q, call, b, c)
  PROVE  Part(p \o q, call, a, c)
<1>1. p \in Seq(OwnerOps) /\ q \in Seq(OwnerOps)
  BY DEF Part
<1>2. /\ Len(p) \in Nat /\ Len(q) \in Nat
      /\ p \o q \in Seq(OwnerOps) /\ Len(p \o q) = Len(p) + Len(q)
      /\ \A i \in 1..(Len(p) + Len(q)) :
           (p \o q)[i] = IF i <= Len(p) THEN p[i] ELSE q[i - Len(p)]
  BY <1>1, ConcatProperties, LenProperties
<1> DEFINE r == p \o q
<1> HIDE DEF r
<1>3. ASSUME NEW i \in 1..Len(r) PROVE r[i] = call[a + i]
  <2>1. CASE i <= Len(p)
    BY <1>2, <2>1 DEF r, Part
  <2>2. CASE i > Len(p)
    <3> DEFINE j == i - Len(p)
    <3>1. j \in 1..Len(q) /\ r[i] = q[j] /\ b + j = a + i
      BY <1>2, <2>2 DEF r, Part
    <3> HIDE DEF j
    <3>2. q[j] = call[b + j]
      BY <3>1 DEF Part
    <3>3. QED BY <3>1, <3>2
  <2>3. QED BY <1>2, <2>1, <2>2 DEF r
<1>4. Len(r) = c - a
  BY <1>2 DEF r, Part
<1>5. QED BY <1>2, <1>3, <1>4 DEF Part, r

\* One and two operations.
LEMMA Single ==
  ASSUME NEW call, NEW lo \in Nat, NEW hi \in Nat, hi = lo + 1, NEW x \in OwnerOps, call[hi] = x
  PROVE  Part(<<x>>, call, lo, hi)
BY DEF Part

\* Two operations in a row.
LEMMA Pair ==
  ASSUME NEW call, NEW lo \in Nat, NEW mid \in Nat, NEW hi \in Nat, mid = lo + 1, hi = mid + 1,
         NEW x \in OwnerOps, NEW y \in OwnerOps, call[mid] = x, call[hi] = y
  PROVE  Part(<<x, y>>, call, lo, hi)
BY DEF Part

\* What hsModNew does, operation by operation.
LEMMA StartIs == Left(<<<<"count", "peers">>>> \o ThreadStart("epollThread")
                                               \o ThreadStart("monitorThread"), Starting, 5)
<1> DEFINE run(t) == <<"run", t>>
           create(t) == <<"create", t>>
           count == <<"count", "peers">>
<1>1. /\ {count, run("epollThread"), create("epollThread"),
          run("monitorThread"), create("monitorThread")} \subseteq OwnerOps
      /\ Starting[1] = count /\ Starting[2] = run("epollThread")
      /\ Starting[3] = create("epollThread") /\ Starting[4] = run("monitorThread")
      /\ Starting[5] = create("monitorThread")
  BY DEF OwnerOps, Resources, Threads, Starting
<1> HIDE DEF run, create, count
<1>2. Part(<<count>>, Starting, 0, 1)
  BY <1>1, Single
<1>3. Part(<<run("epollThread"), create("epollThread")>>, Starting, 1, 3)
  <2>1. 2 = 1 + 1 /\ 3 = 2 + 1
    OBVIOUS
  <2>2. QED BY <1>1, <2>1, Pair
<1>4. Part(<<run("monitorThread"), create("monitorThread")>>, Starting, 3, 5)
  <2>1. 4 = 3 + 1 /\ 5 = 4 + 1
    OBVIOUS
  <2>2. QED BY <1>1, <2>1, Pair
<1>5. Part(<<count>> \o ThreadStart("epollThread"), Starting, 0, 3)
  BY <1>2, <1>3, Parts DEF ThreadStart, run, create
<1>6. Part(<<count>> \o ThreadStart("epollThread") \o ThreadStart("monitorThread"),
           Starting, 0, 5)
  BY <1>4, <1>5, Parts DEF ThreadStart, run, create
<1>7. QED BY <1>6 DEF Part, Left, count
\* What hsModDel does, operation by operation.
LEMMA DeleteIs == Left(DeleteOrder, Deletion, 15)
<1> DEFINE free(r) == <<"free", r>>
           stop(t) == <<"stop", t>>
           join(t) == <<"join", t>>
           empty(r) == <<"empty", r>>
<1>1. /\ \A r \in Resources : free(r) \in OwnerOps /\ empty(r) \in OwnerOps
      /\ \A t \in Threads : stop(t) \in OwnerOps /\ join(t) \in OwnerOps
      /\ Resources = {"epollThread", "monitorThread", "mod", "selfIp", "mutex", "hash",
                      "ring", "peers", "epoll"}
      /\ Threads = {"epollThread", "monitorThread"}
  BY DEF OwnerOps, Resources, Threads
<1>2. /\ Deletion[1] = free("selfIp") /\ Deletion[2] = free("mutex")
      /\ Deletion[3] = stop("epollThread") /\ Deletion[4] = join("epollThread")
      /\ Deletion[5] = free("epollThread")
      /\ Deletion[6] = stop("monitorThread") /\ Deletion[7] = join("monitorThread")
      /\ Deletion[8] = free("monitorThread")
      /\ Deletion[9] = empty("hash") /\ Deletion[10] = free("hash")
      /\ Deletion[11] = empty("ring") /\ Deletion[12] = free("ring")
      /\ Deletion[13] = free("peers") /\ Deletion[14] = free("epoll")
      /\ Deletion[15] = free("mod")
  BY DEF Deletion
<1>3. /\ \A r : Free(r) = <<free(r)>>
      /\ \A t : ThreadFini(t) = <<stop(t), join(t)>>
  BY DEF Free, ThreadFini
<1> DEFINE emptyHash == <<<<"empty", "hash">>>>
           emptyRing == <<<<"empty", "ring">>>>
<1>4. emptyHash = <<empty("hash")>> /\ emptyRing = <<empty("ring")>>
  OBVIOUS
<1> HIDE DEF free, stop, join, empty, emptyHash, emptyRing
<1>5. /\ 1 = 0 + 1 /\ 2 = 1 + 1 /\ 3 = 2 + 1 /\ 4 = 3 + 1 /\ 5 = 4 + 1 /\ 6 = 5 + 1
      /\ 7 = 6 + 1 /\ 8 = 7 + 1 /\ 9 = 8 + 1 /\ 10 = 9 + 1 /\ 11 = 10 + 1 /\ 12 = 11 + 1
      /\ 13 = 12 + 1 /\ 14 = 13 + 1 /\ 15 = 14 + 1
  OBVIOUS
<1>6. /\ Part(Free("selfIp"), Deletion, 0, 1) /\ Part(Free("mutex"), Deletion, 1, 2)
      /\ Part(Free("epollThread"), Deletion, 4, 5)
      /\ Part(Free("monitorThread"), Deletion, 7, 8)
  BY <1>1, <1>2, <1>3, <1>5, Single
<1>7. /\ Part(emptyHash, Deletion, 8, 9) /\ Part(Free("hash"), Deletion, 9, 10)
      /\ Part(emptyRing, Deletion, 10, 11) /\ Part(Free("ring"), Deletion, 11, 12)
  BY <1>1, <1>2, <1>3, <1>4, <1>5, Single
<1>8. /\ Part(Free("peers"), Deletion, 12, 13) /\ Part(Free("epoll"), Deletion, 13, 14)
      /\ Part(Free("mod"), Deletion, 14, 15)
  BY <1>1, <1>2, <1>3, <1>5, Single
<1>9. /\ Part(ThreadFini("epollThread"), Deletion, 2, 4)
      /\ Part(ThreadFini("monitorThread"), Deletion, 5, 7)
  BY <1>1, <1>2, <1>3, <1>5, Pair
<1> DEFINE P5 == Free("selfIp") \o Free("mutex")
                 \o ThreadFini("epollThread") \o Free("epollThread")
           P8 == P5 \o ThreadFini("monitorThread") \o Free("monitorThread")
           P12 == P8 \o emptyHash \o Free("hash") \o emptyRing \o Free("ring")
           P15 == P12 \o Free("peers") \o Free("epoll") \o Free("mod")
<1>10. Part(P5, Deletion, 0, 5)
  <2>1. Part(Free("selfIp") \o Free("mutex"), Deletion, 0, 2)
    BY <1>6, Parts
  <2>2. Part(Free("selfIp") \o Free("mutex") \o ThreadFini("epollThread"), Deletion, 0, 4)
    BY <1>9, <2>1, Parts
  <2>3. QED BY <1>6, <2>2, Parts
<1> HIDE DEF P5
<1>11. Part(P8, Deletion, 0, 8)
  <2>1. Part(P5 \o ThreadFini("monitorThread"), Deletion, 0, 7)
    BY <1>9, <1>10, Parts
  <2>2. QED BY <1>6, <2>1, Parts
<1> HIDE DEF P8
<1>12. Part(P12, Deletion, 0, 12)
  <2>1. Part(P8 \o emptyHash, Deletion, 0, 9)
    BY <1>7, <1>11, Parts
  <2>2. Part(P8 \o emptyHash \o Free("hash"), Deletion, 0, 10)
    BY <1>7, <2>1, Parts
  <2>3. Part(P8 \o emptyHash \o Free("hash") \o emptyRing, Deletion, 0, 11)
    BY <1>7, <2>2, Parts
  <2>4. QED BY <1>7, <2>3, Parts
<1> HIDE DEF P12
<1>13. Part(P15, Deletion, 0, 15)
  <2>1. Part(P12 \o Free("peers"), Deletion, 0, 13)
    BY <1>8, <1>12, Parts
  <2>2. Part(P12 \o Free("peers") \o Free("epoll"), Deletion, 0, 14)
    BY <1>8, <2>1, Parts
  <2>3. QED BY <1>8, <2>2, Parts
<1>14. DeleteOrder = P15
  BY Zenon DEF DeleteOrder, P15, P12, P8, P5, emptyHash, emptyRing
<1> HIDE DEF P15
<1>15. Part(DeleteOrder, Deletion, 0, 15)
  BY <1>13, <1>14
<1>16. QED BY <1>15 DEF Part, Left

\* The next operation of a call, and what is left after it.
LEMMA LeftTail ==
  ASSUME NEW p, NEW call, NEW n \in Nat, Left(p, call, n), p # <<>>
  PROVE  /\ Len(p) \in 1..n /\ Head(p) = call[(n - Len(p)) + 1] /\ Head(p) \in OwnerOps
         /\ Left(Tail(p), call, n) /\ Len(Tail(p)) = Len(p) - 1
<1>1. p \in Seq(OwnerOps)
  BY DEF Left
<1>2. /\ Len(p) \in Nat /\ Len(p) > 0 /\ Head(p) = p[1]
      /\ Head(p) \in OwnerOps /\ Tail(p) \in Seq(OwnerOps)
      /\ Len(Tail(p)) = Len(p) - 1
      /\ \A i \in 1..Len(Tail(p)) : Tail(p)[i] = p[i + 1]
  BY <1>1, HeadTailProperties, LenProperties, EmptySeq
<1>3. Len(p) <= n /\ \A i \in 1..Len(p) : p[i] = call[(n - Len(p)) + i]
  BY DEF Left
<1> DEFINE q == Tail(p)
<1>4. ASSUME NEW i \in 1..Len(q) PROVE q[i] = call[(n - Len(q)) + i]
  <2>1. i + 1 \in 1..Len(p) /\ q[i] = p[i + 1] /\ (n - Len(p)) + (i + 1) = (n - Len(q)) + i
    BY <1>2
  <2> HIDE DEF q
  <2>2. p[i + 1] = call[(n - Len(p)) + (i + 1)]
    BY <1>3, <2>1
  <2>3. QED BY <2>1, <2>2
<1>5. Len(q) <= n
  BY <1>2, <1>3
<1>6. Left(q, call, n)
  BY <1>2, <1>4, <1>5 DEF Left
<1>7. QED BY <1>2, <1>3, <1>6

\* How many operations hsModDelete has still to do when it has freed r.
Freed(r) == CASE r = "selfIp" -> 14 [] r = "mutex" -> 13 [] r = "epollThread" -> 10
              [] r = "monitorThread" -> 7 [] r = "hash" -> 5 [] r = "ring" -> 3
              [] r = "peers" -> 2 [] r = "epoll" -> 1 [] r = "mod" -> 0

\* Where hsModDel frees each resource.
LEMMA FreedIs ==
  /\ Freed("selfIp") = 14 /\ Freed("mutex") = 13 /\ Freed("epollThread") = 10
  /\ Freed("monitorThread") = 7 /\ Freed("hash") = 5 /\ Freed("ring") = 3
  /\ Freed("peers") = 2 /\ Freed("epoll") = 1 /\ Freed("mod") = 0
  /\ \A r \in Resources : Freed(r) \in {14, 13, 10, 7, 5, 3, 2, 1, 0}
BY DEF Freed, Resources, Threads

\* Each operation of hsModDel comes before its resource is freed.
LEMMA DeletionFacts ==
  ASSUME NEW n \in 1..15, NEW o, o = Deletion[16 - n]
  PROVE  /\ o[1] \in {"stop", "join", "empty", "free"} /\ o[2] \in Resources
         /\ Freed(o[2]) < n
         /\ o[1] = "free" => Freed(o[2]) = n - 1
         /\ o[1] # "free" => \A r \in Resources : Freed(r) # n - 1
         /\ o[1] = "stop" => o[2] \in Threads
         /\ o[1] = "join" => n \in {9, 12}
         /\ n = 12 => o[1] = "join" /\ o[2] = "epollThread"
         /\ n = 9 => o[1] = "join" /\ o[2] = "monitorThread"
         /\ o[1] = "empty" => n \in {5, 7}
         /\ n = 7 => o[1] = "empty" /\ o[2] = "hash"
         /\ n = 5 => o[1] = "empty" /\ o[2] = "ring"
<1>1. /\ Deletion[1] = <<"free", "selfIp">> /\ Deletion[2] = <<"free", "mutex">>
      /\ Deletion[3] = <<"stop", "epollThread">> /\ Deletion[4] = <<"join", "epollThread">>
      /\ Deletion[5] = <<"free", "epollThread">>
      /\ Deletion[6] = <<"stop", "monitorThread">> /\ Deletion[7] = <<"join", "monitorThread">>
      /\ Deletion[8] = <<"free", "monitorThread">>
      /\ Deletion[9] = <<"empty", "hash">> /\ Deletion[10] = <<"free", "hash">>
      /\ Deletion[11] = <<"empty", "ring">> /\ Deletion[12] = <<"free", "ring">>
      /\ Deletion[13] = <<"free", "peers">> /\ Deletion[14] = <<"free", "epoll">>
      /\ Deletion[15] = <<"free", "mod">>
  BY DEF Deletion
<1>2. /\ \A t \in Threads : t \in {"monitorThread", "epollThread"} /\ t \in Resources
      /\ {"selfIp", "mutex", "epollThread", "monitorThread", "hash", "ring", "peers", "epoll",
          "mod"} \subseteq Resources
      /\ {"monitorThread", "epollThread"} \subseteq Threads
  BY DEF Resources, Threads
<1>3. n \in {1, 2, 3, 4, 5, 6, 7, 8, 9, 10, 11, 12, 13, 14, 15}
  OBVIOUS
<1>4. /\ Freed("selfIp") = 14 /\ Freed("mutex") = 13 /\ Freed("epollThread") = 10
      /\ Freed("monitorThread") = 7 /\ Freed("hash") = 5 /\ Freed("ring") = 3
      /\ Freed("peers") = 2 /\ Freed("epoll") = 1 /\ Freed("mod") = 0
      /\ \A r \in Resources : Freed(r) \in {14, 13, 10, 7, 5, 3, 2, 1, 0}
  BY FreedIs
<1>5. /\ n = 15 => o = <<"free", "selfIp">>
      /\ n = 14 => o = <<"free", "mutex">>
      /\ n = 13 => o = <<"stop", "epollThread">>
      /\ n = 12 => o = <<"join", "epollThread">>
      /\ n = 11 => o = <<"free", "epollThread">>
      /\ n = 10 => o = <<"stop", "monitorThread">>
      /\ n = 9 => o = <<"join", "monitorThread">>
      /\ n = 8 => o = <<"free", "monitorThread">>
      /\ n = 7 => o = <<"empty", "hash">>
      /\ n = 6 => o = <<"free", "hash">>
      /\ n = 5 => o = <<"empty", "ring">>
      /\ n = 4 => o = <<"free", "ring">>
      /\ n = 3 => o = <<"free", "peers">>
      /\ n = 2 => o = <<"free", "epoll">>
      /\ n = 1 => o = <<"free", "mod">>
  BY <1>1
<1> DEFINE op == o[1]
           x == o[2]
<1>6. /\ n = 15 => op = "free" /\ x = "selfIp"
      /\ n = 14 => op = "free" /\ x = "mutex"
      /\ n = 13 => op = "stop" /\ x = "epollThread"
      /\ n = 12 => op = "join" /\ x = "epollThread"
      /\ n = 11 => op = "free" /\ x = "epollThread"
      /\ n = 10 => op = "stop" /\ x = "monitorThread"
      /\ n = 9 => op = "join" /\ x = "monitorThread"
      /\ n = 8 => op = "free" /\ x = "monitorThread"
      /\ n = 7 => op = "empty" /\ x = "hash"
      /\ n = 6 => op = "free" /\ x = "hash"
      /\ n = 5 => op = "empty" /\ x = "ring"
      /\ n = 4 => op = "free" /\ x = "ring"
      /\ n = 3 => op = "free" /\ x = "peers"
      /\ n = 2 => op = "free" /\ x = "epoll"
      /\ n = 1 => op = "free" /\ x = "mod"
  BY <1>5
<1> HIDE DEF op, x
<1>7. op \in {"stop", "join", "empty", "free"} /\ x \in Resources
  BY <1>2, <1>3, <1>6
<1>8. Freed(x) < n
  BY <1>3, <1>4, <1>6
<1>9. op = "free" => Freed(x) = n - 1
  BY <1>3, <1>4, <1>6
<1>10. op # "free" => \A r \in Resources : Freed(r) # n - 1
  BY <1>3, <1>4, <1>6
<1>11. /\ op = "stop" => x \in Threads
       /\ op = "join" => n \in {9, 12}
       /\ op = "empty" => n \in {5, 7}
  BY <1>2, <1>3, <1>6
<1>12. QED BY <1>6, <1>7, <1>8, <1>9, <1>10, <1>11 DEF op, x

-----------------------------------------------------------------------------
(***************************************************************************)
(* The inductive invariant.                                                *)
(***************************************************************************)
\* A thread has something to do only when it is up, and then a program, or it hangs
\* on the mutex that was freed.
Programs ==
  \A t \in Threads :
    /\ \/ todo[t] \in Seq(Plain) /\ Adjacent(todo[t])
       \/ todo[t] = <<"hang">> /\ "mutex" \notin alive
    /\ todo[t] # <<>> => up[t] = "up"

Holds(t) == IF owner = t THEN depth ELSE 0

\* While the mutex is there, what a thread has to do ends with the mutex free.
Mutual ==
  "mutex" \in alive => /\ owner = "none" <=> depth = 0
                       /\ \A t \in Threads : Nested(todo[t], Holds(t), 0)

\* A thread has at most one channel in its hands, and only to put it somewhere.
Carried ==
  \A c \in Channels :
    place[c] \in Threads => /\ todo[place[c]] # <<>>
                            /\ Head(todo[place[c]]) \in {"map", "recycle"}
                            /\ \A d \in Channels : place[d] = place[c] => d = c

Ready ==
  plan = <<>> /\ alive = Resources /\ \A t \in Threads : up[t] = "none"

\* A thread is created when isRunning is set.
Started ==
  /\ Left(plan, Starting, 5) /\ alive = Resources
  /\ \A t \in Threads : up[t] # "ended"
  /\ Len(plan) <= 3 => running["epollThread"]
  /\ up["epollThread"] = "up" => Len(plan) <= 2
  /\ Len(plan) <= 1 => running["monitorThread"]
  /\ up["monitorThread"] = "up" => Len(plan) = 0

\* What hsModDelete has freed, joined and emptied.
Deleting ==
  /\ Left(plan, Deletion, 15)
  /\ phase = "done" <=> plan = <<>>
  /\ alive = {r \in Resources : Len(plan) > Freed(r)}
  /\ Len(plan) <= 11 => up["epollThread"] # "up"
  /\ Len(plan) <= 8 => up["monitorThread"] # "up"
  /\ Len(plan) <= 6 => \A c \in Channels : place[c] # "hash"
  /\ Len(plan) <= 4 => \A c \in Channels : place[c] # "ring"

Course ==
  /\ phase = "ready" => Ready
  /\ phase = "started" => Started
  /\ phase \in {"deleting", "done"} => Deleting

IInv == TypeOK /\ FreedUnused /\ Programs /\ Mutual /\ Carried /\ Course

\* A thread that is up has all that its turns use.
LEMMA UpHasAll ==
  ASSUME TypeOK, Course, NEW t \in Threads, up[t] = "up"
  PROVE  /\ {t, "mod", "hash", "ring", "peers", "epoll"} \subseteq alive
         /\ phase \in {"deleting", "done"} => Len(plan) > 8
         /\ phase # "ready"
<1>1. phase # "ready" /\ phase \in {"started", "deleting", "done"}
  BY DEF TypeOK, Course, Ready
<1>2. {t, "mod", "hash", "ring", "peers", "epoll"} \subseteq Resources
  BY DEF Resources
<1>3. CASE phase = "started"
  BY <1>1, <1>2, <1>3 DEF Course, Started
<1>4. CASE phase \in {"deleting", "done"}
  <2>1. /\ Deleting /\ Len(plan) \in Nat
    BY <1>4, LenProperties DEF Course, Deleting, Left
  <2>2. t = "epollThread" => Len(plan) > 11
    BY <2>1 DEF Deleting
  <2>3. t = "monitorThread" => Len(plan) > 8
    BY <2>1 DEF Deleting
  <2>4. Len(plan) > 8 /\ Len(plan) > Freed(t)
    BY <2>1, <2>2, <2>3 DEF Threads, Freed
  <2>5. /\ Freed("mod") < 8 /\ Freed("hash") < 8 /\ Freed("ring") < 8 /\ Freed("peers") < 8
        /\ Freed("epoll") < 8 /\ Freed("mod") \in Nat /\ Freed("hash") \in Nat
        /\ Freed("ring") \in Nat /\ Freed("peers") \in Nat /\ Freed("epoll") \in Nat
    BY DEF Freed
  <2>6. \A r \in {t, "mod", "hash", "ring", "peers", "epoll"} : Len(plan) > Freed(r)
    BY <2>1, <2>4, <2>5
  <2>7. QED BY <1>1, <1>2, <2>1, <2>4, <2>6 DEF Deleting
<1>5. QED BY <1>1, <1>3, <1>4

\* What is used and is there, or is the node's address or the mutex.
LEMMA Touched ==
  ASSUME TypeOK, FreedUnused, NEW used, used \subseteq alive \cup {"selfIp", "mutex"}, Touch(used)
  PROVE  FreedUnused'
<1>1. ~(peerCount > peerCur)
  <2>1. peerCur \in 0..ServerCount /\ peerCount \in 0..peerCur
    BY DEF TypeOK
  <2>2. QED BY <2>1 DEF ServerCountAssumption
<1>2. bad' = bad \cup (used \ alive)
  BY <1>1 DEF Touch
<1>3. QED BY <1>2 DEF FreedUnused

\* It holds at first.
LEMMA InitHolds == Init => IInv
<1> SUFFICES ASSUME Init PROVE IInv
  OBVIOUS
<1>1. TypeOK
  BY DEF Init, TypeOK, ServerCountAssumption
<1>2. FreedUnused
  BY DEF Init, FreedUnused
<1>3. Programs
  <2>1. <<>> \in Seq(Plain) /\ Adjacent(<<>>)
    BY FlatPrograms DEF Program
  <2>2. QED BY <2>1 DEF Init, Programs
<1>4. Mutual
  <2>1. Nested(<<>>, 0, 0)
    BY FlatPrograms DEF Program
  <2>2. QED BY <2>1 DEF Init, Mutual, Holds
<1>5. Carried
  BY DEF Init, Carried, Threads
<1>6. Course
  BY DEF Init, Course, Ready
<1>7. QED BY <1>1, <1>2, <1>3, <1>4, <1>5, <1>6 DEF IInv

\* The owner adds a peer, or sends.
LEMMA AddOrSend ==
  ASSUME IInv, hsModAddPeer \/ hsModSend
  PROVE  IInv'
<1>1. /\ phase \in {"ready", "started"}
      /\ UNCHANGED <<build, phase, plan, peerCount, alive, place, running, up, todo, owner, depth>>
  BY DEF hsModAddPeer, hsModSend, lock, counts
<1>2. alive = Resources
  BY <1>1 DEF IInv, Course, Ready, Started
<1>3. FreedUnused'
  <2>1. Touch({"mod", "peers"}) \/ Touch({"mod", "peers", "epoll"})
    BY DEF hsModAddPeer, hsModSend
  <2>2. {"mod", "peers", "epoll"} \subseteq Resources
    BY DEF Resources
  <2>3. QED BY <1>2, <2>1, <2>2, Touched DEF IInv
<1>4. TypeOK'
  <2>1. peerCur' \in 0..ServerCount /\ peerCount' \in 0..peerCur'
    BY <1>1 DEF IInv, TypeOK, hsModAddPeer, hsModSend, counts, ServerCountAssumption
  <2>2. bad' \subseteq Resources
    BY <1>3 DEF FreedUnused, Resources
  <2>3. QED BY <1>1, <2>1, <2>2 DEF IInv, TypeOK
<1>5. Programs' /\ Mutual' /\ Carried'
  BY <1>1 DEF IInv, Programs, Mutual, Holds, Carried
<1>6. Course'
  BY <1>1 DEF IInv, Course, Ready, Started, Deleting
<1>7. QED BY <1>3, <1>4, <1>5, <1>6 DEF IInv

\* The owner calls hsModStart or hsModDelete.
LEMMA Calls ==
  ASSUME IInv, hsModStart \/ hsModDelete
  PROVE  IInv'
<1>1. /\ phase \in {"ready", "started"} /\ plan = <<>>
      /\ UNCHANGED <<build, peerCur, peerCount, alive, place, running, up, todo, owner, depth, bad>>
  BY DEF hsModStart, hsModDelete, lock, counts
<1>2. CASE hsModStart
  <2>1. /\ phase = "ready" /\ phase' = "started" /\ Left(plan', Starting, 5) /\ Ready
    BY <1>2, StartIs DEF hsModStart, IInv, Course
  <2>2. Len(plan') = 5
    <3> DEFINE p == <<<<"count", "peers">>>> \o ThreadStart("epollThread")
                                             \o ThreadStart("monitorThread")
    <3>1. plan' = p
      BY <1>2 DEF hsModStart
    <3>2. QED BY <3>1 DEF ThreadStart
  <2>3. Started'
    BY <1>1, <2>1, <2>2 DEF Started, Ready, Threads
  <2>4. Course'
    BY <2>1, <2>3 DEF Course
  <2>5. TypeOK'
    BY <1>1, <2>1 DEF IInv, TypeOK, Left, OwnerOps
  <2>6. QED BY <1>1, <2>4, <2>5 DEF IInv, FreedUnused, Programs, Mutual, Holds, Carried
<1>3. CASE hsModDelete
  <2>1. /\ phase' = "deleting" /\ Left(plan', Deletion, 15) /\ alive = Resources
        /\ \A t \in Threads : up[t] # "ended"
    BY <1>1, <1>3, DeleteIs DEF hsModDelete, IInv, Course, Ready, Started
  <2>2. Len(plan') = 15 /\ plan' # <<>>
    <3>1. plan' = DeleteOrder
      BY <1>3 DEF hsModDelete
    <3>2. Len(DeleteOrder) = 15
      BY DEF DeleteOrder, Free, ThreadFini
    <3>3. plan' = <<>> => Len(plan') = 0
      OBVIOUS
    <3>4. QED BY <3>1, <3>2, <3>3
  <2>3. Deleting'
    <3>1. \A r \in Resources : Freed(r) < 15 /\ Freed(r) \in Nat
      BY FreedIs
    <3>2. alive' = {r \in Resources : Len(plan') > Freed(r)}
      BY <1>1, <2>1, <2>2, <3>1
    <3>3. QED BY <1>1, <2>1, <2>2, <3>2 DEF Deleting
  <2>4. Course'
    BY <2>1, <2>3 DEF Course
  <2>5. TypeOK'
    BY <1>1, <2>1 DEF IInv, TypeOK, Left, OwnerOps
  <2>6. QED BY <1>1, <2>4, <2>5 DEF IInv, FreedUnused, Programs, Mutual, Holds, Carried
<1>4. QED BY <1>2, <1>3

\* The loop of a thread: it ends, or takes one of its turns.
LEMMA LoopStep ==
  ASSUME IInv, NEW t \in Threads, Loop(t)
  PROVE  IInv'
<1>1. /\ up[t] = "up" /\ todo[t] = <<>>
      /\ UNCHANGED <<build, phase, plan, peerCur, peerCount, alive, place, running, owner, depth>>
  BY DEF Loop, lock, counts
<1>2. /\ {t, "mod", "hash", "ring", "peers", "epoll"} \subseteq alive
      /\ phase \in {"deleting", "done"} => Len(plan) > 8
      /\ phase # "ready"
  BY <1>1, UpHasAll DEF IInv
<1>3. FreedUnused'
  <2>1. PICK used : used \subseteq {t, "mod", "epoll"} /\ Touch(used)
    BY DEF Loop
  <2>2. QED BY <1>2, <2>1, Touched DEF IInv
<1>4. PICK turn : /\ Program(turn, 0, 0)
                  /\ \/ running[t] /\ todo' = [todo EXCEPT ![t] = turn] /\ up' = up
                     \/ ~running[t] /\ todo' = todo /\ up' = [up EXCEPT ![t] = "ended"]
  <2>1. CASE running[t]
    <3>1. PICK turn \in Turns(t) : todo' = [todo EXCEPT ![t] = turn] /\ UNCHANGED up
      BY <2>1 DEF Loop
    <3>2. peerCount \in Nat
      BY DEF IInv, TypeOK, ServerCountAssumption
    <3>3. Program(turn, 0, 0)
      BY <3>2, TurnPrograms
    <3>4. QED BY <2>1, <3>1, <3>3
  <2>2. CASE ~running[t]
    <3>1. Program(<<>>, 0, 0)
      BY FlatPrograms
    <3>2. QED BY <2>2, <3>1 DEF Loop
  <2>3. QED BY <2>1, <2>2
<1>5. turn \in Seq(Plain) /\ turn \in Seq(Operations) /\ Adjacent(turn) /\ Nested(turn, 0, 0)
  <2>1. turn \in Seq(Plain)
    BY <1>4 DEF Program
  <2>2. Plain \subseteq Operations
    BY DEF Plain
  <2>3. turn \in Seq(Operations)
    BY <2>1, <2>2, SeqMonotonic
  <2>4. QED BY <1>4, <2>1, <2>3 DEF Program
<1>6. /\ todo \in [Threads -> Seq(Operations)] /\ up \in [Threads -> {"none", "up", "ended"}]
      /\ todo' \in [Threads -> Seq(Operations)] /\ up' \in [Threads -> {"none", "up", "ended"}]
  <2>1. /\ todo \in [Threads -> Seq(Operations)]
        /\ up \in [Threads -> {"none", "up", "ended"}]
    BY DEF IInv, TypeOK
  <2>2. todo' = todo \/ todo' = [todo EXCEPT ![t] = turn]
    BY <1>4
  <2>3. up' = up \/ up' = [up EXCEPT ![t] = "ended"]
    BY <1>4
  <2>4. todo' \in [Threads -> Seq(Operations)]
    BY <1>5, <2>1, <2>2
  <2>5. QED BY <2>1, <2>3, <2>4
<1>7. TypeOK'
  <2>1. bad' \subseteq Resources
    BY <1>3 DEF FreedUnused, Resources
  <2>2. QED BY <1>1, <1>6, <2>1 DEF IInv, TypeOK
<1>8. Programs'
  <2> SUFFICES ASSUME NEW u \in Threads
               PROVE  /\ \/ todo'[u] \in Seq(Plain) /\ Adjacent(todo'[u])
                         \/ todo'[u] = <<"hang">> /\ "mutex" \notin alive'
                      /\ todo'[u] # <<>> => up'[u] = "up"
    BY DEF Programs
  <2>1. CASE u = t
    BY <1>1, <1>4, <1>5, <1>6, <2>1 DEF IInv, Programs
  <2>2. CASE u # t
    BY <1>1, <1>4, <1>6, <2>2 DEF IInv, Programs
  <2>3. QED BY <2>1, <2>2
<1>9. Mutual'
  <2> SUFFICES ASSUME "mutex" \in alive
               PROVE  /\ owner = "none" <=> depth = 0
                      /\ \A u \in Threads : Nested(todo'[u], Holds(u), 0)
    BY <1>1 DEF Mutual, Holds
  <2>1. /\ owner = "none" <=> depth = 0
        /\ \A u \in Threads : Nested(todo[u], Holds(u), 0)
    BY DEF IInv, Mutual
  <2>2. Holds(t) = 0
    <3>1. Nested(<<>>, Holds(t), 0)
      BY <1>1, <2>1
    <3>2. QED BY <3>1 DEF Nested, Levels
  <2>3. ASSUME NEW u \in Threads PROVE Nested(todo'[u], Holds(u), 0)
    <3>1. todo'[u] = todo[u] \/ (u = t /\ todo'[u] = turn)
      BY <1>4, <1>6
    <3>2. QED BY <1>5, <2>1, <2>2, <3>1
  <2>4. QED BY <2>1, <2>3
<1>10. Carried'
  <2> SUFFICES ASSUME NEW c \in Channels, place[c] \in Threads
               PROVE  /\ todo'[place[c]] # <<>>
                      /\ Head(todo'[place[c]]) \in {"map", "recycle"}
                      /\ \A d \in Channels : place[d] = place[c] => d = c
    BY <1>1 DEF Carried
  <2>1. /\ todo[place[c]] # <<>> /\ Head(todo[place[c]]) \in {"map", "recycle"}
        /\ \A d \in Channels : place[d] = place[c] => d = c
    BY DEF IInv, Carried
  <2>2. todo'[place[c]] = todo[place[c]]
    BY <1>1, <1>4, <1>6, <2>1
  <2>3. QED BY <2>1, <2>2
<1>11. Course'
  <2>1. phase = "started" => Started'
    <3> SUFFICES ASSUME phase = "started" PROVE Started'
      OBVIOUS
    <3>1. Started
      BY DEF IInv, Course
    <3>2. Len(plan) \in Nat
      BY <3>1, LenProperties DEF Started, Left
    <3>3. running[t]
      BY <1>1, <3>1, <3>2 DEF Started, Threads
    <3>4. QED BY <1>1, <1>4, <3>1, <3>3 DEF Started
  <2>2. phase \in {"deleting", "done"} => Deleting'
    <3> SUFFICES ASSUME phase \in {"deleting", "done"} PROVE Deleting'
      OBVIOUS
    <3>1. Deleting
      BY DEF IInv, Course
    <3>2. \A u \in Threads : up[u] # "up" => up'[u] # "up"
      BY <1>1, <1>4, <1>6
    <3>3. QED BY <1>1, <3>1, <3>2 DEF Deleting, Threads
  <2>3. QED BY <1>1, <1>2, <2>1, <2>2 DEF Course
<1>12. QED BY <1>3, <1>7, <1>8, <1>9, <1>10, <1>11 DEF IInv

\* A channel that is moved.
LEMMA Moved ==
  ASSUME place \in [Channels -> {"ring", "hash", "freed"} \cup Threads],
         NEW from, NEW dest \in {"ring", "hash"} \cup Threads, Move(from, dest)
  PROVE  \/ place' = place /\ \A c \in Channels : place[c] # from
         \/ \E c \in Channels : place[c] = from /\ place' = [place EXCEPT ![c] = dest]
BY DEF Move

\* The next operation of a turn.
LEMMA ThreadStep ==
  ASSUME IInv, NEW t \in Threads, Step(t)
  PROVE  IInv'
<1> DEFINE op == Head(todo[t])
           rest == Tail(todo[t])
<1>1. /\ todo[t] # <<>> /\ op # "hang"
      /\ UNCHANGED <<build, phase, plan, peerCur, peerCount, alive, running, up>>
  BY DEF Step, counts
<1>2. todo[t] \in Seq(Operations) /\ up[t] = "up"
  BY <1>1 DEF IInv, TypeOK, Programs
<1>3. todo[t] \in Seq(Plain) /\ Adjacent(todo[t])
  <2>1. Head(<<"hang">>) = "hang"
    OBVIOUS
  <2>2. QED BY <1>1, <2>1 DEF IInv, Programs
<1>4. /\ op \in Plain /\ op \in Operations /\ rest \in Seq(Plain) /\ rest \in Seq(Operations)
  <2>1. op \in Plain /\ rest \in Seq(Plain)
    BY <1>1, <1>3, HeadTailProperties
  <2>2. QED BY <1>1, <1>2, <2>1, HeadTailProperties
<1>5. /\ Adjacent(rest)
      /\ op = "take" => rest # <<>> /\ Head(rest) = "map"
      /\ op = "unmap" => rest # <<>> /\ Head(rest) = "recycle"
      /\ \A a, b : Nested(todo[t], a, b) =>
           a + Adds(op) \in 0..2 /\ a \in 0..2 /\ Nested(rest, a + Adds(op), b)
  BY <1>1, <1>2, <1>3, Rest
<1>6. /\ {t, "mod", "hash", "ring", "peers", "epoll"} \subseteq alive
      /\ phase \in {"deleting", "done"} => Len(plan) > 8
      /\ phase # "ready"
  BY <1>2, UpHasAll DEF IInv
<1>7. /\ Touch(Uses(op))
      /\ CASE op = "lock"   -> Lock(t)
           [] op = "unlock" -> Unlock(t)
           [] OTHER         -> todo' = [todo EXCEPT ![t] = rest] /\ UNCHANGED lock
      /\ CASE op = "take"    -> Move("ring", t)
           [] op = "map"     -> Move(t, "hash")
           [] op = "unmap"   -> Move("hash", t)
           [] op = "recycle" -> Move(t, "ring")
           [] OTHER          -> UNCHANGED place
  BY DEF Step
<1>8. PICK q : /\ todo' = [todo EXCEPT ![t] = q]
               /\ q = rest \/ (op = "lock" /\ "mutex" \notin alive /\ q = <<"hang">>)
  <2>1. CASE op = "lock"
    <3>1. Lock(t)
      BY <1>7, <2>1
    <3>2. CASE "mutex" \in alive
      BY <3>1, <3>2 DEF Lock
    <3>3. CASE "mutex" \notin alive
      BY <2>1, <3>1, <3>3 DEF Lock
    <3>4. QED BY <3>2, <3>3
  <2>2. CASE op = "unlock"
    BY <1>7, <2>2 DEF Unlock
  <2>3. CASE op \notin {"lock", "unlock"}
    BY <1>7, <2>3
  <2>4. QED BY <2>1, <2>2, <2>3
<1> HIDE DEF op, rest
<1>9. FreedUnused'
  <2>1. Uses(op) \subseteq {"mod", "mutex", "hash", "ring", "epoll", "selfIp", "peers"}
    BY <1>4 DEF Uses, Plain, Operations
  <2>2. QED BY <1>6, <1>7, <2>1, Touched DEF IInv
<1>10. /\ q \in Seq(Operations)
       /\ todo \in [Threads -> Seq(Operations)] /\ todo' \in [Threads -> Seq(Operations)]
       /\ todo'[t] = q /\ \A u \in Threads : u # t => todo'[u] = todo[u]
  <2>1. q \in Seq(Operations)
    <3>1. "hang" \in Operations
      BY DEF Operations
    <3>2. <<"hang">> \in Seq(Operations)
      BY <3>1
    <3>3. QED BY <1>4, <1>8, <3>2
  <2>2. todo \in [Threads -> Seq(Operations)]
    BY DEF IInv, TypeOK
  <2>3. QED BY <1>8, <2>1, <2>2
<1>11. Programs'
  <2> SUFFICES ASSUME NEW u \in Threads
               PROVE  /\ \/ todo'[u] \in Seq(Plain) /\ Adjacent(todo'[u])
                         \/ todo'[u] = <<"hang">> /\ "mutex" \notin alive'
                      /\ todo'[u] # <<>> => up'[u] = "up"
    BY DEF Programs
  <2>1. CASE u = t
    BY <1>1, <1>2, <1>4, <1>5, <1>8, <1>10, <2>1
  <2>2. CASE u # t
    BY <1>1, <1>10, <2>2 DEF IInv, Programs
  <2>3. QED BY <2>1, <2>2
\* The mutex.
<1>12. ASSUME "mutex" \in alive
       PROVE  /\ owner' \in Threads \cup {"none"} /\ depth' \in 0..2
              /\ owner' = "none" <=> depth' = 0
              /\ \A u \in Threads : Nested(todo'[u], Holds(u)', 0)
  <2>1. /\ owner = "none" <=> depth = 0
        /\ \A u \in Threads : Nested(todo[u], Holds(u), 0)
    BY <1>12 DEF IInv, Mutual
  <2>2. q = rest
    BY <1>8, <1>12
  <2>3. Holds(t) + Adds(op) \in 0..2 /\ Holds(t) \in 0..2 /\ Nested(rest, Holds(t) + Adds(op), 0)
    BY <1>5, <2>1
  <2>4. owner \in Threads \cup {"none"} /\ depth \in 0..2 /\ "none" \notin Threads
    BY DEF IInv, TypeOK, Threads
  <2>5. /\ owner' \in Threads \cup {"none"} /\ depth' \in 0..2
        /\ owner' = "none" <=> depth' = 0
        /\ Holds(t)' = Holds(t) + Adds(op)
        /\ \A u \in Threads : u # t => Holds(u)' = Holds(u)
    <3>1. CASE op = "lock"
      <4>1. (owner = "none" \/ owner = t) /\ owner' = t /\ depth' = depth + 1
        BY <1>7, <1>12, <3>1 DEF Lock, Got
      <4>2. Adds(op) = 1
        BY <3>1 DEF Adds
      <4>3. QED BY <2>1, <2>3, <2>4, <4>1, <4>2 DEF Holds
    <3>2. CASE op = "unlock"
      <4>1. depth' = depth - 1 /\ owner' = IF depth = 1 THEN "none" ELSE owner
        BY <1>7, <1>12, <3>2 DEF Unlock
      <4>2. Adds(op) = 0 - 1
        BY <3>2 DEF Adds
      <4>3. owner = t /\ depth \in 1..2
        BY <2>3, <2>4, <4>2 DEF Holds
      <4>4. QED BY <2>1, <2>3, <2>4, <4>1, <4>2, <4>3 DEF Holds
    <3>3. CASE op \notin {"lock", "unlock"}
      <4>1. owner' = owner /\ depth' = depth
        BY <1>7, <3>3 DEF lock
      <4>2. Adds(op) = 0
        BY <3>3 DEF Adds
      <4>3. QED BY <2>1, <2>3, <2>4, <4>1, <4>2 DEF Holds
    <3>4. QED BY <3>1, <3>2, <3>3
  <2>6. ASSUME NEW u \in Threads PROVE Nested(todo'[u], Holds(u)', 0)
    <3>1. CASE u = t
      <4>1. todo'[u] = rest /\ Holds(u)' = Holds(t) + Adds(op)
        BY <1>10, <2>2, <2>5, <3>1
      <4>2. QED BY <2>3, <4>1
    <3>2. CASE u # t
      BY <1>10, <2>1, <2>5, <3>2
    <3>3. QED BY <3>1, <3>2
  <2>7. QED BY <2>5, <2>6
<1>13. Mutual'
  BY <1>1, <1>12 DEF Mutual
<1>14. owner' \in Threads \cup {"none"} /\ depth' \in 0..2
  <2>1. CASE "mutex" \in alive
    BY <1>12, <2>1
  <2>2. CASE "mutex" \notin alive
    <3>1. owner' = owner /\ depth' = depth
      <4>1. CASE op = "lock"
        BY <1>7, <2>2, <4>1 DEF Lock, lock
      <4>2. CASE op = "unlock"
        BY <1>7, <2>2, <4>2 DEF Unlock, lock
      <4>3. CASE op \notin {"lock", "unlock"}
        BY <1>7, <4>3 DEF lock
      <4>4. QED BY <4>1, <4>2, <4>3
    <3>2. QED BY <3>1 DEF IInv, TypeOK
  <2>3. QED BY <2>1, <2>2
\* The channels.
<1>15. place \in [Channels -> {"ring", "hash", "freed"} \cup Threads]
  BY DEF IInv, TypeOK
<1>16. \A c \in Channels : place[c] = t => /\ op \in {"map", "recycle"}
                                           /\ \A d \in Channels : place[d] = t => d = c
  BY DEF IInv, Carried, op
<1>17. "ring" \notin Threads /\ "hash" \notin Threads /\ "freed" \notin Threads
  BY DEF Threads
<1>18. /\ place' \in [Channels -> {"ring", "hash", "freed"} \cup Threads]
       /\ \A u \in Threads, d \in Channels : u # t => (place'[d] = u <=> place[d] = u)
       /\ \/ \A d \in Channels : place'[d] # t
          \/ /\ op \in {"take", "unmap"}
             /\ \A c, d \in Channels : place'[c] = t /\ place'[d] = t => c = d
  <2>1. CASE op \in {"take", "unmap"}
    <3>1. PICK from \in {"ring", "hash"} : Move(from, t)
      BY <1>7, <2>1
    <3>2. \A d \in Channels : place[d] # t
      BY <1>16, <2>1
    <3>3. CASE place' = place
      BY <1>15, <3>2, <3>3
    <3>4. CASE \E c \in Channels : place[c] = from /\ place' = [place EXCEPT ![c] = t]
      BY <1>15, <1>17, <2>1, <3>2, <3>4
    <3>5. QED BY <1>15, <3>1, <3>3, <3>4, Moved
  <2>2. CASE op \in {"map", "recycle"}
    <3>1. PICK dest \in {"ring", "hash"} : Move(t, dest)
      BY <1>7, <2>2
    <3>2. CASE place' = place /\ \A c \in Channels : place[c] # t
      BY <1>15, <3>2
    <3>3. CASE \E c \in Channels : place[c] = t /\ place' = [place EXCEPT ![c] = dest]
      BY <1>15, <1>16, <1>17, <3>3
    <3>4. QED BY <1>15, <3>1, <3>2, <3>3, Moved
  <2>3. CASE op \notin {"take", "unmap", "map", "recycle"}
    <3>1. place' = place
      BY <1>7, <2>3
    <3>2. QED BY <1>15, <1>16, <2>3, <3>1
  <2>4. QED BY <2>1, <2>2, <2>3
<1>19. Carried'
  <2> SUFFICES ASSUME NEW c \in Channels, place'[c] \in Threads
               PROVE  /\ todo'[place'[c]] # <<>>
                      /\ Head(todo'[place'[c]]) \in {"map", "recycle"}
                      /\ \A d \in Channels : place'[d] = place'[c] => d = c
    BY DEF Carried
  <2>1. CASE place'[c] = t
    <3>1. op \in {"take", "unmap"} /\ \A d \in Channels : place'[d] = t => d = c
      BY <1>18, <2>1
    <3>2. todo'[t] = rest
      BY <1>8, <1>10, <3>1
    <3>3. QED BY <1>5, <2>1, <3>1, <3>2
  <2>2. CASE place'[c] # t
    <3> DEFINE u == place'[c]
    <3>1. u \in Threads /\ u # t /\ place[c] = u /\ todo'[u] = todo[u]
          /\ \A d \in Channels : place'[d] = u <=> place[d] = u
      BY <1>10, <1>18, <2>2
    <3> HIDE DEF u
    <3>2. todo[u] # <<>> /\ Head(todo[u]) \in {"map", "recycle"}
          /\ \A d \in Channels : place[d] = u => d = c
      BY <3>1 DEF IInv, Carried
    <3>3. QED BY <3>1, <3>2 DEF u
  <2>3. QED BY <2>1, <2>2
<1>20. TypeOK'
  <2>1. bad' \subseteq Resources
    BY <1>9 DEF FreedUnused, Resources
  <2>2. QED BY <1>1, <1>10, <1>14, <1>18, <2>1 DEF IInv, TypeOK
<1>21. Course'
  <2>1. phase = "started" => Started'
    BY <1>1 DEF IInv, Course, Started
  <2>2. phase \in {"deleting", "done"} => Deleting'
    <3> SUFFICES ASSUME phase \in {"deleting", "done"} PROVE Deleting'
      OBVIOUS
    <3>1. Deleting /\ Len(plan) > 8 /\ Len(plan) \in Nat
      BY <1>6, LenProperties DEF IInv, Course, Deleting, Left
    <3>2. QED BY <1>1, <3>1 DEF Deleting
  <2>3. QED BY <1>1, <1>6, <2>1, <2>2 DEF Course
<1>22. QED BY <1>9, <1>11, <1>13, <1>19, <1>20, <1>21 DEF IInv

\* The next operation of the owner's call.
LEMMA OwnStep ==
  ASSUME IInv, Own
  PROVE  IInv'
<1> DEFINE op == Head(plan)[1]
           x  == Head(plan)[2]
           n  == Len(plan)
<1>1. /\ plan # <<>> /\ plan' = Tail(plan)
      /\ phase' = IF phase = "deleting" /\ n = 1 THEN "done" ELSE phase
      /\ UNCHANGED <<build, peerCur, todo, owner, depth>>
      /\ Touch({"mod", x})
  BY DEF Own, lock
<1>2. CASE phase = "started"
  <2>1. Started /\ Left(plan, Starting, 5)
    BY <1>2 DEF IInv, Course, Started
  <2>2. /\ n \in 1..5 /\ Head(plan) = Starting[(5 - n) + 1] /\ Left(plan', Starting, 5)
        /\ Len(plan') = n - 1 /\ plan' \in Seq(OwnerOps)
    <3>1. /\ n \in 1..5 /\ Head(plan) = Starting[(5 - n) + 1]
          /\ Left(Tail(plan), Starting, 5) /\ Len(Tail(plan)) = n - 1
      BY <1>1, <2>1, LeftTail
    <3>2. plan' = Tail(plan)
      BY <1>1
    <3>3. QED BY <3>1, <3>2 DEF Left
  <2>3. /\ n = 5 => op = "count" /\ x = "peers"
        /\ n = 4 => op = "run" /\ x = "epollThread"
        /\ n = 3 => op = "create" /\ x = "epollThread"
        /\ n = 2 => op = "run" /\ x = "monitorThread"
        /\ n = 1 => op = "create" /\ x = "monitorThread"
        /\ n \in {1, 2, 3, 4, 5}
    <3>1. /\ Starting[1] = <<"count", "peers">> /\ Starting[2] = <<"run", "epollThread">>
          /\ Starting[3] = <<"create", "epollThread">>
          /\ Starting[4] = <<"run", "monitorThread">>
          /\ Starting[5] = <<"create", "monitorThread">>
      BY DEF Starting
    <3> DEFINE o == Head(plan)
    <3>2. o = Starting[6 - n] /\ n \in 1..5
      BY <2>2
    <3> HIDE DEF o, n
    <3>3. /\ n = 5 => o = <<"count", "peers">>
          /\ n = 4 => o = <<"run", "epollThread">>
          /\ n = 3 => o = <<"create", "epollThread">>
          /\ n = 2 => o = <<"run", "monitorThread">>
          /\ n = 1 => o = <<"create", "monitorThread">>
          /\ n \in {1, 2, 3, 4, 5}
      BY <3>1, <3>2
    <3>4. op = o[1] /\ x = o[2]
      BY DEF o
    <3> HIDE DEF op, x
    <3>5. QED BY <3>3, <3>4
  <2> HIDE DEF op, x, n
  <2>4. /\ op = "count"  => peerCount' = peerCur /\ UNCHANGED <<alive, place, running, up>>
        /\ op = "run"    => /\ running' = [running EXCEPT ![x] = TRUE]
                            /\ UNCHANGED <<peerCount, alive, place, up>>
        /\ op = "create" => /\ up' = [up EXCEPT ![x] = "up"]
                            /\ UNCHANGED <<peerCount, alive, place, running>>
    BY DEF Own, CountPeers, op, x
  <2>5. alive = Resources /\ phase' = "started" /\ alive' = alive /\ place' = place
    BY <1>1, <1>2, <2>1, <2>3, <2>4 DEF Started
  <2>6. FreedUnused'
    <3>1. {"mod", x} \subseteq Resources
      BY <2>3 DEF Resources, Threads
    <3>2. QED BY <1>1, <2>5, <3>1, Touched DEF IInv
  <2>7. /\ running' \in [Threads -> BOOLEAN] /\ up' \in [Threads -> {"none", "up", "ended"}]
        /\ peerCount' \in 0..peerCur'
    <3>1. /\ running \in [Threads -> BOOLEAN] /\ up \in [Threads -> {"none", "up", "ended"}]
          /\ peerCount \in 0..peerCur /\ peerCur \in 0..ServerCount
      BY DEF IInv, TypeOK
    <3>2. running' = running \/ running' = [running EXCEPT ![x] = TRUE]
      BY <2>3, <2>4
    <3>3. running' \in [Threads -> BOOLEAN]
      BY <3>1, <3>2
    <3>4. up' \in [Threads -> {"none", "up", "ended"}]
      BY <2>3, <2>4, <3>1
    <3>5. peerCount' \in 0..peerCur'
      BY <1>1, <2>3, <2>4, <3>1 DEF ServerCountAssumption
    <3>6. QED BY <3>3, <3>4, <3>5
  <2>8. TypeOK'
    <3>1. bad' \subseteq Resources
      BY <2>6 DEF FreedUnused, Resources
    <3>2. QED BY <1>1, <1>2, <2>2, <2>5, <2>7, <3>1 DEF IInv, TypeOK, OwnerOps
  <2>9. \A t \in Threads : up[t] = "up" => up'[t] = "up"
    BY <2>3, <2>4 DEF IInv, TypeOK
  <2>10. Programs'
    BY <1>1, <2>5, <2>9 DEF IInv, Programs
  <2>11. Mutual' /\ Carried'
    BY <1>1, <2>5 DEF IInv, Mutual, Holds, Carried
  <2>12. Started'
    <3>1. /\ Len(plan') \in 0..4 /\ Len(plan') = n - 1
      BY <2>2 DEF n
    <3>2. \A t \in Threads : up'[t] # "ended"
      BY <2>1, <2>3, <2>4 DEF Started, IInv, TypeOK
    <3>3. Len(plan') <= 3 => running'["epollThread"]
      BY <2>1, <2>3, <2>4, <3>1 DEF Started, IInv, TypeOK, Threads, n
    <3>4. Len(plan') <= 1 => running'["monitorThread"]
      BY <2>1, <2>3, <2>4, <3>1 DEF Started, IInv, TypeOK, Threads, n
    <3>5. up'["epollThread"] = "up" => Len(plan') <= 2
      BY <2>1, <2>3, <2>4, <3>1 DEF Started, IInv, TypeOK, Threads, n
    <3>6. up'["monitorThread"] = "up" => Len(plan') = 0
      BY <2>1, <2>3, <2>4, <3>1 DEF Started, IInv, TypeOK, Threads, n
    <3>7. QED BY <2>2, <2>5, <3>2, <3>3, <3>4, <3>5, <3>6 DEF Started
  <2>13. Course'
    BY <2>5, <2>12 DEF Course
  <2>14. QED BY <2>6, <2>8, <2>10, <2>11, <2>13 DEF IInv
<1>3. CASE phase \in {"deleting", "done"}
  <2>1. Deleting /\ Left(plan, Deletion, 15) /\ phase = "deleting"
    BY <1>1, <1>3 DEF IInv, Course, Deleting
  <2>2. /\ n \in 1..15 /\ Head(plan) = Deletion[(15 - n) + 1] /\ Left(plan', Deletion, 15)
        /\ Len(plan') = n - 1 /\ plan' \in Seq(OwnerOps)
    <3>1. /\ n \in 1..15 /\ Head(plan) = Deletion[(15 - n) + 1]
          /\ Left(Tail(plan), Deletion, 15) /\ Len(Tail(plan)) = n - 1
      BY <1>1, <2>1, LeftTail
    <3>2. plan' = Tail(plan)
      BY <1>1
    <3>3. QED BY <3>1, <3>2 DEF Left
  <2>3. /\ op \in {"stop", "join", "empty", "free"} /\ x \in Resources
        /\ Freed(x) < n
        /\ op = "free" => Freed(x) = n - 1
        /\ op # "free" => \A r \in Resources : Freed(r) # n - 1
        /\ op = "stop" => x \in Threads
        /\ op = "join" => n \in {9, 12}
        /\ n = 12 => op = "join" /\ x = "epollThread"
        /\ n = 9 => op = "join" /\ x = "monitorThread"
        /\ op = "empty" => n \in {5, 7}
        /\ n = 7 => op = "empty" /\ x = "hash"
        /\ n = 5 => op = "empty" /\ x = "ring"
    <3>1. Head(plan) = Deletion[16 - n]
      BY <2>2
    <3>2. QED BY <2>2, <3>1, DeletionFacts
  <2> HIDE DEF op, x, n
  <2>4. /\ op = "stop"  => Stop(x) /\ UNCHANGED <<peerCount, alive, place, up>>
        /\ op = "join"  => /\ up[x] # "up"
                           /\ UNCHANGED <<peerCount, alive, place, running, up>>
        /\ op = "empty" => /\ place' = [c \in Channels |->
                                IF place[c] = x THEN "freed" ELSE place[c]]
                           /\ UNCHANGED <<peerCount, alive, running, up>>
        /\ op = "free"  => /\ alive' = alive \ {x}
                           /\ UNCHANGED <<peerCount, place, running, up>>
    BY DEF Own, op, x
  <2>5. /\ alive = {r \in Resources : n > Freed(r)} /\ \A r \in Resources : Freed(r) \in 0..14
        /\ n \in Nat
    <3>1. \A r \in Resources : Freed(r) \in 0..14
      BY FreedIs
    <3>2. QED BY <2>1, <2>2, <3>1 DEF Deleting, n
  <2>6. alive' = {r \in Resources : n - 1 > Freed(r)}
    <3>1. CASE op = "free"
      <4>1. \A r \in Resources : r # x => Freed(r) # n - 1
        BY <2>3, <3>1, FreedIs DEF Resources, Threads
      <4>2. QED BY <2>3, <2>4, <2>5, <3>1, <4>1
    <3>2. CASE op # "free"
      BY <2>3, <2>4, <2>5, <3>2
    <3>3. QED BY <3>1, <3>2
  <2>7. FreedUnused'
    <3>1. Freed("mod") = 0 /\ "mod" \in Resources
      BY FreedIs DEF Resources
    <3>2. {"mod", x} \subseteq alive
      BY <2>2, <2>3, <2>5, <3>1 DEF n
    <3>3. QED BY <1>1, <3>2, Touched DEF IInv
  <2>8. up' = up /\ peerCount' = peerCount /\ running' \in [Threads -> BOOLEAN]
    <3>1. running \in [Threads -> BOOLEAN]
      BY DEF IInv, TypeOK
    <3>2. op = "stop" => running' \in [Threads -> BOOLEAN]
      BY <2>4, <3>1 DEF Stop
    <3>3. QED BY <2>3, <2>4, <3>1, <3>2
  <2>9. place' \in [Channels -> {"ring", "hash", "freed"} \cup Threads]
    BY <2>3, <2>4 DEF IInv, TypeOK
  <2>10. \A c \in Channels : place'[c] \in {place[c], "freed"}
    BY <2>3, <2>4 DEF IInv, TypeOK
  <2>11. TypeOK'
    <3>1. bad' \subseteq Resources
      BY <2>7 DEF FreedUnused, Resources
    <3>2. phase' \in {"deleting", "done"}
      BY <1>1, <2>1
    <3>3. QED BY <1>1, <2>2, <2>6, <2>8, <2>9, <3>1, <3>2 DEF IInv, TypeOK, OwnerOps
  <2>12. Programs' /\ Mutual'
    <3>1. alive' \subseteq alive
      BY <2>5, <2>6
    <3>2. QED BY <1>1, <2>8, <3>1 DEF IInv, Programs, Mutual, Holds
  <2>13. Carried'
    <3>1. "freed" \notin Threads
      BY DEF Threads
    <3>2. QED BY <1>1, <2>10, <3>1 DEF IInv, Carried
  <2>14. Deleting'
    <3>1. Len(plan') = n - 1 /\ n \in 1..15
      BY <2>2 DEF n
    <3>2. phase' = "done" <=> plan' = <<>>
      <4>1. plan' = <<>> <=> Len(plan') = 0
        BY <2>2, EmptySeq
      <4>2. QED BY <1>1, <2>1, <3>1, <4>1
    <3>3. n - 1 <= 11 => up'["epollThread"] # "up"
      <4>1. CASE n = 12
        BY <2>3, <2>4, <2>8, <4>1
      <4>2. CASE n <= 11
        BY <2>1, <2>8, <4>2 DEF Deleting, n
      <4>3. QED BY <3>1, <4>1, <4>2
    <3>4. n - 1 <= 8 => up'["monitorThread"] # "up"
      <4>1. CASE n = 9
        BY <2>3, <2>4, <2>8, <4>1
      <4>2. CASE n <= 8
        BY <2>1, <2>8, <4>2 DEF Deleting, n
      <4>3. QED BY <3>1, <4>1, <4>2
    <3>5. n - 1 <= 6 => \A c \in Channels : place'[c] # "hash"
      <4>1. CASE n = 7
        BY <2>3, <2>4, <4>1
      <4>2. CASE n <= 6
        BY <2>1, <2>10, <4>2 DEF Deleting, n
      <4>3. QED BY <3>1, <4>1, <4>2
    <3>6. n - 1 <= 4 => \A c \in Channels : place'[c] # "ring"
      <4>1. CASE n = 5
        BY <2>3, <2>4, <4>1
      <4>2. CASE n <= 4
        BY <2>1, <2>10, <4>2 DEF Deleting, n
      <4>3. QED BY <3>1, <4>1, <4>2
    <3>7. QED BY <2>2, <2>6, <3>1, <3>2, <3>3, <3>4, <3>5, <3>6 DEF Deleting
  <2>15. Course'
    BY <1>1, <2>1, <2>14 DEF Course
  <2>16. QED BY <2>7, <2>11, <2>12, <2>13, <2>15 DEF IInv
<1>4. phase # "ready"
  BY <1>1 DEF IInv, Course, Ready
<1>5. QED BY <1>2, <1>3, <1>4 DEF IInv, TypeOK

-----------------------------------------------------------------------------
(***************************************************************************)
(* The theorems.                                                           *)
(***************************************************************************)
LEMMA IInvHolds == Spec => []IInv
<1>1. Init => IInv
  BY InitHolds
<1>2. IInv /\ [Next]_vars => IInv'
  <2> SUFFICES ASSUME IInv, [Next]_vars PROVE IInv'
    OBVIOUS
  <2>1. CASE Next
    <3>1. CASE hsModAddPeer \/ hsModSend
      BY <3>1, AddOrSend
    <3>2. CASE hsModStart \/ hsModDelete
      BY <3>2, Calls
    <3>3. CASE Own
      BY <3>3, OwnStep
    <3>4. ASSUME NEW t \in Threads, Loop(t) PROVE IInv'
      BY <3>4, LoopStep
    <3>5. ASSUME NEW t \in Threads, Step(t) PROVE IInv'
      BY <3>5, ThreadStep
    <3>6. QED BY <2>1, <3>1, <3>2, <3>3, <3>4, <3>5 DEF Next
  <2>2. CASE UNCHANGED vars
    <3>1. UNCHANGED <<build, phase, plan, peerCur, peerCount, alive, place, running, up, todo,
                      owner, depth, bad>>
      BY <2>2 DEF vars, counts, lock
    <3>2. TypeOK' /\ FreedUnused' /\ Programs' /\ Mutual' /\ Carried'
      BY <3>1 DEF IInv, TypeOK, FreedUnused, Programs, Mutual, Holds, Carried
    <3>3. Course'
      BY <3>1 DEF IInv, Course, Ready, Started, Deleting
    <3>4. QED BY <3>2, <3>3 DEF IInv
  <2>3. QED BY <2>1, <2>2
<1>3. QED BY <1>1, <1>2, PTL DEF Spec

\* The model's variables stay in their sets; connectionMutex is never locked a third
\* time by the thread that has it (onWrite calls getChannelBySockId, no more).
THEOREM TypeCorrect == Spec => []TypeOK
<1>1. IInv => TypeOK
  BY DEF IInv
<1>2. QED BY <1>1, IInvHolds, PTL

\* As long as the mutex is there a thread holds it as often as it has locked it and
\* not unlocked it, whichever of its turns each thread is in the middle of.
THEOREM LocksMatch == Spec => []LockMatches
<1>1. IInv => LockMatches
  <2> SUFFICES ASSUME IInv, "mutex" \in alive, NEW t \in Threads
               PROVE  Held(t) = IF owner = t THEN depth ELSE 0
    BY DEF LockMatches
  <2>1. Nested(todo[t], Holds(t), 0) /\ todo[t] \in Seq(Operations)
    BY DEF IInv, Mutual, TypeOK
  <2>2. Count(todo[t], "unlock") - Count(todo[t], "lock") = Holds(t)
    BY <2>1, HeldOfNested
  <2>3. QED BY <2>2 DEF Held, Count, Holds
<1>2. QED BY <1>1, IInvHolds, PTL

\* hsModDelete frees nothing that a thread which still runs goes on to use, the node's
\* address and the mutex apart.
THEOREM NothingFreedIsUsed == Spec => []FreedUnused
<1>1. IInv => FreedUnused
  BY DEF IInv
<1>2. QED BY <1>1, IInvHolds, PTL

\* A thread that hsModStart has created finds isRunning set: it does not end before
\* hsModDelete.
THEOREM ThreadsEndWhenDeleted == Spec => []EndsWhenDeleted
<1>1. IInv => EndsWhenDeleted
  BY DEF IInv, TypeOK, Course, Ready, Started, EndsWhenDeleted
<1>2. QED BY <1>1, IInvHolds, PTL

\* When hsModDelete returns it has freed every channel: none is left in the hands of
\* a thread that was stopped.
THEOREM AllChannelsFreed == Spec => []ChannelsFreed
<1>1. IInv => ChannelsFreed
  <2> SUFFICES ASSUME IInv, phase = "done", NEW c \in Channels
               PROVE  place[c] = "freed"
    BY DEF ChannelsFreed
  <2>1. Deleting /\ Len(plan) = 0
    BY DEF IInv, Course, Deleting
  <2>2. \A t \in Threads : up[t] # "up"
    BY <2>1 DEF Deleting, Threads
  <2>3. place[c] \notin Threads
    BY <2>2 DEF IInv, Carried, Programs
  <2>4. place[c] # "hash" /\ place[c] # "ring"
    BY <2>1 DEF Deleting
  <2>5. QED BY <2>3, <2>4 DEF IInv, TypeOK
<1>2. QED BY <1>1, IInvHolds, PTL
=============================================================================
