------------------------- MODULE RedisContextProofs -------------------------
(***************************************************************************)
(* Theorems about RedisContext, for any stack and answers, any options and *)
(* any number of addresses, descriptors, commands and connects: on every   *)
(* path through connecting the context keeps at most one descriptor and    *)
(* closes no other's, a connect that failed says so, the reader stays      *)
(* within its buffer and its stack whatever bytes it is fed, and the       *)
(* replies it gives are those of the server, in order and whole.           *)
(***************************************************************************)
EXTENDS RedisContext, SequenceTheorems, WellFoundedInduction, TLAPS

(***************************************************************************)
(* Induction, as a fact on sets of naturals.                               *)
(***************************************************************************)

\* A nonempty set of naturals has a least element.
LEMMA LeastNatural ==
    ASSUME NEW T, T \subseteq Nat, T # {}
    PROVE  \E x \in T : \A y \in T : x <= y
  <1> DEFINE R == OpToRel(<, Nat)
  <1>1. \E x \in T : \A y \in T : <<y, x>> \notin R
    BY NatLessThanWellFounded, WFMin
  <1>2. \A x, y \in Nat : y < x => <<y, x>> \in R
    BY DEF OpToRel
  <1> HIDE DEF R
  <1>3. \A x, y \in T : <<y, x>> \notin R => ~(y < x)
    BY <1>2
  <1>4. \E x \in T : \A y \in T : ~(y < x)
    BY <1>1, <1>3, Zenon
  <1> QED
    BY <1>4

\* A set of naturals with 0 and the successor of each member holds them all.
LEMMA SetInduction ==
    ASSUME NEW T, T \subseteq Nat, 0 \in T, \A n \in T : n + 1 \in T
    PROVE  T = Nat
  <1> SUFFICES ASSUME Nat \ T # {} PROVE FALSE
    OBVIOUS
  <1>1. PICK n \in Nat \ T : \A m \in Nat \ T : n <= m
    BY LeastNatural
  <1>2. n # 0 /\ n - 1 \in Nat
    OBVIOUS
  <1>3. n - 1 \in T
    BY <1>1, <1>2
  <1>4. (n - 1) + 1 \in T
    BY <1>3
  <1> QED
    BY <1>1, <1>2, <1>4

\* The least member of a set of integers that has one and a bound below.
LEMMA MinOf ==
    ASSUME NEW S, NEW a \in Nat, S # {}, \A x \in S : x \in Int /\ x >= a
    PROVE  Min(S) \in S /\ \A x \in S : Min(S) <= x
  <1>1. S \subseteq Nat
    OBVIOUS
  <1>2. \E x \in S : \A y \in S : x <= y
    BY <1>1, LeastNatural
  <1> QED
    BY <1>2 DEF Min

\* The greatest member of a set of naturals that has one and a bound.
LEMMA MaxOf ==
    ASSUME NEW S, NEW b \in Nat, S # {}, S \subseteq 0..b
    PROVE  Max(S) \in S /\ \A x \in S : Max(S) >= x
  <1> DEFINE T == {m \in 0..b : b - m \in S}
  <1>1. T \subseteq Nat
    OBVIOUS
  <1>2. T # {}
    <2>1. PICK x \in S : TRUE
      OBVIOUS
    <2>2. x \in 0..b
      OBVIOUS
    <2>3. b - x \in 0..b /\ b - (b - x) = x
      BY <2>2
    <2>4. b - x \in T
      BY <2>1, <2>3
    <2> QED
      BY <2>4
  <1>3. PICK m \in T : \A y \in T : m <= y
    <2> HIDE DEF T
    <2> QED
      BY <1>1, <1>2, LeastNatural
  <1>4. ASSUME NEW y \in S PROVE b - m >= y
    <2>1. y \in 0..b
      OBVIOUS
    <2>2. b - y \in 0..b /\ b - (b - y) = y
      BY <2>1
    <2>3. b - y \in T
      BY <2>2
    <2>4. m \in 0..b
      BY <1>3
    <2> HIDE DEF T
    <2>5. m <= b - y
      BY <1>3, <2>3
    <2> QED
      BY <2>1, <2>4, <2>5
  <1>5. b - m \in S
    BY <1>3
  <1> QED
    BY <1>4, <1>5 DEF Max

LEMMA ZeroIsNatural == 0 \in Nat
  OBVIOUS

\* f is base for 0, and for k what h makes of f for k - 1.
Iterates(f, n, base, h) == f[0] = base /\ \A k \in 1..n : f[k] = h[<<k, f[k - 1]>>]

\* There is a function that iterates h.
LEMMA Recursion ==
    ASSUME NEW N \in Nat, NEW S, NEW base \in S, NEW h \in [(1..N) \X S -> S]
    PROVE  \E f \in [0..N -> S] : Iterates(f, N, base, h)
  <1> USE DEF Iterates
  <1> DEFINE Is(n, f) == Iterates(f, n, base, h)
             T == {n \in Nat : n <= N => \E f \in [0..n -> S] : Is(n, f)}
  <1>1. 0 \in T
    <2>1. [k \in 0..0 |-> base] \in [0..0 -> S]
      OBVIOUS
    <2>2. Is(0, [k \in 0..0 |-> base])
      OBVIOUS
    <2> QED
      BY <2>1, <2>2
  <1>2. ASSUME NEW n \in T PROVE n + 1 \in T
    <2>1. n \in Nat
      OBVIOUS
    <2>2. SUFFICES ASSUME n + 1 <= N
                   PROVE  \E f \in [0..(n + 1) -> S] : Is(n + 1, f)
      BY <2>1
    <2>3. PICK f \in [0..n -> S] : Is(n, f)
      BY <1>2, <2>1, <2>2
    <2> DEFINE g == [k \in 0..(n + 1) |-> IF k <= n THEN f[k] ELSE h[<<n + 1, f[n]>>]]
    <2>4. f[n] \in S /\ <<n + 1, f[n]>> \in (1..N) \X S
      BY <2>1, <2>2
    <2>5. g \in [0..(n + 1) -> S]
      BY <2>1, <2>4
    <2>6. (\A k \in 0..n : g[k] = f[k]) /\ g[n + 1] = h[<<n + 1, g[n]>>]
      <3>1. \A k \in 0..n : k \in 0..(n + 1) /\ k <= n
        BY <2>1
      <3>2. n + 1 \in 0..(n + 1) /\ ~(n + 1 <= n) /\ n \in 0..n
        BY <2>1
      <3> QED
        BY <3>1, <3>2
    <2> HIDE DEF g
    <2>7. ASSUME NEW k \in 1..(n + 1) PROVE g[k] = h[<<k, g[k - 1]>>]
      <3>1. CASE k = n + 1
        <4>1. k - 1 = n
          BY <2>1, <3>1
        <4> QED
          BY <2>6, <3>1, <4>1
      <3>2. CASE k <= n
        <4>1. k \in 1..n /\ k \in 0..n /\ k - 1 \in 0..n
          BY <2>1, <3>2
        <4> QED
          BY <2>3, <2>6, <4>1
      <3> QED
        BY <2>1, <3>1, <3>2
    <2>8. g[0] = base
      BY <2>1, <2>3, <2>6
    <2>9. Is(n + 1, g)
      BY <2>7, <2>8
    <2> QED
      BY <2>5, <2>9
  <1>3. T \subseteq Nat
    OBVIOUS
  <1>4. T = Nat
    <2> HIDE DEF T
    <2> QED
      BY <1>1, <1>2, <1>3, SetInduction
  <1>5. N \in T
    BY <1>4
  <1> QED
    BY <1>5

\* What holds of a function for 0, and for k if for the one before, holds.
LEMMA RecursionType ==
    ASSUME NEW N \in Nat, NEW S, NEW v, v[0] \in S,
           \A k \in 1..N : v[k - 1] \in S => v[k] \in S
    PROVE  v[N] \in S
  <1> DEFINE T == {n \in Nat : n <= N => v[n] \in S}
  <1>1. 0 \in T
    OBVIOUS
  <1>2. ASSUME NEW n \in T PROVE n + 1 \in T
    <2>1. CASE n + 1 <= N
      <3>1. n + 1 \in 1..N /\ (n + 1) - 1 = n /\ n <= N
        BY <2>1
      <3> QED
        BY <3>1
    <2> QED
      BY <2>1
  <1>3. T \subseteq Nat
    OBVIOUS
  <1>4. T = Nat
    <2> HIDE DEF T
    <2> QED
      BY <1>1, <1>2, <1>3, SetInduction
  <1>5. N \in T
    BY <1>4
  <1> QED
    BY <1>5

\* The value of some digits is a natural number.
LEMMA ValueType ==
    ASSUME NEW s \in Seq(DOMAIN Digit), \A d \in DOMAIN Digit : Digit[d] \in Nat
    PROVE  Value(s) \in Nat
  <1> DEFINE N == Len(s)
             E(v) == v = [k \in 0..N |-> IF k = 0 THEN 0 ELSE 10 * v[k - 1] + Digit[s[k]]]
             h == [p \in (1..N) \X Nat |-> 10 * p[2] + Digit[s[p[1]]]]
  <1>1. N \in Nat /\ \A k \in 1..N : Digit[s[k]] \in Nat
    OBVIOUS
  <1>2. h \in [(1..N) \X Nat -> Nat]
    BY <1>1
  <1> PICK D : D = Nat
    OBVIOUS
  <1>3. \A k \in 1..N, x \in Nat : h[<<k, x>>] = 10 * x + Digit[s[k]]
    OBVIOUS
  <1>4. \E v : E(v)
    <2> HIDE DEF h, N
    <2>0. 0 \in D /\ h \in [(1..N) \X D -> D]
      BY <1>2
    <2>1. PICK f \in [0..N -> D] : Iterates(f, N, 0, h)
      BY <1>1, <2>0, Recursion, Zenon
    <2>2. \A k \in 1..N : f[k - 1] \in Nat
      BY <1>1
    <2>3. \A k \in 1..N : f[k] = 10 * f[k - 1] + Digit[s[k]]
      BY <1>3, <2>1, <2>2 DEF Iterates
    <2>4. \A k \in 0..N : k = 0 \/ k \in 1..N
      BY <1>1
    <2>5. \A k \in 0..N : f[k] = IF k = 0 THEN 0 ELSE 10 * f[k - 1] + Digit[s[k]]
      BY <2>1, <2>3, <2>4 DEF Iterates
    <2>6. E(f)
      BY <2>5
    <2> QED
      BY <2>6
  <1> DEFINE v == CHOOSE v : E(v)
  <1>5. v = [k \in 0..N |-> IF k = 0 THEN 0 ELSE 10 * v[k - 1] + Digit[s[k]]]
    BY <1>4
  <1>6. Value(s) = v[N]
    BY DEF Value
  <1> HIDE DEF v, N
  <1>7. v[0] \in Nat /\ \A k \in 1..N : v[k] = 10 * v[k - 1] + Digit[s[k]]
    BY <1>1, <1>5
  <1>8. \A k \in 1..N : v[k - 1] \in D => v[k] \in D
    <2>1. \A x, y \in Nat : 10 * x + y \in Nat
      OBVIOUS
    <2> QED
      BY <1>1, <1>7, <2>1
  <1>9. v[N] \in D
    <2>1. v[0] \in D
      BY <1>7
    <2> QED
      BY <1>1, <1>8, <2>1, RecursionType
  <1> QED
    BY <1>6, <1>9

\* A line stands for a number, if only for -1.
LEMMA LongLongType ==
    ASSUME NEW B, NEW line \in Seq(B)
    PROVE  readLongLong(line) \in Int
  <1> DEFINE signed == line # <<>> /\ line[1] \in {"-", "+"}
             digits == IF signed THEN Tail(line) ELSE line
  <1>1. digits \in Seq(B)
    OBVIOUS
  <1>2. ASSUME ToSet(digits) \subseteq DOMAIN Digit PROVE Value(digits) \in Nat
    <2> HIDE DEF digits
    <2>1. \A k \in 1..Len(digits) : digits[k] \in DOMAIN Digit
      BY <1>1, <1>2 DEF ToSet
    <2>2. digits \in Seq(DOMAIN Digit)
      BY <1>1, <2>1
    <2>3. \A d \in DOMAIN Digit : Digit[d] \in Nat
      BY DEF Digit
    <2> QED
      BY <2>2, <2>3, ValueType
  <1>3. readLongLong(line) = IF ToSet(digits) \subseteq DOMAIN Digit
                             THEN IF signed /\ line[1] = "-" THEN -Value(digits) ELSE Value(digits)
                             ELSE -1
    BY DEF readLongLong
  <1> HIDE DEF digits, signed
  <1> QED
    BY <1>2, <1>3

(***************************************************************************)
(* Sequences strung together.                                              *)
(***************************************************************************)

\* The partial results of FlattenSeq.
Flattens(f, s, n) == f[0] = <<>> /\ \A k \in 1..n : f[k] = f[k - 1] \o s[k]

\* Two sequences begin with the same n items.
Same(s, t, n) == \A k \in 1..n : s[k] = t[k]

\* There is only one function of partial results.
LEMMA FlattensOnce ==
    ASSUME NEW s, NEW t, NEW f, NEW g, NEW n \in Nat,
           Flattens(f, s, n), Flattens(g, t, n), Same(s, t, n)
    PROVE  f[n] = g[n]
  <1> DEFINE T == {k \in Nat : k <= n => f[k] = g[k]}
  <1>1. 0 \in T
    BY DEF Flattens
  <1>2. ASSUME NEW k \in T PROVE k + 1 \in T
    <2>1. CASE k + 1 <= n
      <3>1. k + 1 \in 1..n /\ (k + 1) - 1 = k /\ k <= n
        BY <2>1
      <3>2. f[k + 1] = f[k] \o s[k + 1] /\ g[k + 1] = g[k] \o t[k + 1]
        BY <3>1 DEF Flattens
      <3>3. f[k] = g[k] /\ s[k + 1] = t[k + 1]
        BY <3>1 DEF Same
      <3>4. f[k + 1] = g[k + 1]
        BY <3>2, <3>3, Zenon
      <3> QED
        BY <3>4
    <2>2. CASE ~(k + 1 <= n)
      BY <2>2
    <2> QED
      BY <2>1, <2>2
  <1>3. T \subseteq Nat
    OBVIOUS
  <1>4. T = Nat
    <2> HIDE DEF T
    <2> QED
      BY <1>1, <1>2, <1>3, SetInduction
  <1>5. n \in T
    BY <1>4
  <1> QED
    BY <1>5

\* FlattenSeq is the last partial result.
LEMMA FlattenRecursion ==
    ASSUME NEW B, NEW s \in Seq(Seq(B))
    PROVE  \E f : Flattens(f, s, Len(s)) /\ f[Len(s)] \in Seq(B) /\ FlattenSeq(s) = f[Len(s)]
  <1> DEFINE N == Len(s)
             h == [p \in (1..N) \X Seq(B) |-> p[2] \o s[p[1]]]
  <1>1. N \in Nat /\ \A k \in 1..N : s[k] \in Seq(B)
    OBVIOUS
  <1>2. h \in [(1..N) \X Seq(B) -> Seq(B)]
    <2>1. \A x, y \in Seq(B) : x \o y \in Seq(B)
      OBVIOUS
    <2>2. \A p \in (1..N) \X Seq(B) : p[2] \in Seq(B) /\ s[p[1]] \in Seq(B)
      BY <1>1
    <2> QED
      BY <2>1, <2>2
  <1>3. \A k \in 1..N, x \in Seq(B) : h[<<k, x>>] = x \o s[k]
    OBVIOUS
  <1>4. PICK f \in [0..N -> Seq(B)] : Iterates(f, N, <<>>, h)
    <2> HIDE DEF h, N
    <2>1. <<>> \in Seq(B)
      OBVIOUS
    <2> QED
      BY <1>1, <1>2, <2>1, Recursion, Zenon
  <1>5. Flattens(f, s, N)
    <2>1. \A k \in 1..N : k - 1 \in 0..N
      BY <1>1
    <2>2. \A k \in 1..N : f[k] = h[<<k, f[k - 1]>>] /\ f[k - 1] \in Seq(B)
      BY <1>4, <2>1 DEF Iterates
    <2> HIDE DEF h, N
    <2>3. \A k \in 1..N : f[k] = f[k - 1] \o s[k]
      BY <1>3, <2>2
    <2> QED
      BY <1>4, <2>3 DEF Flattens, Iterates
  <1>6. FlattenSeq(s) = f[N]
    <2>1. CASE N = 0
      <3>1. s = <<>>
        BY <2>1
      <3> QED
        BY <1>5, <2>1, <3>1 DEF Flattens, FlattenSeq
    <2>2. CASE N # 0
      <3> DEFINE E(v) == v = [i \in 1..N |-> IF i = 1 THEN s[i] ELSE v[i - 1] \o s[i]]
                 v0 == [i \in 1..N |-> f[i]]
      <3>1. E(v0)
        <4> HIDE DEF N
        <4>1. \A i \in 1..N : v0[i] = IF i = 1 THEN s[i] ELSE v0[i - 1] \o s[i]
          <5> TAKE i \in 1..N
          <5>1. CASE i = 1
            <6>0. 1 \in 1..N /\ 1 - 1 = 0
              BY <5>1
            <6>1. f[1] = <<>> \o s[1]
              BY <1>5, <6>0, Zenon DEF Flattens
            <6>2. s[1] \in Seq(B)
              BY <1>1, <5>1
            <6>3. <<>> \o s[1] = s[1]
              BY <6>2
            <6> QED
              BY <5>1, <6>1, <6>3
          <5>2. CASE i # 1
            <6>1. i - 1 \in 1..N
              BY <1>1, <5>2
            <6> QED
              BY <1>5, <5>2, <6>1, Zenon DEF Flattens
          <5> QED
            BY <5>1, <5>2
        <4>2. v0 = [i \in 1..N |-> v0[i]]
          OBVIOUS
        <4> HIDE DEF v0
        <4> QED
          BY <4>1, <4>2
      <3> DEFINE v == CHOOSE v : E(v)
      <3>2. E(v)
        BY <3>1, Zenon
      <3>3. FlattenSeq(s) = v[N]
        BY <2>2 DEF FlattenSeq
      <3> DEFINE g == [i \in 0..N |-> IF i = 0 THEN <<>> ELSE v[i]]
      <3> HIDE DEF v, N
      <3>4. Flattens(g, s, N)
        <4>1. g[0] = <<>>
          BY <1>1
        <4>2. ASSUME NEW k \in 1..N PROVE g[k] = g[k - 1] \o s[k]
          <5>1. k - 1 \in 0..N /\ k \in 0..N /\ k # 0 /\ s[k] \in Seq(B)
            BY <1>1
          <5>2. CASE k = 1
            <6>1. v[1] = s[1]
              BY <3>2, <5>2
            <6>2. g[k - 1] = <<>> /\ g[k] = v[k]
              BY <5>1, <5>2
            <6>3. <<>> \o s[k] = s[k]
              BY <5>1
            <6> QED
              BY <5>2, <6>1, <6>2, <6>3
          <5>3. CASE k # 1
            <6>1. v[k] = v[k - 1] \o s[k]
              BY <3>2, <5>3
            <6>2. k - 1 # 0
              BY <5>3
            <6>3. g[k - 1] = v[k - 1] /\ g[k] = v[k]
              BY <5>1, <6>2
            <6> QED
              BY <6>1, <6>3
          <5> QED
            BY <5>2, <5>3
        <4> QED
          BY <4>1, <4>2 DEF Flattens
      <3>5. f[N] = g[N]
        <4> HIDE DEF g
        <4> QED
          <5>1. Same(s, s, N)
            BY DEF Same
          <5> QED
            BY <1>1, <1>5, <3>4, <5>1, FlattensOnce
      <3>6. g[N] = v[N]
        BY <1>1, <2>2
      <3> QED
        BY <3>3, <3>5, <3>6
    <2> QED
      BY <2>1, <2>2
  <1>7. f[N] \in Seq(B)
    BY <1>1, <1>4
  <1> QED
    BY <1>5, <1>6, <1>7

\* One sequence more goes behind what was strung together.
LEMMA FlattenAppend ==
    ASSUME NEW B, NEW s \in Seq(Seq(B)), NEW x \in Seq(B)
    PROVE  /\ FlattenSeq(s) \in Seq(B)
           /\ FlattenSeq(Append(s, x)) = FlattenSeq(s) \o x
  <1> DEFINE more == Append(s, x)
             fin == Len(s)
  <1>1. /\ more \in Seq(Seq(B)) /\ Len(more) = fin + 1 /\ fin \in Nat
        /\ more[fin + 1] = x /\ \A k \in 1..fin : more[k] = s[k]
    OBVIOUS
  <1>2. PICK f : Flattens(f, s, fin) /\ f[fin] \in Seq(B) /\ FlattenSeq(s) = f[fin]
    BY FlattenRecursion
  <1> HIDE DEF more, fin
  <1>3. PICK g : Flattens(g, more, Len(more)) /\ FlattenSeq(more) = g[Len(more)]
    BY <1>1, FlattenRecursion
  <1>4. Flattens(g, more, fin) /\ g[fin + 1] = g[fin] \o x
    <2>1. fin + 1 \in 1..(fin + 1) /\ (fin + 1) - 1 = fin /\ \A k \in 1..fin : k \in 1..(fin + 1)
      BY <1>1
    <2> QED
      BY <1>1, <1>3, <2>1 DEF Flattens
  <1>5. f[fin] = g[fin]
    <2>1. Same(s, more, fin)
      BY <1>1 DEF Same
    <2> QED
      BY <1>1, <1>2, <1>4, <2>1, FlattensOnce
  <1> QED
    BY <1>1, <1>2, <1>3, <1>4, <1>5 DEF more

\* Nothing strung together is nothing.
LEMMA FlattenEmpty == FlattenSeq(<<>>) = <<>>
  BY DEF FlattenSeq

\* Sequences strung together are a sequence.
LEMMA FlattenType ==
    ASSUME NEW B, NEW s \in Seq(Seq(B))
    PROVE  FlattenSeq(s) \in Seq(B)
BY FlattenRecursion

(***************************************************************************)
(* The order of a reply's items.                                           *)
(***************************************************************************)

\* The first n items of a sequence.
LEMMA FirstItems ==
    ASSUME NEW B, NEW s \in Seq(B), NEW n \in 0..Len(s)
    PROVE  /\ SubSeq(s, 1, n) \in Seq(B) /\ Len(SubSeq(s, 1, n)) = n
           /\ \A m \in 1..n : SubSeq(s, 1, n)[m] = s[m]
  OBVIOUS

\* A sequence with one more item.
LEMMA OneMore ==
    ASSUME NEW B, NEW s \in Seq(B), NEW x \in B
    PROVE  /\ Append(s, x) \in Seq(B) /\ Len(Append(s, x)) = Len(s) + 1
           /\ Append(s, x)[Len(s) + 1] = x /\ \A m \in 1..Len(s) : Append(s, x)[m] = s[m]
  OBVIOUS

\* Sequences that agree on their first n items begin alike.
LEMMA SamePrefix ==
    ASSUME NEW B, NEW s \in Seq(B), NEW t \in Seq(B), NEW n \in Nat, n \in 0..Len(s), n \in 0..Len(t),
           \A m \in 1..n : s[m] = t[m]
    PROVE  SubSeq(t, 1, n) = SubSeq(s, 1, n)
  <1> PICK x : x = SubSeq(s, 1, n)
    OBVIOUS
  <1> PICK y : y = SubSeq(t, 1, n)
    OBVIOUS
  <1>1. /\ x \in Seq(B) /\ Len(x) = n /\ \A m \in 1..n : x[m] = s[m]
        /\ y \in Seq(B) /\ Len(y) = n /\ \A m \in 1..n : y[m] = t[m]
    BY FirstItems
  <1>2. \A m \in 1..n : x[m] = y[m]
    BY <1>1
  <1>3. x = y
    BY <1>1, <1>2
  <1> QED
    BY <1>3

\* No two places are each before the other.
LEMMA BeforeAsymmetric ==
    ASSUME NEW p \in Seq(Nat), NEW q \in Seq(Nat), Before(p, q)
    PROVE  ~Before(q, p) /\ p # q
  <1>0. /\ Len(p) \in Nat /\ DOMAIN p = 1..Len(p) /\ \A m \in DOMAIN p : p[m] \in Nat
        /\ Len(q) \in Nat /\ DOMAIN q = 1..Len(q) /\ \A m \in DOMAIN q : q[m] \in Nat
    OBVIOUS
  <1>1. CASE Len(p) < Len(q) /\ \A m \in DOMAIN p : p[m] = q[m]
    BY <1>0, <1>1 DEF Before
  <1>2. CASE \E n \in DOMAIN p \cap DOMAIN q : p[n] < q[n] /\ \A m \in 1..(n - 1) : p[m] = q[m]
    <2>1. PICK n \in DOMAIN p \cap DOMAIN q : p[n] < q[n] /\ \A m \in 1..(n - 1) : p[m] = q[m]
      BY <1>2
    <2>2. ASSUME NEW k \in DOMAIN p \cap DOMAIN q, q[k] < p[k], \A m \in 1..(k - 1) : q[m] = p[m]
          PROVE  FALSE
      <3>1. k \in Nat /\ n \in Nat /\ k >= 1 /\ n >= 1
        BY <1>0
      <3>2. CASE k < n
        <4>1. k \in 1..(n - 1)
          BY <3>1, <3>2
        <4> QED
          BY <1>0, <2>1, <2>2, <4>1
      <3>3. CASE n < k
        <4>1. n \in 1..(k - 1)
          BY <3>1, <3>3
        <4> QED
          BY <1>0, <2>1, <2>2, <4>1
      <3>4. CASE n = k
        BY <1>0, <2>1, <2>2, <3>4
      <3> QED
        BY <3>1, <3>2, <3>3, <3>4
    <2>3. ~(Len(q) < Len(p) /\ \A m \in DOMAIN q : q[m] = p[m])
      BY <1>0, <2>1
    <2>4. p # q
      BY <1>0, <2>1
    <2> QED
      BY <2>2, <2>3, <2>4 DEF Before
  <1> QED
    BY <1>1, <1>2 DEF Before

\* What AnswersAssumption says of an answer.
Answer(a) == a \in Seq(Item) /\ IsAnswer(a)

\* An answer has items, each at its place.
LEMMA ItemPath ==
    ASSUME NEW a, Answer(a)
    PROVE  /\ Len(a) \in Nat \ {0} /\ DOMAIN a = 1..Len(a)
           /\ \A i \in 1..Len(a) : a[i] \in Item /\ a[i].path \in Seq(Nat)
  <1>1. a \in Seq(Item) /\ a # <<>>
    BY DEF Answer, IsAnswer
  <1>2. Len(a) \in Nat \ {0} /\ DOMAIN a = 1..Len(a)
    BY <1>1
  <1>3. \A i \in 1..Len(a) : a[i] \in Item
    BY <1>1, <1>2
  <1>4. \A item \in Item : item.path \in Seq(Nat)
    BY DEF Item
  <1> QED
    BY <1>2, <1>3, <1>4

\* How many elements an item has is a number.
LEMMA ElementsType ==
    ASSUME NEW a, Answer(a), NEW i \in 1..Len(a)
    PROVE  Elements(a[i]) \in Int
  <1>1. a[i] \in Item
    BY ItemPath
  <1>2. a[i].text \in Seq(Token)
    BY <1>1 DEF Item
  <1> QED
    BY <1>2, LongLongType DEF Elements

\* The order of the places is that of the items.
LEMMA Precedes ==
    ASSUME NEW a, Answer(a), NEW i \in 1..Len(a), NEW j \in 1..Len(a)
    PROVE  /\ Before(a[i].path, a[j].path) <=> i < j
           /\ a[i].path = a[j].path => i = j
  <1>0. i \in Int /\ j \in Int /\ a[i].path \in Seq(Nat) /\ a[j].path \in Seq(Nat)
    BY ItemPath
  <1>1. i < j => Before(a[i].path, a[j].path)
    BY ItemPath DEF Answer, IsAnswer, InOrder
  <1>2. j < i => Before(a[j].path, a[i].path)
    BY ItemPath DEF Answer, IsAnswer, InOrder
  <1>3. i = j => a[i].path = a[j].path
    OBVIOUS
  <1>4. i < j \/ j < i \/ i = j
    BY <1>0
  <1>5. ~Before(a[i].path, a[i].path)
    BY <1>0, BeforeAsymmetric
  <1> QED
    BY <1>0, <1>1, <1>2, <1>3, <1>4, <1>5, BeforeAsymmetric

\* The first item is the root.
LEMMA RootFirst ==
    ASSUME NEW a, Answer(a)
    PROVE  a[1].path = <<>>
  <1> DEFINE p == a[1].path
  <1>1. 1 \in 1..Len(a) /\ p \in Seq(Nat)
    BY ItemPath
  <1> SUFFICES ASSUME p # <<>> PROVE FALSE
    OBVIOUS
  <1>2. 1 \in DOMAIN p
    BY <1>1
  <1>3. PICK j \in DOMAIN a : a[j].path = SubSeq(p, 1, 1 - 1)
    BY <1>1, <1>2, ItemPath DEF Answer, IsAnswer, HasParents
  <1>4. a[j].path = <<>>
    BY <1>1, <1>3
  <1>5. j \in 1..Len(a) /\ j # 1 /\ j \in Int
    BY <1>3, <1>4, ItemPath
  <1>6. Before(p, <<>>)
    BY <1>1, <1>4, <1>5, Precedes
  <1>7. DOMAIN <<>> = {} /\ Len(<<>>) = 0 /\ Len(p) \in Nat
    BY <1>1
  <1> QED
    BY <1>6, <1>7 DEF Before

\* What comes next is the least place after an item, if there is one.
LEMMA NextPlace ==
    ASSUME NEW a, Answer(a), NEW j \in 1..Len(a), ~Refused(a[j]), NEW c,
           Before(a[j].path, c),
           \/ \E i \in DOMAIN a : a[i].path = c
           \/ Refused(Last(a)) /\ \A i \in DOMAIN a : Before(a[i].path, c),
           \A k \in 1..Len(a) : ~(Before(a[j].path, a[k].path) /\ Before(a[k].path, c))
    PROVE  j < Len(a) /\ a[j + 1].path = c
  <1>0. Len(a) \in Nat /\ DOMAIN a = 1..Len(a) /\ j \in Nat
    BY ItemPath
  <1>1. CASE \E i \in DOMAIN a : a[i].path = c
    <2>1. PICK i \in 1..Len(a) : a[i].path = c
      BY <1>0, <1>1
    <2>2. j < i
      BY <2>1, Precedes
    <2>3. j + 1 \in 1..Len(a) /\ j < j + 1 /\ (j + 1 < i \/ j + 1 = i) /\ j < Len(a)
      BY <1>0, <2>2
    <2>4. Before(a[j].path, a[j + 1].path)
      BY <2>3, Precedes
    <2>5. ~(j + 1 < i)
      BY <2>1, <2>3, <2>4, Precedes
    <2> QED
      BY <2>1, <2>3, <2>5
  <1>2. CASE Refused(Last(a)) /\ \A i \in DOMAIN a : Before(a[i].path, c)
    <2>1. j # Len(a)
      BY <1>2 DEF Last
    <2> PICK n : n = Len(a)
      OBVIOUS
    <2>2. j + 1 \in 1..n /\ j < j + 1
      BY <1>0, <2>1
    <2>3. Before(a[j].path, a[j + 1].path) /\ Before(a[j + 1].path, c)
      BY <1>0, <1>2, <2>2, Precedes
    <2> QED
      BY <2>2, <2>3
  <1> QED
    BY <1>1, <1>2

\* After an item without elements comes one that leaves the path to it for a
\* later element of some array.
LEMMA LeavesPath ==
    ASSUME NEW a, Answer(a), NEW j \in 1..Len(a), ~(Elements(a[j]) > 0), NEW k \in 1..Len(a),
           Before(a[j].path, a[k].path)
    PROVE  \E d \in 1..Len(a[j].path) :
               /\ d <= Len(a[k].path) /\ a[j].path[d] < a[k].path[d]
               /\ \A m \in 1..(d - 1) : a[j].path[m] = a[k].path[m]
               /\ \E i \in 1..Len(a) : /\ a[i].path = SubSeq(a[j].path, 1, d - 1)
                                       /\ a[k].path[d] < Elements(a[i])
  <1> DEFINE p == a[j].path
             q == a[k].path
  <1>0. /\ p \in Seq(Nat) /\ Len(p) \in Nat /\ DOMAIN p = 1..Len(p)
        /\ q \in Seq(Nat) /\ Len(q) \in Nat /\ DOMAIN q = 1..Len(q)
        /\ DOMAIN a = 1..Len(a)
    BY ItemPath
  <1>1. ASSUME NEW d \in 1..Len(q)
        PROVE  \E i \in 1..Len(a) : a[i].path = SubSeq(q, 1, d - 1) /\ q[d] < Elements(a[i])
    BY <1>0 DEF Answer, IsAnswer, HasParents
  <1>2. ~(Len(p) < Len(q) /\ \A m \in DOMAIN p : p[m] = q[m])
    <2> SUFFICES ASSUME Len(p) < Len(q), \A m \in 1..Len(p) : p[m] = q[m] PROVE FALSE
      BY <1>0
    <2>1. Len(p) + 1 \in 1..Len(q) /\ (Len(p) + 1) - 1 = Len(p)
      BY <1>0
    <2>2. PICK i \in 1..Len(a) : a[i].path = SubSeq(q, 1, Len(p)) /\ q[Len(p) + 1] < Elements(a[i])
      BY <1>1, <2>1
    <2>3. SubSeq(q, 1, Len(p)) = p
      <3> HIDE DEF p, q
      <3>1. SubSeq(q, 1, Len(p)) \in Seq(Nat) /\ Len(SubSeq(q, 1, Len(p))) = Len(p)
        BY <1>0
      <3>2. \A m \in 1..Len(p) : SubSeq(q, 1, Len(p))[m] = p[m]
        BY <1>0
      <3> QED
        BY <1>0, <3>1, <3>2
    <2>4. i = j
      <3>1. a[i].path = a[j].path
        BY <2>2, <2>3
      <3> QED
        BY <3>1, Precedes
    <2>5. q[Len(p) + 1] \in Nat
      BY <1>0, <2>1
    <2>6. Elements(a[j]) \in Int
      BY ElementsType
    <2> QED
      BY <2>2, <2>4, <2>5, <2>6
  <1>3. PICK d \in DOMAIN p \cap DOMAIN q : p[d] < q[d] /\ \A m \in 1..(d - 1) : p[m] = q[m]
    BY <1>2 DEF Before
  <1>7. d \in 1..Len(p) /\ d \in 1..Len(q) /\ d \in Nat /\ d - 1 \in Nat
    BY <1>0
  <1>4. PICK i \in 1..Len(a) : a[i].path = SubSeq(q, 1, d - 1) /\ q[d] < Elements(a[i])
    BY <1>0, <1>1, <1>3
  <1>5. SubSeq(q, 1, d - 1) = SubSeq(p, 1, d - 1)
    <2> HIDE DEF p, q
    <2>1. d - 1 \in 0..Len(p) /\ d - 1 \in 0..Len(q)
      BY <1>0, <1>7
    <2>2. \A m \in 1..(d - 1) : p[m] = q[m]
      BY <1>3
    <2> QED
      BY <1>0, <1>7, <2>1, <2>2, SamePrefix
  <1>6. /\ d <= Len(q) /\ p[d] < q[d]
        /\ \A m \in 1..(d - 1) : p[m] = q[m]
        /\ a[i].path = SubSeq(p, 1, d - 1) /\ q[d] < Elements(a[i])
    BY <1>3, <1>7, <1>4, <1>5
  <1> QED
    BY <1>7, <1>6
\* The last item of a reply ends each array it is in.
LEMMA NoMoreItems ==
    ASSUME NEW a, Answer(a), NEW j \in 1..Len(a), ~(Elements(a[j]) > 0),
           \A d \in 1..Len(a[j].path) : \A i \in 1..Len(a) :
               a[i].path = SubSeq(a[j].path, 1, d - 1) => ~(a[j].path[d] + 1 < Elements(a[i]))
    PROVE  j = Len(a)
  <1> PICK n : n = Len(a)
    OBVIOUS
  <1>0. n \in Nat /\ j \in 1..n /\ a[j].path \in Seq(Nat)
    BY ItemPath
  <1> SUFFICES ASSUME j # n PROVE FALSE
    OBVIOUS
  <1>1. j + 1 \in 1..n /\ j < j + 1
    BY <1>0
  <1>2. Before(a[j].path, a[j + 1].path)
    BY <1>1, Precedes
  <1>3. PICK d \in 1..Len(a[j].path) :
               /\ d <= Len(a[j + 1].path) /\ a[j].path[d] < a[j + 1].path[d]
               /\ \E i \in 1..Len(a) : /\ a[i].path = SubSeq(a[j].path, 1, d - 1)
                                       /\ a[j + 1].path[d] < Elements(a[i])
    BY <1>1, <1>2, LeavesPath
  <1>4. PICK i \in 1..Len(a) : a[i].path = SubSeq(a[j].path, 1, d - 1) /\ a[j + 1].path[d] < Elements(a[i])
    BY <1>3
  <1>5. a[j].path[d] \in Nat /\ a[j + 1].path[d] \in Nat /\ Elements(a[i]) \in Int
    <2>1. a[j + 1].path \in Seq(Nat) /\ d \in 1..Len(a[j + 1].path)
      BY <1>1, <1>3, ItemPath
    <2>2. a[j].path[d] \in Nat
      BY <1>0
    <2>3. a[j + 1].path[d] \in Nat
      BY <2>1
    <2>4. Elements(a[i]) \in Int
      BY ElementsType
    <2> QED
      BY <2>2, <2>3, <2>4
  <1>6. a[j].path[d] + 1 < Elements(a[i])
    <2>1. \A x, y \in Nat, z \in Int : x < y /\ y < z => x + 1 < z
      OBVIOUS
    <2>2. a[j].path[d] < a[j + 1].path[d] /\ a[j + 1].path[d] < Elements(a[i])
      BY <1>3, <1>4, Zenon
    <2> QED
      BY <1>5, <2>1, <2>2, Zenon
  <1> QED
    BY <1>4, <1>6

\* After an item without elements comes the next element of the innermost
\* array that is not complete.
LEMMA NextSibling ==
    ASSUME NEW a, Answer(a), NEW j \in 1..Len(a), ~Refused(a[j]), ~(Elements(a[j]) > 0),
           NEW n \in 1..Len(a[j].path), NEW i \in 1..Len(a),
           a[i].path = SubSeq(a[j].path, 1, n - 1), a[j].path[n] + 1 < Elements(a[i]),
           \A d \in (n + 1)..Len(a[j].path) : \A k \in 1..Len(a) :
               a[k].path = SubSeq(a[j].path, 1, d - 1) => ~(a[j].path[d] + 1 < Elements(a[k]))
    PROVE  j < Len(a) /\ a[j + 1].path = Append(SubSeq(a[j].path, 1, n - 1), a[j].path[n] + 1)
  <1> DEFINE p == a[j].path
             c == Append(SubSeq(p, 1, n - 1), p[n] + 1)
  <1>0. p \in Seq(Nat) /\ Len(p) \in Nat /\ DOMAIN p = 1..Len(p) /\ n \in 1..Len(p) /\ p[n] \in Nat
    BY ItemPath
  <1>1. /\ c \in Seq(Nat) /\ Len(c) = n /\ DOMAIN c = 1..n /\ c[n] = p[n] + 1
        /\ \A m \in 1..(n - 1) : c[m] = p[m]
    <2> PICK x : x = SubSeq(p, 1, n - 1)
      OBVIOUS
    <2>1. n - 1 \in 0..Len(p)
      BY <1>0
    <2>2. x \in Seq(Nat) /\ Len(x) = n - 1 /\ \A m \in 1..(n - 1) : x[m] = p[m]
      BY <1>0, <2>1, FirstItems
    <2>3. c = Append(x, p[n] + 1)
      OBVIOUS
    <2> PICK y : y = p[n] + 1
      OBVIOUS
    <2>4. c = Append(x, y) /\ y \in Nat /\ n \in Nat
      BY <1>0, <2>3
    <2>5. c \in Seq(Nat) /\ Len(c) = n /\ c[n] = y /\ \A m \in 1..(n - 1) : c[m] = x[m]
      <3>1. Append(x, y) \in Seq(Nat) /\ Len(Append(x, y)) = Len(x) + 1 /\ Append(x, y)[Len(x) + 1] = y
            /\ \A m \in 1..Len(x) : Append(x, y)[m] = x[m]
        BY <2>2, <2>4, OneMore
      <3>2. Len(x) = n - 1 /\ (n - 1) + 1 = n
        BY <2>2, <2>4
      <3> HIDE DEF c, p
      <3> QED
        BY <2>4, <3>1, <3>2
    <2> HIDE DEF c, p
    <2>6. DOMAIN c = 1..n
      BY <2>5
    <2> QED
      BY <2>2, <2>5, <2>6
  <1>2. Before(p, c)
    <2> HIDE DEF c, p
    <2>1. n \in DOMAIN p \cap DOMAIN c /\ p[n] < c[n] /\ \A m \in 1..(n - 1) : p[m] = c[m]
      BY <1>0, <1>1
    <2> QED
      BY <2>1 DEF Before
  <1>3. \/ \E k \in DOMAIN a : a[k].path = c
        \/ Refused(Last(a)) /\ \A k \in DOMAIN a : Before(a[k].path, c)
    <2>1. p[n] + 1 \in 0..(Elements(a[i]) - 1)
      <3>1. Elements(a[i]) \in Int /\ p[n] + 1 < Elements(a[i])
        BY ElementsType
      <3> HIDE DEF p
      <3> QED
        BY <1>0, <3>1
    <2>2. i \in DOMAIN a
      BY ItemPath
    <2> QED
      BY <2>1, <2>2 DEF Answer, IsAnswer, HasElements
  <1>4. ASSUME NEW k \in 1..Len(a), Before(p, a[k].path), Before(a[k].path, c) PROVE FALSE
    <2> DEFINE q == a[k].path
    <2>0. q \in Seq(Nat) /\ Len(q) \in Nat /\ DOMAIN q = 1..Len(q)
      BY ItemPath
    <2>1. PICK d \in 1..Len(p) :
               /\ d <= Len(q) /\ p[d] < q[d]
               /\ \A m \in 1..(d - 1) : p[m] = q[m]
               /\ \E h \in 1..Len(a) : a[h].path = SubSeq(p, 1, d - 1) /\ q[d] < Elements(a[h])
      BY <1>4, LeavesPath
    <2>2. PICK h \in 1..Len(a) : a[h].path = SubSeq(p, 1, d - 1) /\ q[d] < Elements(a[h])
      BY <2>1
    <2>3. d \in Nat /\ p[d] \in Nat /\ q[d] \in Nat /\ Elements(a[h]) \in Int /\ d \in 1..Len(q)
      <3>1. Elements(a[h]) \in Int
        BY ElementsType
      <3> HIDE DEF p, q
      <3>2. d \in Nat /\ d \in 1..Len(q)
        BY <1>0, <2>0, <2>1
      <3>3. p[d] \in Nat
        BY <1>0
      <3>4. q[d] \in Nat
        BY <2>0, <3>2
      <3> QED
        BY <3>1, <3>2, <3>3, <3>4
    <2>4. d <= n
      <3> SUFFICES ASSUME ~(d <= n) PROVE FALSE
        OBVIOUS
      <3>1. d \in (n + 1)..Len(p)
        BY <1>0, <2>3
      <3>2. ~(p[d] + 1 < Elements(a[h]))
        BY <2>2, <3>1
      <3>3. p[d] < q[d] /\ q[d] < Elements(a[h])
        BY <2>1, <2>2, Zenon
      <3>4. \A x, y \in Nat, z \in Int : x < y /\ y < z => x + 1 < z
        OBVIOUS
      <3> QED
        BY <2>3, <3>2, <3>3, <3>4, Zenon
    <2>5. c = q \/ Before(c, q)
      <3> HIDE DEF c, p, q
      <3>1. CASE d < n
        <4>1. d \in 1..(n - 1) /\ c[d] = p[d] /\ d \in DOMAIN c \cap DOMAIN q
          BY <1>0, <1>1, <2>0, <2>3, <3>1
        <4>2. \A m \in 1..(d - 1) : c[m] = q[m]
          <5> SUFFICES ASSUME NEW m \in 1..(d - 1) PROVE c[m] = q[m]
            OBVIOUS
          <5>1. m \in 1..(n - 1)
            BY <1>0, <2>0, <2>3, <3>1
          <5>2. c[m] = p[m] /\ p[m] = q[m]
            BY <1>1, <2>1, <5>1
          <5> QED
            BY <5>2
        <4> QED
          BY <2>1, <4>1, <4>2 DEF Before
      <3>2. CASE d = n
        <4>1. n \in DOMAIN c \cap DOMAIN q /\ (c[n] < q[n] \/ c[n] = q[n])
          <5>1. n \in DOMAIN q /\ n \in DOMAIN c /\ p[n] < q[n] /\ p[n] \in Nat /\ q[n] \in Nat
            BY <1>0, <1>1, <2>0, <2>1, <2>3, <3>2
          <5>2. \A x, y \in Nat : x < y => x + 1 < y \/ x + 1 = y
            OBVIOUS
          <5> QED
            BY <1>1, <5>1, <5>2
        <4>2. \A m \in 1..(n - 1) : c[m] = q[m]
          BY <1>1, <2>1, <3>2
        <4>3. CASE c[n] < q[n]
          BY <4>1, <4>2, <4>3 DEF Before
        <4>4. CASE c[n] = q[n]
          <5>1. \A m \in 1..n : c[m] = q[m]
            <6>1. \A m \in 1..n : m = n \/ m \in 1..(n - 1)
              BY <1>0
            <6> QED
              BY <4>2, <4>4, <6>1
          <5>2. CASE Len(q) = n
            BY <1>1, <2>0, <5>1, <5>2
          <5>3. CASE n < Len(q)
            BY <1>1, <5>1, <5>3 DEF Before
          <5>4. n <= Len(q) /\ n \in Nat
            BY <1>0, <2>1, <3>2
          <5>5. Len(q) = n \/ n < Len(q)
            <6>1. \A x, y \in Nat : x <= y => y = x \/ x < y
              OBVIOUS
            <6>2. Len(q) \in Nat
              BY <2>0
            <6> QED
              BY <5>4, <6>1, <6>2, Zenon
          <5> QED
            BY <5>2, <5>3, <5>5, Zenon
        <4> QED
          BY <4>1, <4>3, <4>4
      <3> QED
        BY <1>0, <2>3, <2>4, <3>1, <3>2
    <2> QED
      BY <1>1, <1>4, <2>0, <2>5, BeforeAsymmetric
  <1> QED
    <2> HIDE DEF c
    <2>1. j < Len(a) /\ a[j + 1].path = c
      BY <1>2, <1>3, <1>4, NextPlace
    <2> QED
      BY <2>1 DEF c

\* After an array comes its first element.
LEMMA FirstElement ==
    ASSUME NEW a, Answer(a), NEW j \in 1..Len(a), ~Refused(a[j]), Elements(a[j]) > 0
    PROVE  j < Len(a) /\ a[j + 1].path = Append(a[j].path, 0)
  <1> DEFINE p == a[j].path
             n == Len(p) + 1
             c == Append(p, 0)
  <1>0. p \in Seq(Nat) /\ Len(p) \in Nat /\ DOMAIN p = 1..Len(p) /\ n \in Nat /\ n - 1 = Len(p)
    BY ItemPath
  <1>1. /\ c \in Seq(Nat) /\ Len(c) = n /\ DOMAIN c = 1..n /\ c[n] = 0
        /\ \A m \in 1..(n - 1) : c[m] = p[m]
    <2> HIDE DEF p
    <2> QED
      BY <1>0
  <1>2. Before(p, c)
    BY <1>0, <1>1 DEF Before
  <1>3. \/ \E k \in DOMAIN a : a[k].path = c
        \/ Refused(Last(a)) /\ \A k \in DOMAIN a : Before(a[k].path, c)
    <2>1. 0 \in 0..(Elements(a[j]) - 1)
      BY ElementsType
    <2>2. j \in DOMAIN a
      BY ItemPath
    <2> QED
      BY <2>1, <2>2 DEF Answer, IsAnswer, HasElements
  <1>4. ASSUME NEW k \in 1..Len(a), Before(p, a[k].path), Before(a[k].path, c) PROVE FALSE
    <2> DEFINE q == a[k].path
    <2>0. q \in Seq(Nat) /\ Len(q) \in Nat /\ DOMAIN q = 1..Len(q)
      BY ItemPath
    <2>1. c = q \/ Before(c, q)
      <3> HIDE DEF c, p, q, n
      <3>1. CASE Len(p) < Len(q) /\ \A m \in DOMAIN p : p[m] = q[m]
        <4>1. n \in 1..Len(q) /\ n \in 1..n /\ q[n] \in Nat
          BY <1>0, <2>0, <3>1
        <4>2. \A m \in 1..(n - 1) : c[m] = q[m]
          BY <1>0, <1>1, <3>1
        <4>3. CASE c[n] < q[n]
          BY <1>1, <2>0, <4>1, <4>2, <4>3 DEF Before
        <4>4. CASE c[n] = q[n]
          <5>1. \A m \in 1..n : c[m] = q[m]
            <6>1. \A m \in 1..n : m = n \/ m \in 1..(n - 1)
              BY <1>0
            <6> QED
              BY <4>2, <4>4, <6>1
          <5>2. CASE Len(q) = n
            BY <1>1, <2>0, <5>1, <5>2
          <5>3. CASE n < Len(q)
            BY <1>1, <5>1, <5>3 DEF Before
          <5>4. n <= Len(q)
            BY <2>0, <4>1
          <5>5. Len(q) = n \/ n < Len(q)
            <6>1. \A x, y \in Nat : x <= y => y = x \/ x < y
              OBVIOUS
            <6>2. Len(q) \in Nat
              BY <2>0
            <6> QED
              BY <1>0, <5>4, <6>1, <6>2, Zenon
          <5> QED
            BY <5>2, <5>3, <5>5, Zenon
        <4> QED
          BY <1>1, <4>1, <4>3, <4>4
      <3>2. CASE \E d \in DOMAIN p \cap DOMAIN q : p[d] < q[d] /\ \A m \in 1..(d - 1) : p[m] = q[m]
        <4>1. PICK d \in DOMAIN p \cap DOMAIN q : p[d] < q[d] /\ \A m \in 1..(d - 1) : p[m] = q[m]
          BY <3>2
        <4>2. d \in 1..(n - 1) /\ d \in DOMAIN c \cap DOMAIN q /\ \A m \in 1..(d - 1) : m \in 1..(n - 1)
          BY <1>0, <1>1
        <4>3. c[d] < q[d] /\ \A m \in 1..(d - 1) : c[m] = q[m]
          BY <1>1, <4>1, <4>2
        <4> QED
          BY <4>2, <4>3 DEF Before
      <3>3. Before(p, q)
        BY <1>4 DEF q
      <3> QED
        BY <3>1, <3>2, <3>3 DEF Before
    <2> QED
      BY <1>1, <1>4, <2>0, <2>1, BeforeAsymmetric
  <1> QED
    <2> HIDE DEF c
    <2>1. j < Len(a) /\ a[j + 1].path = c
      BY <1>2, <1>3, <1>4, NextPlace
    <2> QED
      BY <2>1 DEF c

(***************************************************************************)
(* Where in what was strung together its parts are.                        *)
(***************************************************************************)

\* The first n sequences strung together.
Strung(s, n) == FlattenSeq([j \in 1..n |-> s[j]])

\* One string is the beginning of another.
Begins(x, y) == Len(x) <= Len(y) /\ \A i \in 1..Len(x) : y[i] = x[i]

\* One more sequence is strung behind the others.
LEMMA StrungStep ==
    ASSUME NEW B, NEW s \in Seq(Seq(B)), NEW n \in Nat, n + 1 <= Len(s)
    PROVE  Strung(s, n + 1) = Strung(s, n) \o s[n + 1]
  <1> DEFINE t == [j \in 1..n |-> s[j]]
             u == [j \in 1..(n + 1) |-> s[j]]
  <1>1. \A j \in 1..(n + 1) : s[j] \in Seq(B)
    OBVIOUS
  <1>2. n + 1 \in 1..(n + 1) /\ \A j \in 1..n : j \in 1..(n + 1)
    OBVIOUS
  <1>3. t \in Seq(Seq(B)) /\ Len(t) = n /\ \A j \in 1..n : t[j] = s[j]
    BY <1>1, <1>2
  <1>4. u \in Seq(Seq(B)) /\ Len(u) = n + 1 /\ \A j \in 1..(n + 1) : u[j] = s[j]
    BY <1>1
  <1>5. u = Append(t, s[n + 1])
    <2> HIDE DEF t, u
    <2> PICK v : v = Append(t, s[n + 1])
      OBVIOUS
    <2>1. v \in Seq(Seq(B)) /\ Len(v) = n + 1 /\ v[n + 1] = s[n + 1] /\ \A j \in 1..n : v[j] = t[j]
      BY <1>1, <1>2, <1>3, OneMore
    <2>2. \A j \in 1..(n + 1) : j = n + 1 \/ j \in 1..n
      OBVIOUS
    <2>3. \A j \in 1..(n + 1) : v[j] = u[j]
      BY <1>2, <1>3, <1>4, <2>1, <2>2
    <2> QED
      BY <1>4, <2>1, <2>3
  <1>6. s[n + 1] \in Seq(B)
    BY <1>1, <1>2
  <1> HIDE DEF t, u
  <1>7. FlattenSeq(u) = FlattenSeq(t) \o s[n + 1]
    BY <1>3, <1>5, <1>6, FlattenAppend
  <1> QED
    BY <1>7 DEF t, u, Strung

\* What is strung together is of the same items, up to all of it.
LEMMA StrungType ==
    ASSUME NEW B, NEW s \in Seq(Seq(B)), NEW n \in 0..Len(s)
    PROVE  Strung(s, n) \in Seq(B) /\ Strung(s, 0) = <<>> /\ Strung(s, Len(s)) = FlattenSeq(s)
  <1>1. [j \in 1..n |-> s[j]] \in Seq(Seq(B))
    OBVIOUS
  <1>2. [j \in 1..0 |-> s[j]] = <<>>
    OBVIOUS
  <1>3. [j \in 1..Len(s) |-> s[j]] = s
    OBVIOUS
  <1> QED
    BY <1>1, <1>2, <1>3, FlattenType, FlattenEmpty DEF Strung

\* A string is where it was put behind another.
LEMMA Behind ==
    ASSUME NEW B, NEW x \in Seq(B), NEW y \in Seq(B)
    PROVE  /\ x \o y \in Seq(B) /\ Len(x \o y) = Len(x) + Len(y)
           /\ \A i \in 1..Len(x) : (x \o y)[i] = x[i]
           /\ \A i \in 1..Len(y) : (x \o y)[Len(x) + i] = y[i]
  OBVIOUS

\* Putting one behind the other is associative.
LEMMA Regroup ==
    ASSUME NEW B, NEW x \in Seq(B), NEW y \in Seq(B), NEW z \in Seq(B)
    PROVE  (x \o y) \o z = x \o (y \o z)
  OBVIOUS

\* With fewer sequences it is a beginning of what it is with more.
LEMMA StrungBegins ==
    ASSUME NEW B, NEW s \in Seq(Seq(B)), NEW k \in 0..Len(s), NEW n \in 0..Len(s), k <= n
    PROVE  Begins(Strung(s, k), Strung(s, n))
  <1> DEFINE T == {d \in Nat : k + d <= Len(s) => Begins(Strung(s, k), Strung(s, k + d))}
  <1>0. k \in Nat /\ Len(s) \in Nat /\ Strung(s, k) \in Seq(B) /\ Len(Strung(s, k)) \in Nat
    BY StrungType
  <1>1. 0 \in T
    <2>1. k + 0 = k
      BY <1>0
    <2>2. Begins(Strung(s, k), Strung(s, k))
      BY <1>0 DEF Begins
    <2> QED
      BY <2>1, <2>2
  <1>2. ASSUME NEW d \in T PROVE d + 1 \in T
    <2>0. d \in Nat
      OBVIOUS
    <2> SUFFICES ASSUME k + (d + 1) <= Len(s) PROVE Begins(Strung(s, k), Strung(s, k + (d + 1)))
      BY <2>0
    <2>1. k + d \in Nat /\ (k + d) + 1 <= Len(s) /\ k + (d + 1) = (k + d) + 1 /\ k + d <= Len(s) /\ (k + d) + 1 \in 1..Len(s)
      BY <1>0, <2>0
    <2>2. Begins(Strung(s, k), Strung(s, k + d))
      BY <2>1
    <2> PICK x : x = Strung(s, k)
      OBVIOUS
    <2> PICK y : y = Strung(s, k + d)
      OBVIOUS
    <2> PICK z : z = s[(k + d) + 1]
      OBVIOUS
    <2>3. Strung(s, k + (d + 1)) = y \o z
      BY <2>1, StrungStep
    <2>4. y \in Seq(B) /\ x \in Seq(B) /\ Len(y) \in Nat /\ Len(x) \in Nat
      <3>1. k + d \in 0..Len(s)
        BY <1>0, <2>1
      <3> QED
        BY <1>0, <3>1, StrungType
    <2>5. z \in Seq(B) /\ Len(z) \in Nat
      BY <2>1
    <2> PICK w : w = y \o z
      OBVIOUS
    <2>6. Len(w) = Len(y) + Len(z) /\ \A i \in 1..Len(y) : w[i] = y[i]
      BY <2>4, <2>5, Behind
    <2>7. Len(x) <= Len(y) /\ \A i \in 1..Len(x) : y[i] = x[i]
      BY <2>2 DEF Begins
    <2>8. Len(x) <= Len(w)
      <3>1. \A l, m, e \in Nat : l <= m => l <= m + e
        OBVIOUS
      <3> QED
        BY <2>4, <2>5, <2>6, <2>7, <3>1, Zenon
    <2>9. \A i \in 1..Len(x) : w[i] = x[i]
      <3>1. \A i \in 1..Len(x) : i \in 1..Len(y)
        BY <2>4, <2>7
      <3> QED
        BY <2>6, <2>7, <3>1
    <2> QED
      BY <2>3, <2>8, <2>9 DEF Begins
  <1>3. T = Nat
    <2>1. T \subseteq Nat
      OBVIOUS
    <2> HIDE DEF T
    <2> QED
      BY <1>1, <1>2, <2>1, SetInduction
  <1>4. n - k \in T
    <2>1. n - k \in Nat
      BY <1>0
    <2> HIDE DEF T
    <2> QED
      BY <1>3, <2>1
  <1>5. k + (n - k) = n /\ n <= Len(s)
    BY <1>0
  <1> QED
    BY <1>4, <1>5

\* Each sequence is behind those before it.
LEMMA StrungPart ==
    ASSUME NEW B, NEW s \in Seq(Seq(B)), NEW k \in 1..Len(s)
    PROVE  /\ Len(Strung(s, k - 1)) \in Nat /\ Len(s[k]) \in Nat
           /\ Len(Strung(s, k)) = Len(Strung(s, k - 1)) + Len(s[k])
           /\ Len(Strung(s, k)) <= Len(FlattenSeq(s))
           /\ \A i \in 1..Len(s[k]) : FlattenSeq(s)[Len(Strung(s, k - 1)) + i] = s[k][i]
  <1> PICK x : x = Strung(s, k - 1)
    OBVIOUS
  <1> PICK y : y = s[k]
    OBVIOUS
  <1> PICK z : z = Strung(s, k)
    OBVIOUS
  <1> PICK w : w = FlattenSeq(s)
    OBVIOUS
  <1>0. k - 1 \in Nat /\ (k - 1) + 1 = k /\ k <= Len(s) /\ k - 1 \in 0..Len(s) /\ k \in 0..Len(s) /\ Len(s) \in 0..Len(s)
    OBVIOUS
  <1>1. z = x \o y
    <2>1. Strung(s, (k - 1) + 1) = Strung(s, k - 1) \o s[(k - 1) + 1]
      BY <1>0, StrungStep
    <2> QED
      BY <1>0, <2>1
  <1>2. x \in Seq(B) /\ y \in Seq(B) /\ Len(x) \in Nat /\ Len(y) \in Nat
    <2>1. x \in Seq(B)
      BY <1>0, StrungType
    <2> QED
      BY <2>1
  <1>3. Len(z) = Len(x) + Len(y) /\ \A i \in 1..Len(y) : z[Len(x) + i] = y[i]
    BY <1>1, <1>2, Behind
  <1>4. Len(z) <= Len(w) /\ \A i \in 1..Len(z) : w[i] = z[i]
    <2>1. Begins(Strung(s, k), Strung(s, Len(s)))
      BY <1>0, StrungBegins
    <2>2. Strung(s, Len(s)) = w
      BY <1>0, StrungType
    <2> QED
      BY <2>1, <2>2 DEF Begins
  <1>5. \A i \in 1..Len(y) : w[Len(x) + i] = y[i]
    <2>1. \A i \in 1..Len(y) : Len(x) + i \in 1..Len(z)
      BY <1>2, <1>3
    <2> QED
      BY <1>3, <1>4, <2>1
  <1> QED
    BY <1>2, <1>3, <1>4, <1>5

\* What two sequences give strung together.
LEMMA StrungConcat ==
    ASSUME NEW B, NEW s \in Seq(Seq(B)), NEW t \in Seq(Seq(B))
    PROVE  FlattenSeq(s \o t) = FlattenSeq(s) \o FlattenSeq(t)
  <1>7. ASSUME NEW x \in Seq(B), NEW y \in Seq(B), NEW z \in Seq(B)
        PROVE  (x \o y) \o z = x \o (y \o z)
    BY Regroup, SMTT(30)
  <1> PICK u : u = s \o t
    OBVIOUS
  <1> PICK f : f = FlattenSeq(s)
    OBVIOUS
  <1>0. /\ u \in Seq(Seq(B)) /\ Len(u) = Len(s) + Len(t) /\ Len(s) \in Nat /\ Len(t) \in Nat
        /\ (\A i \in 1..Len(s) : u[i] = s[i]) /\ (\A i \in 1..Len(t) : u[Len(s) + i] = t[i])
    BY Behind
  <1>1. f \in Seq(B)
    BY FlattenType
  <1> DEFINE T == {n \in Nat : n <= Len(t) => Strung(u, Len(s) + n) = f \o Strung(t, n)}
  <1>2. 0 \in T
    <2>1. [j \in 1..Len(s) |-> u[j]] = s
      BY <1>0
    <2>2. Strung(u, Len(s) + 0) = f
      BY <1>0, <2>1 DEF Strung
    <2>3. Strung(t, 0) = <<>>
      <3>1. 0 \in 0..Len(t)
        BY <1>0
      <3> QED
        BY <3>1, StrungType
    <2>4. f \o <<>> = f
      BY <1>1
    <2> QED
      BY <2>2, <2>3, <2>4
  <1>3. ASSUME NEW n \in T PROVE n + 1 \in T
    <2>0. n \in Nat
      OBVIOUS
    <2> SUFFICES ASSUME n + 1 <= Len(t) PROVE Strung(u, Len(s) + (n + 1)) = f \o Strung(t, n + 1)
      BY <2>0
    <2>1. /\ Len(s) + n \in Nat /\ (Len(s) + n) + 1 <= Len(u) /\ Len(s) + (n + 1) = (Len(s) + n) + 1
          /\ n + 1 \in 1..Len(t) /\ n <= Len(t) /\ n \in 0..Len(t)
      BY <1>0, <2>0
    <2>2. Strung(u, Len(s) + (n + 1)) = Strung(u, Len(s) + n) \o u[Len(s) + (n + 1)]
      BY <1>0, <2>1, StrungStep
    <2>3. u[Len(s) + (n + 1)] = t[n + 1]
      BY <1>0, <2>1
    <2>4. Strung(u, Len(s) + n) = f \o Strung(t, n)
      BY <2>1
    <2>5. Strung(t, n + 1) = Strung(t, n) \o t[n + 1]
      BY <2>0, StrungStep
    <2>6. Strung(t, n) \in Seq(B) /\ t[n + 1] \in Seq(B)
      BY <2>1, StrungType
    <2>7. (f \o Strung(t, n)) \o t[n + 1] = f \o (Strung(t, n) \o t[n + 1])
      BY <1>1, <1>7, <2>6, Zenon
    <2> QED
      BY <2>2, <2>3, <2>4, <2>5, <2>7, Zenon
  <1>4. T = Nat
    <2>1. T \subseteq Nat
      OBVIOUS
    <2> HIDE DEF T
    <2> QED
      BY <1>2, <1>3, <2>1, SetInduction
  <1>5. Strung(u, Len(s) + Len(t)) = f \o Strung(t, Len(t))
    <2>1. Len(t) \in T
      BY <1>0, <1>4
    <2> QED
      BY <2>1
  <1>6. Strung(u, Len(u)) = FlattenSeq(u) /\ Strung(t, Len(t)) = FlattenSeq(t)
    <2>1. Len(u) \in 0..Len(u) /\ Len(t) \in 0..Len(t)
      BY <1>0
    <2> QED
      BY <1>0, <2>1, StrungType
  <1> QED
    BY <1>0, <1>5, <1>6

(***************************************************************************)
(* The bytes of items, of answers and of all that the server wrote.        *)
(***************************************************************************)

\* The bytes of each item, those of the first m items, and of each answer.
ItemsOf(a) == [i \in DOMAIN a |-> ItemBytes(a[i])]
Taken(a, m) == Len(Strung(ItemsOf(a), m))
Sent(ans) == [j \in DOMAIN ans |-> AnswerBytes(ans[j])]

\* Arithmetic of places in a string.
LEMMA AddOne == \A k \in Nat : k + 1 \in Nat /\ (k + 1) - 1 = k
  OBVIOUS

LEMMA PlaceInside ==
    ASSUME NEW j \in Nat, NEW k \in Nat, NEW n \in Nat, NEW h \in Nat, NEW i \in 1..h, k + h <= n
    PROVE  k + i \in 1..n /\ j + (k + i) = (j + k) + i
  OBVIOUS

LEMMA SumOfLengths ==
    ASSUME NEW j \in Nat, NEW k \in Nat, NEW h \in Nat, NEW n \in Nat, k + h <= n
    PROVE  j + k \in Nat /\ (j + k) + h = j + (k + h) /\ j + n \in Nat /\ j + (k + h) <= j + n
  OBVIOUS

\* String w, of n bytes, is what stands in s behind the first j.
LiesAt(s, j, w, n) == \A i \in 1..n : s[j + i] = w[i]

\* A part of a part is a part.
LEMMA PartOfPart ==
    ASSUME NEW s, NEW w, NEW b, NEW j \in Nat, NEW k \in Nat, NEW n \in Nat, NEW h \in Nat,
           LiesAt(s, j, w, n), LiesAt(w, k, b, h), k + h <= n
    PROVE  LiesAt(s, j + k, b, h)
  <1>1. ASSUME NEW i \in 1..h PROVE s[(j + k) + i] = b[i]
    <2>1. k + i \in 1..n /\ j + (k + i) = (j + k) + i
      BY PlaceInside
    <2>2. s[j + (k + i)] = w[k + i] /\ w[k + i] = b[i]
      BY <2>1 DEF LiesAt
    <2> QED
      BY <2>1, <2>2
  <1> QED
    BY <1>1 DEF LiesAt

\* In x \o y, x lies at the beginning and y behind it.
LEMMA LiesBehind ==
    ASSUME NEW x \in Seq(Token), NEW y \in Seq(Token)
    PROVE  /\ x \o y \in Seq(Token) /\ Len(x \o y) = Len(x) + Len(y)
           /\ LiesAt(x \o y, 0, x, Len(x)) /\ LiesAt(x \o y, Len(x), y, Len(y))
  <1>1. /\ x \o y \in Seq(Token) /\ Len(x \o y) = Len(x) + Len(y)
        /\ \A i \in 1..Len(x) : (x \o y)[i] = x[i]
        /\ \A i \in 1..Len(y) : (x \o y)[Len(x) + i] = y[i]
    OBVIOUS
  <1>2. \A i \in 1..Len(x) : 0 + i = i
    OBVIOUS
  <1> QED
    BY <1>1, <1>2 DEF LiesAt

\* A line: a byte, some bytes and the end.
IsLine(y, c, t, e) ==
    /\ y \in Seq(Token) /\ Len(y) = Len(t) + 3 /\ y[1] = c
    /\ LiesAt(y, 1, t, Len(t))
    /\ y[Len(t) + 2] = e[1] /\ y[Len(t) + 3] = e[2]

\* A byte, a text and an end are a line.
LEMMA LineShape ==
    ASSUME NEW c \in Token, NEW t \in Seq(Token), NEW e \in Seq(Token), Len(e) = 2
    PROVE  IsLine(<<c>> \o t \o e, c, t, e)
  <1> DEFINE x == <<c>> \o t
  <1>1. x \in Seq(Token) /\ Len(x) = 1 + Len(t) /\ x[1] = c /\ \A i \in 1..Len(t) : x[1 + i] = t[i]
    OBVIOUS
  <1>2. LiesAt(x, 1, t, Len(t))
    BY <1>1 DEF LiesAt
  <1>3. Len(t) \in Nat
    OBVIOUS
  <1> HIDE DEF x
  <1>4. /\ x \o e \in Seq(Token) /\ Len(x \o e) = Len(x) + Len(e)
        /\ LiesAt(x \o e, 0, x, Len(x)) /\ LiesAt(x \o e, Len(x), e, Len(e))
    BY <1>1, LiesBehind, Zenon
  <1> DEFINE y == x \o e
  <1> HIDE DEF y
  <1>5. /\ y \in Seq(Token) /\ Len(y) = Len(x) + Len(e)
        /\ LiesAt(y, 0, x, Len(x)) /\ LiesAt(y, Len(x), e, Len(e))
    BY <1>4, Zenon DEF y
  <1>6. Len(y) = Len(t) + 3
    BY <1>1, <1>3, <1>5
  <1>7. y[1] = c
    <2>1. 1 \in 1..Len(x) /\ 0 + 1 = 1
      BY <1>1, <1>3
    <2>2. y[0 + 1] = x[1]
      BY <1>5, <2>1, Zenon DEF LiesAt
    <2> QED
      BY <1>1, <2>1, <2>2
  <1>8. LiesAt(y, 1, t, Len(t))
    <2>1. LiesAt(y, 0 + 1, t, Len(t))
      <3>1. Len(x) \in Nat /\ 1 + Len(t) <= Len(x) /\ 0 \in Nat /\ 1 \in Nat
        BY <1>1, <1>3
      <3> QED
        BY <1>2, <1>3, <1>5, <3>1, PartOfPart, Zenon
    <2>2. 0 + 1 = 1
      OBVIOUS
    <2> QED
      BY <2>1, <2>2
  <1>9. y[Len(t) + 2] = e[1] /\ y[Len(t) + 3] = e[2]
    <2>1. 1 \in 1..Len(e) /\ 2 \in 1..Len(e)
      OBVIOUS
    <2>2. y[Len(x) + 1] = e[1] /\ y[Len(x) + 2] = e[2]
      BY <1>5, <2>1, Zenon DEF LiesAt
    <2>3. Len(x) + 1 = Len(t) + 2 /\ Len(x) + 2 = Len(t) + 3
      BY <1>1, <1>3
    <2> QED
      BY <2>2, <2>3, Zenon
  <1> QED
    BY <1>5, <1>6, <1>7, <1>8, <1>9, Zenon DEF x, y, IsLine

\* The line end is two bytes of the server.
LEMMA LineEndType == LineEnd \in Seq(Token) /\ Len(LineEnd) = 2 /\ LineEnd[1] = "CR" /\ LineEnd[2] = "LF"
  <1>1. LineEnd = <<"CR", "LF">>
    BY DEF LineEnd
  <1>2. "CR" \in Token /\ "LF" \in Token
    <2>1. ToSet(LineEnd) = {"CR", "LF"}
      <3>1. DOMAIN LineEnd = 1..2 /\ LineEnd[1] = "CR" /\ LineEnd[2] = "LF"
        BY <1>1
      <3>2. ToSet(LineEnd) = {LineEnd[i] : i \in 1..2}
        BY <3>1 DEF ToSet
      <3> QED
        BY <3>1, <3>2
    <2>2. ToSet(LineEnd) \subseteq Token
      BY Zenon DEF Token
    <2> QED
      BY <2>1, <2>2
  <1> QED
    BY <1>1, <1>2

\* What follows a line of n bytes.
LEMMA BehindLine ==
    ASSUME NEW k \in Nat, NEW n \in Nat
    PROVE  /\ k + 3 \in Nat /\ (k + 3) + (n + 2) = k + n + 5 /\ k + n + 5 \in Nat /\ k + n + 5 >= 3 /\ k + 3 >= 3
           /\ 1 \in 1..(k + 3) /\ k + 2 \in 1..(k + 3) /\ k + 3 \in 1..(k + 3)
           /\ \A i \in 1..k : i + 1 \in 1..(k + 3)
  OBVIOUS

\* What the bytes of an item are.
LEMMA ItemShape ==
    ASSUME NEW item \in Item, WellWritten(item), NEW bytes, bytes = ItemBytes(item)
    PROVE  /\ item.text \in Seq(Token) /\ Len(item.text) \in Nat /\ item.sign \in Token
           /\ bytes \in Seq(Token) /\ bytes[1] = item.sign
           /\ LiesAt(bytes, 1, item.text, Len(item.text))
           /\ bytes[Len(item.text) + 2] = "CR" /\ bytes[Len(item.text) + 3] = "LF"
           /\ ~IsBulk(item) => Len(bytes) = Len(item.text) + 3
           /\ IsBulk(item) => /\ item.data \in Seq(Token) /\ Len(item.data) = readLongLong(item.text)
                              /\ Len(item.data) \in Nat
                              /\ Len(bytes) = Len(item.text) + Len(item.data) + 5
                              /\ LiesAt(bytes, Len(item.text) + 3, item.data, Len(item.data))
  <1>1. item.text \in Seq(Token) /\ Len(item.text) \in Nat /\ item.data \in Seq(Token) /\ Len(item.data) \in Nat /\ item.sign \in Token
    BY DEF Item
  <1> DEFINE y == <<item.sign>> \o item.text \o LineEnd
             t == item.text
             d == item.data
  <1>2. /\ y \in Seq(Token) /\ Len(y) = Len(t) + 3 /\ y[1] = item.sign
        /\ LiesAt(y, 1, t, Len(t))
        /\ y[Len(t) + 2] = "CR" /\ y[Len(t) + 3] = "LF"
    <2>1. /\ y \in Seq(Token) /\ Len(y) = Len(t) + 3 /\ y[1] = item.sign
          /\ LiesAt(y, 1, t, Len(t))
          /\ y[Len(t) + 2] = LineEnd[1] /\ y[Len(t) + 3] = LineEnd[2]
      <3>1. IsLine(y, item.sign, t, LineEnd)
        BY <1>1, LineEndType, LineShape, Zenon
      <3> HIDE DEF y, t
      <3> QED
        BY <3>1, Zenon DEF IsLine
    <2> HIDE DEF y, t
    <2> QED
      BY <2>1, LineEndType, Zenon
  <1>3. CASE ~IsBulk(item)
    <2>1. bytes = y \o <<>>
      BY <1>3 DEF ItemBytes
    <2> HIDE DEF y, t, d
    <2>2. y \o <<>> = y
      BY <1>2
    <2>3. bytes = y
      BY <2>1, <2>2, Zenon
    <2> QED
      BY <1>1, <1>2, <1>3, <2>3, Zenon DEF t
  <1>4. CASE IsBulk(item)
    <2>1. bytes = y \o (d \o LineEnd)
      BY <1>4 DEF ItemBytes
    <2>4. Len(d) = readLongLong(t)
      BY <1>4 DEF WellWritten
    <2>6. t \in Seq(Token) /\ Len(t) \in Nat /\ d \in Seq(Token) /\ Len(d) \in Nat
      BY <1>1
    <2> HIDE DEF y, t, d
    <2> DEFINE r == d \o LineEnd
               z == y \o r
    <2>7. r \in Seq(Token) /\ Len(r) = Len(d) + Len(LineEnd) /\ LiesAt(r, 0, d, Len(d))
      BY <2>6, LineEndType, LiesBehind, Zenon
    <2>8. bytes = z
      BY <2>1, Zenon
    <2> HIDE DEF r
    <2>9. z \in Seq(Token) /\ Len(z) = Len(y) + Len(r) /\ LiesAt(z, 0, y, Len(y)) /\ LiesAt(z, Len(y), r, Len(r))
      BY <1>2, <2>7, LiesBehind, Zenon
    <2> HIDE DEF z
    <2>10. Len(LineEnd) = 2
      BY LineEndType
    <2>11. Len(r) \in Nat /\ Len(r) = Len(d) + 2 /\ 0 + Len(d) <= Len(r) /\ 0 \in Nat
      BY <2>6, <2>7, <2>10
    <2>12. Len(y) \in Nat /\ Len(y) = Len(t) + 3 /\ Len(y) + 0 = Len(t) + 3
      BY <1>2, <2>6
    <2>13. Len(z) = Len(t) + Len(d) + 5
      <3>1. Len(z) = (Len(t) + 3) + (Len(d) + 2)
        BY <2>9, <2>11, <2>12, Zenon
      <3>2. (Len(t) + 3) + (Len(d) + 2) = Len(t) + Len(d) + 5
        BY <2>6, BehindLine, Zenon
      <3> QED
        BY <3>1, <3>2, Zenon
    <2>14. LiesAt(z, Len(t) + 3, d, Len(d))
      <3>1. LiesAt(z, Len(y) + 0, d, Len(d))
        BY <2>6, <2>7, <2>9, <2>11, <2>12, PartOfPart, Zenon
      <3> QED
        BY <2>12, <3>1, Zenon
    <2>15. \A i \in 1..Len(y) : 0 + i = i
      OBVIOUS
    <2>16. \A i \in 1..Len(y) : z[i] = y[i]
      BY <2>9, <2>15, Zenon DEF LiesAt
    <2>17. 1 \in 1..Len(y) /\ Len(t) + 2 \in 1..Len(y) /\ Len(t) + 3 \in 1..Len(y)
      BY <2>6, <2>12
    <2>18. z[1] = item.sign /\ z[Len(t) + 2] = "CR" /\ z[Len(t) + 3] = "LF"
      BY <1>2, <2>16, <2>17, Zenon
    <2>19. LiesAt(z, 1, t, Len(t))
      <3>1. \A i \in 1..Len(t) : 1 + i \in 1..Len(y)
        BY <2>6, <2>12
      <3> QED
        BY <1>2, <2>16, <3>1, Zenon DEF LiesAt
    <2> QED
      BY <1>1, <1>4, <2>4, <2>8, <2>9, <2>13, <2>14, <2>18, <2>19, Zenon DEF t, d
  <1> QED
    BY <1>3, <1>4

\* An item has at least a sign and a line end.
LEMMA ItemLength ==
    ASSUME NEW item \in Item, WellWritten(item)
    PROVE  ItemBytes(item) \in Seq(Token) /\ Len(ItemBytes(item)) \in Nat /\ Len(ItemBytes(item)) >= 3
  <1> PICK b : b = ItemBytes(item)
    OBVIOUS
  <1>1. b \in Seq(Token) /\ Len(item.text) \in Nat
    BY ItemShape
  <1>2. CASE IsBulk(item)
    <2>1. Len(b) = Len(item.text) + Len(item.data) + 5 /\ Len(item.data) \in Nat
      BY <1>2, ItemShape
    <2>2. \A k, l \in Nat : k + l + 5 \in Nat /\ k + l + 5 >= 3
      OBVIOUS
    <2> QED
      BY <1>1, <2>1, <2>2, Zenon
  <1>3. CASE ~IsBulk(item)
    <2>1. Len(b) = Len(item.text) + 3
      BY <1>3, ItemShape
    <2>2. \A k \in Nat : k + 3 \in Nat /\ k + 3 >= 3
      OBVIOUS
    <2> QED
      BY <1>1, <2>1, <2>2, Zenon
  <1> QED
    BY <1>2, <1>3

\* An answer is the bytes of its items.
LEMMA ItemsType ==
    ASSUME NEW a, Answer(a)
    PROVE  /\ ItemsOf(a) \in Seq(Seq(Token)) /\ Len(ItemsOf(a)) = Len(a)
           /\ \A i \in 1..Len(a) : ItemsOf(a)[i] = ItemBytes(a[i]) /\ WellWritten(a[i]) /\ a[i] \in Item
           /\ AnswerBytes(a) = FlattenSeq(ItemsOf(a)) /\ AnswerBytes(a) \in Seq(Token)
  <1>1. Len(a) \in Nat /\ DOMAIN a = 1..Len(a) /\ \A i \in 1..Len(a) : a[i] \in Item
    BY ItemPath
  <1>2. \A i \in 1..Len(a) : WellWritten(a[i])
    BY <1>1 DEF Answer, IsAnswer
  <1>3. \A i \in 1..Len(a) : ItemBytes(a[i]) \in Seq(Token)
    BY <1>1, <1>2, ItemLength
  <1>4. ItemsOf(a) = [i \in 1..Len(a) |-> ItemBytes(a[i])]
    BY <1>1 DEF ItemsOf
  <1>5. ItemsOf(a) \in Seq(Seq(Token)) /\ Len(ItemsOf(a)) = Len(a)
    BY <1>1, <1>3, <1>4
  <1>6. AnswerBytes(a) = FlattenSeq(ItemsOf(a))
    BY DEF AnswerBytes, ItemsOf
  <1>7. FlattenSeq(ItemsOf(a)) \in Seq(Token)
    BY <1>5, FlattenType
  <1>8. \A i \in 1..Len(a) : ItemsOf(a)[i] = ItemBytes(a[i])
    BY <1>4
  <1> QED
    BY <1>1, <1>2, <1>5, <1>6, <1>7, <1>8

\* What is sent is the bytes of the answers.
LEMMA SentType ==
    ASSUME NEW ans \in Seq(Answers)
    PROVE  /\ Sent(ans) \in Seq(Seq(Token)) /\ Len(Sent(ans)) = Len(ans) /\ Len(ans) \in Nat
           /\ \A j \in 1..Len(ans) : Answer(ans[j]) /\ Sent(ans)[j] = AnswerBytes(ans[j])
  <1>5. Len(ans) \in Nat /\ DOMAIN ans = 1..Len(ans)
    OBVIOUS
  <1>6. \A j \in 1..Len(ans) : ans[j] \in Answers
    OBVIOUS
  <1>1. Len(ans) \in Nat /\ DOMAIN ans = 1..Len(ans) /\ \A j \in 1..Len(ans) : ans[j] \in Answers
    BY <1>5, <1>6
  <1>2. \A j \in 1..Len(ans) : Answer(ans[j])
    BY <1>1, AnswersAssumption DEF Answer
  <1>3. \A j \in 1..Len(ans) : AnswerBytes(ans[j]) \in Seq(Token)
    BY <1>2, ItemsType
  <1>4. Sent(ans) = [j \in 1..Len(ans) |-> AnswerBytes(ans[j])]
    BY <1>1 DEF Sent
  <1>7. Sent(ans) \in Seq(Seq(Token)) /\ Len(Sent(ans)) = Len(ans)
    BY <1>1, <1>3, <1>4
  <1>8. \A j \in 1..Len(ans) : Sent(ans)[j] = AnswerBytes(ans[j])
    BY <1>4
  <1> QED
    BY <1>1, <1>2, <1>7, <1>8

\* Where item m of answer d begins in all that was written.
Begin(ans, d, m) == Len(Strung(Sent(ans), d - 1)) + Taken(ans[d], m - 1)

\* The bytes of an item are there.
LEMMA StreamAt ==
    ASSUME NEW ans \in Seq(Answers), NEW d \in 1..Len(ans), NEW m \in 1..Len(ans[d])
    PROVE  /\ Begin(ans, d, m) \in Nat /\ Len(ItemBytes(ans[d][m])) \in Nat /\ Len(ItemBytes(ans[d][m])) >= 3
           /\ LiesAt(FlattenSeq(Sent(ans)), Begin(ans, d, m), ItemBytes(ans[d][m]), Len(ItemBytes(ans[d][m])))
           /\ Begin(ans, d, m) + Len(ItemBytes(ans[d][m])) = Begin(ans, d, m + 1)
           /\ Begin(ans, d, m + 1) <= Len(Strung(Sent(ans), d))
           /\ m = Len(ans[d]) => Begin(ans, d, m + 1) = Len(Strung(Sent(ans), d))
           /\ Len(Strung(Sent(ans), d)) \in Nat /\ Len(Strung(Sent(ans), d)) <= Len(FlattenSeq(Sent(ans)))
  <1> DEFINE a == ans[d]
             w == Sent(ans)
             p == ItemsOf(a)
             b == ItemBytes(a[m])
             L == Len(Strung(w, d - 1))
             e == Len(Strung(w, d))
             T == Len(Strung(p, m - 1))
             U == Len(Strung(p, m))
             n == Len(w[d])
             h == Len(p[m])
             s == FlattenSeq(w)
             q == FlattenSeq(p)
  <1>1. Answer(a) /\ w \in Seq(Seq(Token)) /\ Len(w) = Len(ans) /\ w[d] = AnswerBytes(a) /\ Len(ans) \in Nat
    BY SentType
  <1>2. /\ p \in Seq(Seq(Token)) /\ Len(p) = Len(a) /\ p[m] = b
        /\ AnswerBytes(a) = q /\ WellWritten(a[m]) /\ a[m] \in Item
    BY <1>1, ItemsType
  <1>3. Len(a) \in Nat /\ m \in 1..Len(p) /\ d \in 1..Len(w)
    BY <1>1, <1>2, ItemPath
  <1>4. Len(b) \in Nat /\ Len(b) >= 3
    BY <1>2, ItemLength
  <1> HIDE DEF a, w, p, b
  <1>5. /\ L \in Nat /\ n \in Nat /\ e = L + n /\ e <= Len(s)
        /\ \A i \in 1..n : s[L + i] = w[d][i]
    BY <1>1, <1>3, StrungPart
  <1>6. /\ T \in Nat /\ h \in Nat /\ U = T + h /\ U <= Len(q)
        /\ \A i \in 1..h : q[T + i] = p[m][i]
    BY <1>2, <1>3, StrungPart
  <1>7. Strung(p, Len(p)) = q
    <2>1. Len(p) \in 0..Len(p)
      BY <1>2, <1>3
    <2> QED
      BY <1>2, <2>1, StrungType
  <1>8. LiesAt(s, L, w[d], n) /\ LiesAt(q, T, p[m], h)
    BY <1>5, <1>6, Zenon DEF LiesAt
  <1>9. p[m] = b /\ w[d] = q /\ Len(q) = n /\ h = Len(b)
    BY <1>1, <1>2
  <1>10. m = Len(a) => U = n
    BY <1>1, <1>2, <1>7
  <1>11. L \in Nat /\ n \in Nat /\ e = L + n /\ e <= Len(s) /\ T \in Nat /\ h \in Nat /\ U = T + h /\ U <= n
    BY <1>5, <1>6, <1>9, Zenon
  <1>12. /\ (m + 1) - 1 = m /\ Begin(ans, d, m) = L + T
         /\ Begin(ans, d, m + 1) = L + U
    <2>1. (m + 1) - 1 = m
      OBVIOUS
    <2> QED
      BY <2>1 DEF Begin, Taken, a, p, w
  <1> HIDE DEF L, e, T, U, n, h, s, q
  <1>13. L + T \in Nat /\ (L + T) + h = L + U /\ L + U <= e /\ e \in Nat /\ T + h <= n
    BY <1>11
  <1>14. LiesAt(s, L + T, p[m], h)
    <2>1. LiesAt(w[d], T, p[m], h)
      BY <1>8, <1>9, Zenon
    <2> QED
      BY <1>8, <1>11, <1>13, <2>1, PartOfPart, Zenon
  <1>15. m = Len(a) => L + U = e
    BY <1>10, <1>11
  <1>16. LiesAt(s, L + T, b, Len(b))
    BY <1>9, <1>14, Zenon
  <1>17. (L + T) + Len(b) = L + U
    BY <1>9, <1>13, Zenon
  <1> QED
    BY <1>4, <1>11, <1>12, <1>13, <1>15, <1>16, <1>17, Zenon DEF a, b, w, e, s

(***************************************************************************)
(* The reader: its position lies in its buffer, and each task of the stack *)
(* is an element, not past the last, of the array below it.                *)
(***************************************************************************)

\* The tasks, and a stack of them.
TaskType == [type : {"unread", "error", "status", "integer", "string", "array"}, elements : Int, idx : Int]

Nested(stack) ==
    \A k \in 2..Len(stack) : stack[k - 1].type = "array" /\ stack[k].idx < stack[k - 1].elements

Stack(stack) == stack \in Seq(TaskType) /\ Len(stack) <= STACK /\ Nested(stack)

\* What holds of the reader in every state.
ReaderInv ==
    /\ buf \in Seq(Token) /\ pos \in 0..Len(buf)
    /\ Stack(rstack)
    /\ rerr \in {"none", "protocol"}
    /\ rpc \in {"idle", "items", "done"}

\* Without tasks, and with a new one.
LEMMA EmptyStack == Stack(<<>>)
  <1>1. <<>> \in Seq(TaskType) /\ Len(<<>>) = 0
    OBVIOUS
  <1> QED
    BY <1>1, ReaderAssumption DEF Stack, Nested

LEMMA NewTask ==
    ASSUME NEW i \in Int
    PROVE  Task(i) \in TaskType /\ Task(i).idx = i
  BY DEF Task, TaskType

\* The task after is in the array of a task that is not its last.
LEMMA MoveToNextTask ==
    ASSUME NEW stack, Stack(stack)
    PROVE  Stack(moveToNextTask(stack))
  <1>1. CASE Unfinished(stack) = {}
    BY <1>1, EmptyStack DEF moveToNextTask
  <1>2. CASE Unfinished(stack) # {}
    <2> DEFINE k == Max(Unfinished(stack))
               next == Append(SubSeq(stack, 1, k - 1), Task(stack[k].idx + 1))
    <2>0. stack \in Seq(TaskType) /\ Len(stack) \in Nat /\ Len(stack) <= STACK /\ Nested(stack)
      BY DEF Stack
    <2>1. k \in Unfinished(stack)
      <3>1. Unfinished(stack) \subseteq 0..Len(stack)
        BY <2>0 DEF Unfinished
      <3> QED
        BY <1>2, <2>0, <3>1, MaxOf
    <2>2. k \in 2..Len(stack) /\ stack[k].idx # stack[k - 1].elements - 1
      BY <2>1 DEF Unfinished
    <2>3. moveToNextTask(stack) = next
      BY <1>2 DEF moveToNextTask
    <2> HIDE DEF k
    <2>4. \A j \in 1..Len(stack) : stack[j] \in TaskType
      BY <2>0
    <2>5. stack[k].idx \in Int /\ stack[k - 1].elements \in Int
      <3>1. k \in 1..Len(stack) /\ k - 1 \in 1..Len(stack)
        BY <2>2
      <3> QED
        BY <2>4, <3>1 DEF TaskType
    <2>6. Task(stack[k].idx + 1) \in TaskType /\ Task(stack[k].idx + 1).idx = stack[k].idx + 1
      BY <2>5, NewTask
    <2>7. SubSeq(stack, 1, k - 1) \in Seq(TaskType) /\ Len(SubSeq(stack, 1, k - 1)) = k - 1
      BY <2>0, <2>2
    <2>8. \A j \in 1..(k - 1) : SubSeq(stack, 1, k - 1)[j] = stack[j]
      BY <2>0, <2>2
    <2>9. next \in Seq(TaskType) /\ Len(next) = k
      BY <2>2, <2>6, <2>7
    <2>10. (\A j \in 1..(k - 1) : next[j] = stack[j]) /\ next[k] = Task(stack[k].idx + 1)
      BY <2>2, <2>7, <2>8
    <2> HIDE DEF next
    <2>11. Nested(next)
      <3> SUFFICES ASSUME NEW j \in 2..k
                   PROVE  next[j - 1].type = "array" /\ next[j].idx < next[j - 1].elements
        BY <2>9 DEF Nested
      <3>1. stack[j - 1].type = "array" /\ stack[j].idx < stack[j - 1].elements
        BY <2>0, <2>2 DEF Nested
      <3>2. next[j - 1] = stack[j - 1]
        BY <2>2, <2>10
      <3>3. CASE j < k
        BY <2>2, <2>10, <3>1, <3>2, <3>3
      <3>4. CASE j = k
        BY <2>2, <2>5, <2>6, <2>10, <3>1, <3>2, <3>4
      <3> QED
        BY <2>2, <3>3, <3>4
    <2>12. Len(next) <= STACK
      BY <2>0, <2>2, <2>9, ReaderAssumption
    <2> QED
      BY <2>3, <2>9, <2>11, <2>12 DEF Stack
  <1> QED
    BY <1>1, <1>2

\* A change of type or elements of the last task, and a task for the first
\* element of an array.
LEMMA LastTask ==
    ASSUME NEW stack, Stack(stack), stack # <<>>, NEW t \in TaskType, t.idx = Last(stack).idx
    PROVE  /\ Stack([stack EXCEPT ![Len(stack)] = t])
           /\ t.type = "array" /\ t.elements > 0 /\ Len(stack) # STACK
                => Stack(Append([stack EXCEPT ![Len(stack)] = t], Task(0)))
  <1> DEFINE N == Len(stack)
             s == [stack EXCEPT ![N] = t]
             u == Append(s, Task(0))
  <1>1. stack \in Seq(TaskType) /\ N \in Nat \ {0} /\ N <= STACK /\ Nested(stack)
    BY DEF Stack
  <1>2. s \in Seq(TaskType) /\ Len(s) = N /\ s[N] = t /\ \A j \in 1..(N - 1) : s[j] = stack[j]
    BY <1>1
  <1> HIDE DEF s
  <1>3. Nested(s)
    <2> SUFFICES ASSUME NEW j \in 2..N
                 PROVE  s[j - 1].type = "array" /\ s[j].idx < s[j - 1].elements
      BY <1>2 DEF Nested
    <2>1. stack[j - 1].type = "array" /\ stack[j].idx < stack[j - 1].elements
      BY <1>1 DEF Nested
    <2>2. s[j - 1] = stack[j - 1]
      BY <1>1, <1>2
    <2>3. s[j].idx = stack[j].idx
      BY <1>1, <1>2 DEF Last
    <2> QED
      BY <2>1, <2>2, <2>3
  <1>4. Stack(s)
    BY <1>1, <1>2, <1>3 DEF Stack
  <1>5. ASSUME t.type = "array", t.elements > 0, N # STACK PROVE Stack(u)
    <2>1. Task(0) \in TaskType /\ Task(0).idx = 0
      BY NewTask
    <2>2. u \in Seq(TaskType) /\ Len(u) = N + 1 /\ u[N + 1] = Task(0) /\ \A j \in 1..N : u[j] = s[j]
      BY <1>1, <1>2, <2>1
    <2> HIDE DEF u
    <2>3. Nested(u)
      <3> SUFFICES ASSUME NEW j \in 2..(N + 1)
                   PROVE  u[j - 1].type = "array" /\ u[j].idx < u[j - 1].elements
        BY <2>2 DEF Nested
      <3>1. CASE j = N + 1
        <4>1. u[j - 1] = t /\ u[j] = Task(0)
          BY <1>1, <1>2, <2>2, <3>1
        <4>2. t.elements \in Int
          BY DEF TaskType
        <4> QED
          BY <1>5, <2>1, <4>1, <4>2
      <3>2. CASE j <= N
        <4>1. u[j - 1] = s[j - 1] /\ u[j] = s[j]
          BY <1>1, <2>2, <3>2
        <4> QED
          BY <1>1, <1>2, <1>3, <3>2, <4>1 DEF Nested
      <3> QED
        BY <1>1, <3>1, <3>2
    <2>4. Len(u) <= STACK
      BY <1>1, <1>5, <2>2, ReaderAssumption
    <2> QED
      BY <2>2, <2>3, <2>4 DEF Stack
  <1> QED
    BY <1>4, <1>5 DEF s

\* The line that is found lies in the buffer.
LEMMA SeekNewline ==
    ASSUME ReaderInv, HasLine
    PROVE  seekNewline \in pos..(Len(buf) - 2) /\ Line \in Seq(Token)
  <1>1. buf \in Seq(Token) /\ Len(buf) \in Nat /\ pos \in Nat
    BY DEF ReaderInv
  <1>2. Newlines(pos) # {} /\ Newlines(pos) \subseteq pos..(Len(buf) - 2)
    BY DEF HasLine, Newlines
  <1>3. Min(Newlines(pos)) \in Newlines(pos)
    <2>1. \A x \in Newlines(pos) : x \in Int /\ x >= pos
      BY <1>1, <1>2
    <2> QED
      BY <1>1, <1>2, <2>1, MinOf
  <1>4. seekNewline \in pos..(Len(buf) - 2)
    BY <1>2, <1>3 DEF seekNewline
  <1>5. SubSeq(buf, pos + 1, seekNewline) \in Seq(Token)
    BY <1>1, <1>4
  <1> QED
    BY <1>4, <1>5 DEF Line

(***************************************************************************)
(* The reader finds what the server wrote.                                 *)
(***************************************************************************)

\* The piece of a sequence that looks like another is that one.
LEMMA PieceIs ==
    ASSUME NEW x \in Seq(Token), NEW t \in Seq(Token), NEW j \in Nat, j + Len(t) <= Len(x), LiesAt(x, j, t, Len(t))
    PROVE  SubSeq(x, j + 1, j + Len(t)) = t
  <1> DEFINE y == SubSeq(x, j + 1, j + Len(t))
  <1>1. Len(t) \in Nat /\ Len(x) \in Nat
    OBVIOUS
  <1>2. y \in Seq(Token) /\ Len(y) = Len(t)
    BY <1>1
  <1>3. \A i \in 1..Len(t) : y[i] = x[j + i]
    BY <1>1
  <1> HIDE DEF y
  <1>4. \A i \in 1..Len(t) : y[i] = t[i]
    BY <1>3 DEF LiesAt
  <1>5. y = t
    BY <1>2, <1>4, SeqEqual
  <1> QED
    BY <1>5 DEF y

\* Behind the position is the rest of an item whose type has been read, or
\* what of it has come.
Ahead(item) ==
    \A i \in 1..(Len(ItemBytes(item)) - 1) : pos + i <= Len(buf) => buf[pos + i] = ItemBytes(item)[i + 1]

\* All of it has come.
HasCome(item) == pos + Len(ItemBytes(item)) - 1 <= Len(buf)

\* The line that is found is that of the item.
LEMMA LineFound ==
    ASSUME ReaderInv, NEW item \in Item, WellWritten(item), Ahead(item)
    PROVE  /\ HasLine <=> pos + Len(item.text) + 2 <= Len(buf)
           /\ HasLine => seekNewline = pos + Len(item.text) /\ Line = item.text
  <1> DEFINE t == item.text
             k == Len(t)
             bytes == ItemBytes(item)
             n == Len(bytes)
  <1>1. /\ t \in Seq(Token) /\ k \in Nat
        /\ LiesAt(bytes, 1, t, k) /\ bytes[k + 2] = "CR" /\ bytes[k + 3] = "LF"
    BY ItemShape
  <1>2. n \in Nat /\ n >= k + 3
    <2>1. bytes \in Seq(Token)
      BY ItemLength
    <2>2. CASE ~IsBulk(item)
      <3>1. n = k + 3
        BY <2>2, ItemShape
      <3> HIDE DEF n, k
      <3> QED
        BY <1>1, <3>1
    <2>3. CASE IsBulk(item)
      <3>1. n = k + Len(item.data) + 5 /\ Len(item.data) \in Nat
        BY <2>3, ItemShape
      <3> DEFINE d == Len(item.data)
      <3> HIDE DEF n, k, d
      <3>2. n = k + d + 5 /\ d \in Nat
        BY <3>1 DEF d
      <3> QED
        BY <1>1, <3>2
    <2> QED
      BY <2>2, <2>3
  <1>3. buf \in Seq(Token) /\ Len(buf) \in Nat /\ pos \in Nat /\ pos <= Len(buf)
    BY DEF ReaderInv
  <1>4. \A i \in 1..(n - 1) : pos + i <= Len(buf) => buf[pos + i] = bytes[i + 1]
    BY DEF Ahead
  <1>5. \A i \in 1..(k - 1) : ~(t[i] = "CR" /\ t[i + 1] = "LF")
    BY DEF WellWritten
  <1> HIDE DEF t, k, bytes, n
  <1>6. \A i \in 1..k : bytes[i + 1] = t[i]
    <2>1. \A i \in 1..k : bytes[1 + i] = t[i]
      BY <1>1 DEF LiesAt
    <2>2. \A i \in 1..k : 1 + i = i + 1
      BY <1>1
    <2> QED
      BY <2>1, <2>2
  <1>7. ASSUME pos + k + 2 <= Len(buf) PROVE pos + k \in Newlines(pos)
    <2>1. k + 1 \in 1..(n - 1) /\ k + 2 \in 1..(n - 1) /\ (k + 1) + 1 = k + 2 /\ (k + 2) + 1 = k + 3
      BY <1>1, <1>2
    <2>2. pos + (k + 1) <= Len(buf) /\ pos + (k + 2) <= Len(buf)
          /\ (pos + k) + 1 = pos + (k + 1) /\ ((pos + k) + 1) + 1 = pos + (k + 2) /\ pos + k \in pos..(Len(buf) - 2)
      BY <1>1, <1>3, <1>7
    <2>3. buf[pos + (k + 1)] = "CR" /\ buf[pos + (k + 2)] = "LF"
      BY <1>1, <1>4, <2>1, <2>2
    <2> QED
      BY <2>2, <2>3 DEF Newlines, At
  <1>8. ASSUME NEW q \in Newlines(pos) PROVE q \in Int /\ q >= pos + k /\ q <= Len(buf) - 2
    <2>1. q \in pos..(Len(buf) - 2) /\ buf[q + 1] = "CR" /\ buf[(q + 1) + 1] = "LF"
      BY DEF Newlines, At
    <2>2. SUFFICES ASSUME q < pos + k PROVE FALSE
      BY <1>1, <1>3, <2>1
    <2> DEFINE i == q - pos + 1
    <2>3. /\ i \in 1..k /\ q + 1 = pos + i /\ (q + 1) + 1 = pos + (i + 1) /\ i \in 1..(n - 1) /\ i + 1 \in 1..(n - 1)
          /\ pos + i <= Len(buf) /\ pos + (i + 1) <= Len(buf) /\ (i < k => i + 1 \in 1..k /\ i \in 1..(k - 1))
      BY <1>1, <1>2, <1>3, <2>1, <2>2
    <2> HIDE DEF i
    <2>4. t[i] = "CR" /\ bytes[(i + 1) + 1] = "LF"
      BY <1>4, <1>6, <2>1, <2>3
    <2>5. CASE i < k
      BY <1>5, <1>6, <2>3, <2>4, <2>5
    <2>6. CASE i = k
      <3>1. (k + 1) + 1 = k + 2
        BY <1>1
      <3> QED
        BY <1>1, <2>4, <2>6, <3>1
    <2> QED
      BY <1>1, <2>3, <2>5, <2>6
  <1>9. HasLine <=> pos + k + 2 <= Len(buf)
    <2>1. ASSUME NEW q \in Newlines(pos) PROVE pos + k + 2 <= Len(buf)
      <3>1. q \in Int /\ q >= pos + k /\ q <= Len(buf) - 2
        BY <1>8
      <3> QED
        BY <1>1, <1>3, <3>1
    <2> QED
      BY <1>7, <2>1 DEF HasLine
  <1>10. ASSUME HasLine PROVE seekNewline = pos + k
    <2>1. Newlines(pos) # {} /\ \A q \in Newlines(pos) : q \in Int /\ q >= pos
      BY <1>1, <1>3, <1>8, <1>10 DEF HasLine
    <2>2. Min(Newlines(pos)) \in Newlines(pos) /\ \A q \in Newlines(pos) : Min(Newlines(pos)) <= q
      BY <1>3, <2>1, MinOf
    <2>3. pos + k \in Newlines(pos)
      BY <1>7, <1>9, <1>10
    <2> DEFINE q == Min(Newlines(pos))
    <2> HIDE DEF q
    <2>4. q <= pos + k /\ q >= pos + k /\ q \in Int
      BY <1>8, <2>2, <2>3 DEF q
    <2>5. q = pos + k
      BY <1>1, <1>3, <2>4
    <2> QED
      BY <2>5 DEF q, seekNewline
  <1>11. ASSUME HasLine PROVE Line = t
    <2>1. pos + k + 2 <= Len(buf)
      BY <1>9, <1>11
    <2>2. Line = SubSeq(buf, pos + 1, pos + k)
      BY <1>10, <1>11 DEF Line
    <2>3. ASSUME NEW i \in 1..k PROVE buf[pos + i] = t[i]
      <3>1. i \in 1..(n - 1) /\ pos + i <= Len(buf)
        BY <1>1, <1>2, <1>3, <2>1
      <3> QED
        BY <1>4, <1>6, <3>1
    <2>4. SubSeq(buf, pos + 1, pos + k) = t
      <3>1. LiesAt(buf, pos, t, k) /\ pos + k <= Len(buf)
        BY <1>1, <1>3, <2>1, <2>3 DEF LiesAt
      <3> QED
        BY <1>1, <1>3, <3>1, PieceIs, Zenon DEF k
    <2> QED
      BY <2>2, <2>4
  <1> QED
    BY <1>9, <1>10, <1>11 DEF t, k

\* The string that is found is that of the item, once all of it has come.
LEMMA StringFound ==
    ASSUME ReaderInv, NEW item \in Item, WellWritten(item), Ahead(item), IsBulk(item),
           seekNewline = pos + Len(item.text)
    PROVE  LET len == readLongLong(item.text)
           IN  /\ len \in Nat
               /\ BulkIsThere(len) <=> HasCome(item)
               /\ BulkIsThere(len) => /\ SubSeq(buf, seekNewline + 2 + 1, seekNewline + 2 + len) = item.data
                                     /\ seekNewline + 2 + len + 2 = pos + Len(ItemBytes(item)) - 1
  <1> DEFINE k == Len(item.text)
             d == item.data
             l == Len(d)
             len == readLongLong(item.text)
             bytes == ItemBytes(item)
             n == Len(bytes)
  <1>1. k \in Nat /\ d \in Seq(Token) /\ l = len /\ l \in Nat /\ n = k + l + 5 /\ LiesAt(bytes, k + 3, d, l)
    BY ItemShape
  <1>2. buf \in Seq(Token) /\ Len(buf) \in Nat /\ pos \in Nat /\ pos <= Len(buf)
    BY DEF ReaderInv
  <1>3. \A i \in 1..(n - 1) : pos + i <= Len(buf) => buf[pos + i] = bytes[i + 1]
    BY DEF Ahead
  <1> HIDE DEF k, d, len, bytes, n
  <1>4. HasCome(item) <=> pos + n - 1 <= Len(buf)
    BY DEF HasCome, n, bytes
  <1>5. BulkIsThere(len) <=> pos + k + 2 + l + 2 <= Len(buf)
    BY <1>1, Zenon DEF BulkIsThere, k
  <1> DEFINE L == l
  <1>6. L \in Nat /\ n = k + L + 5 /\ (BulkIsThere(len) <=> pos + k + 2 + L + 2 <= Len(buf))
    BY <1>1, <1>5
  <1> HIDE DEF L
  <1>7. BulkIsThere(len) <=> HasCome(item)
    BY <1>1, <1>2, <1>4, <1>6
  <1>8. pos + k + 2 + L + 2 = pos + n - 1
    <2>1. L \in Nat /\ n = k + L + 5 /\ k \in Nat /\ pos \in Nat
      BY <1>1, <1>2, <1>6, Zenon
    <2> QED
      BY <2>1
  <1>9. ASSUME BulkIsThere(len) PROVE SubSeq(buf, pos + k + 2 + 1, pos + k + 2 + L) = d
    <2>1. LiesAt(buf, pos + k + 2, d, L)
      <3> SUFFICES ASSUME NEW i \in 1..L PROVE buf[(pos + k + 2) + i] = d[i]
        BY DEF LiesAt
      <3>1. bytes[(k + 3) + i] = d[i]
        BY <1>1 DEF LiesAt, L
      <3>2. /\ (pos + k + 2) + i = pos + (k + 2 + i) /\ k + 2 + i \in 1..(n - 1) /\ pos + (k + 2 + i) <= Len(buf)
            /\ (k + 2 + i) + 1 = (k + 3) + i
        BY <1>1, <1>2, <1>6, <1>9
      <3> QED
        BY <1>3, <3>1, <3>2
    <2>2. pos + k + 2 \in Nat /\ (pos + k + 2) + L <= Len(buf)
      BY <1>1, <1>2, <1>6, <1>9
    <2> QED
      BY <1>1, <1>2, <2>1, <2>2, PieceIs, Zenon DEF L
  <1>10. len = L /\ len \in Nat
    BY <1>1 DEF L
  <1> QED
    BY <1>7, <1>8, <1>9, <1>10, Zenon DEF len, d, k, n, bytes

\* Whether processItem has enough.
LEMMA ReadyWhenHere ==
    ASSUME ReaderInv, NEW item \in Item, WellWritten(item), Ahead(item), InItems,
           item.sign \in DOMAIN TypeOf, Cur.type = TypeOf[item.sign], ~(Cur.type = "array" /\ TooDeep)
    PROVE  /\ ItemReady <=> HasCome(item)
           /\ ItemReady => /\ HasLine /\ Line = item.text /\ seekNewline = pos + Len(item.text)
                           /\ ~IsBulk(item) => seekNewline + 2 = pos + Len(ItemBytes(item)) - 1
  <1> DEFINE k == Len(item.text)
             n == Len(ItemBytes(item))
  <1>1. /\ HasLine <=> pos + k + 2 <= Len(buf)
        /\ HasLine => seekNewline = pos + k /\ Line = item.text
    BY LineFound
  <1>2. pos \in Nat /\ Len(buf) \in Nat
    BY DEF ReaderInv
  <1>3. k \in Nat /\ (~IsBulk(item) => n = k + 3)
    BY ItemShape
  <1>4. Cur.type # "unread" /\ (Cur.type = "string" <=> item.sign = "$")
    BY DEF TypeOf
  <1>5. item.text \in Seq(Token)
    BY ItemShape
  <1>6. readLongLong(item.text) \in Int
    BY <1>5, LongLongType
  <1> HIDE DEF k, n
  <1>7. CASE ~IsBulk(item)
    <2>1. HasCome(item) <=> pos + n - 1 <= Len(buf)
      BY DEF HasCome, n
    <2>2. pos + n - 1 = pos + k + 2
      BY <1>2, <1>3, <1>7
    <2>3. ItemReady <=> HasLine
      <3>1. CASE Cur.type = "string"
        <4>1. readLongLong(item.text) < 0
          BY <1>4, <1>6, <1>7, <3>1 DEF IsBulk
        <4>2. ItemReady <=> HasLine /\ (readLongLong(Line) < 0 \/ BulkIsThere(readLongLong(Line)))
          BY <3>1 DEF ItemReady
        <4> QED
          BY <1>1, <4>1, <4>2
      <3>2. CASE Cur.type # "string"
        BY <1>4, <3>2 DEF ItemReady
      <3> QED
        BY <3>1, <3>2
    <2> QED
      BY <1>1, <1>7, <2>1, <2>2, <2>3, Zenon DEF k, n
  <1>8. CASE IsBulk(item)
    <2>1. Cur.type = "string"
      BY <1>4, <1>8 DEF IsBulk
    <2>2. ItemReady <=> HasLine /\ (readLongLong(Line) < 0 \/ BulkIsThere(readLongLong(Line)))
      BY <2>1 DEF ItemReady
    <2>3. readLongLong(item.text) >= 0 /\ ~(readLongLong(item.text) < 0)
      BY <1>6, <1>8 DEF IsBulk
    <2>4. ItemReady <=> HasLine /\ BulkIsThere(readLongLong(item.text))
      BY <1>1, <2>2, <2>3, Zenon
    <2>5. HasLine => (BulkIsThere(readLongLong(item.text)) <=> HasCome(item))
      BY <1>1, <1>8, StringFound DEF k
    <2>6. HasCome(item) => HasLine
      <3> DEFINE l == Len(item.data)
      <3>1. n = k + l + 5 /\ l \in Nat
        BY <1>8, ItemShape DEF n, k
      <3> HIDE DEF l
      <3>2. HasCome(item) <=> pos + n - 1 <= Len(buf)
        BY DEF HasCome, n
      <3> QED
        BY <1>1, <1>2, <1>3, <3>1, <3>2
    <2> QED
      BY <1>1, <1>8, <2>4, <2>5, <2>6, Zenon DEF k
  <1> QED
    BY <1>7, <1>8

(***************************************************************************)
(* The stack of tasks leads to the place of the item that is read.         *)
(***************************************************************************)

\* The tasks of the stack are for the items on the way to place p of answer a.
OnPath(stack, p, a) ==
    /\ Len(stack) = Len(p) + 1
    /\ \A n \in 1..Len(p) :
          /\ stack[n + 1].idx = p[n]
          /\ \E j \in 1..Len(a) : a[j].path = SubSeq(p, 1, n - 1) /\ stack[n].elements = Elements(a[j])

\* The first task leads to the root.
LEMMA RootTask ==
    ASSUME NEW a
    PROVE  /\ OnPath(<<Task(-1)>>, <<>>, a) /\ <<Task(-1)>> \in Seq(TaskType)
           /\ Last(<<Task(-1)>>).type = "unread"
  <1>1. Task(-1) \in TaskType /\ Task(-1).type = "unread"
    BY NewTask DEF Task
  <1> DEFINE u == <<Task(-1)>>
  <1>2. u \in Seq(TaskType) /\ Len(u) = 1 /\ u[1] = Task(-1)
    BY <1>1
  <1>3. Len(<<>>) = 0
    OBVIOUS
  <1> HIDE DEF u
  <1>4. Last(u).type = "unread"
    BY <1>1, <1>2 DEF Last
  <1>5. OnPath(u, <<>>, a)
    BY <1>2, <1>3 DEF OnPath
  <1> QED
    BY <1>2, <1>4, <1>5 DEF u

\* The path of the task on top is the place.
LEMMA PathIs ==
    ASSUME NEW p \in Seq(Nat), NEW a, OnPath(rstack, p, a)
    PROVE  Path = p
  <1>1. Len(p) \in Nat /\ Len(rstack) = Len(p) + 1 /\ \A n \in 1..Len(p) : rstack[n + 1].idx = p[n]
    BY DEF OnPath
  <1>2. Len(rstack) - 1 = Len(p)
    BY <1>1
  <1>3. Path = [n \in 1..Len(p) |-> p[n]]
    BY <1>1, <1>2 DEF Path
  <1>4. [n \in 1..Len(p) |-> p[n]] = p
    OBVIOUS
  <1> QED
    BY <1>3, <1>4

\* Each task below belongs to the array the item is in.
LEMMA Parents ==
    ASSUME NEW a, Answer(a), NEW j \in 1..Len(a), NEW stack, OnPath(stack, a[j].path, a), NEW n \in 1..Len(a[j].path),
           NEW i \in 1..Len(a), a[i].path = SubSeq(a[j].path, 1, n - 1)
    PROVE  stack[n].elements = Elements(a[i]) /\ a[j].path[n] < Elements(a[i])
  <1>1. PICK k \in 1..Len(a) : a[k].path = SubSeq(a[j].path, 1, n - 1) /\ stack[n].elements = Elements(a[k])
    BY DEF OnPath
  <1>2. k = i
    BY <1>1, Precedes
  <1>3. DOMAIN a = 1..Len(a) /\ a[j].path \in Seq(Nat)
    BY ItemPath
  <1>4. n \in DOMAIN a[j].path
    BY <1>3
  <1>5. PICK l \in 1..Len(a) : a[l].path = SubSeq(a[j].path, 1, n - 1) /\ a[j].path[n] < Elements(a[l])
    BY <1>3, <1>4, Zenon DEF Answer, IsAnswer, HasParents
  <1>6. l = i
    BY <1>5, Precedes
  <1> QED
    BY <1>1, <1>2, <1>5, <1>6

\* A change of the type of the last task.
LEMMA TypeRead ==
    ASSUME NEW stack \in Seq(TaskType), stack # <<>>, NEW p \in Seq(Nat), NEW a, OnPath(stack, p, a),
           NEW type
    PROVE  /\ OnPath([stack EXCEPT ![Len(stack)].type = type], p, a)
           /\ Last([stack EXCEPT ![Len(stack)].type = type]).type = type
           /\ [stack EXCEPT ![Len(stack)].type = type] # <<>>
  <1> DEFINE N == Len(stack)
             u == [stack EXCEPT ![Len(stack)].type = type]
  <1>1. N \in Nat \ {0} /\ Len(p) \in Nat /\ N = Len(p) + 1 /\ DOMAIN stack = 1..N
    BY DEF OnPath
  <1>2. /\ Len(u) = N /\ DOMAIN u = 1..N
        /\ \A k \in 1..N : u[k].idx = stack[k].idx /\ u[k].elements = stack[k].elements
        /\ u[N].type = type
    <2>1. \A k \in 1..N : stack[k] \in TaskType
      OBVIOUS
    <2> QED
      BY <1>1, <2>1 DEF TaskType
  <1> HIDE DEF N, u
  <1>3. OnPath(u, p, a)
    <2>1. \A n \in 1..Len(p) : n \in 1..N /\ n + 1 \in 1..N
      BY <1>1
    <2>2. Len(u) = Len(p) + 1
      BY <1>1, <1>2
    <2> SUFFICES ASSUME NEW n \in 1..Len(p)
                 PROVE  /\ u[n + 1].idx = p[n]
                        /\ \E j \in 1..Len(a) : a[j].path = SubSeq(p, 1, n - 1) /\ u[n].elements = Elements(a[j])
      BY <2>2, Zenon DEF OnPath
    <2>3. /\ stack[n + 1].idx = p[n]
          /\ \E j \in 1..Len(a) : a[j].path = SubSeq(p, 1, n - 1) /\ stack[n].elements = Elements(a[j])
      BY Zenon DEF OnPath
    <2>4. u[n + 1].idx = stack[n + 1].idx /\ u[n].elements = stack[n].elements
      BY <1>2, <2>1, Zenon
    <2> QED
      BY <2>3, <2>4, Zenon
  <1>4. Last(u).type = type
    BY <1>2 DEF Last
  <1>5. u # <<>>
    BY <1>1, <1>2
  <1> QED
    BY <1>3, <1>4, <1>5 DEF u

\* Arithmetic of the places before the last.
LEMMA NotLast ==
    ASSUME NEW n \in Nat, NEW m \in 1..n, m # n
    PROVE  m \in 1..(n - 1) /\ m + 1 \in 1..n
  OBVIOUS

\* Some of the tasks lead to the array that the item at q is in.
Leads(stack, q, a) ==
    /\ Len(q) \in 1..Len(stack)
    /\ \A m \in 1..(Len(q) - 1) : stack[m + 1].idx = q[m]
    /\ \A m \in 1..Len(q) : \E j \in 1..Len(a) : a[j].path = SubSeq(q, 1, m - 1) /\ stack[m].elements = Elements(a[j])

\* A task on top of some of the tasks, for an element of the array they lead to.
LEMMA TaskOnTop ==
    ASSUME NEW stack \in Seq(TaskType), NEW a, NEW q \in Seq(Nat), Leads(stack, q, a),
           NEW u, u = Append(SubSeq(stack, 1, Len(q)), Task(q[Len(q)]))
    PROVE  OnPath(u, q, a) /\ Last(u).type = "unread" /\ u # <<>>
  <1> DEFINE n == Len(q)
  <1>0. /\ n \in Nat \ {0} /\ n <= Len(stack)
        /\ \A m \in 1..(n - 1) : stack[m + 1].idx = q[m]
        /\ \A m \in 1..n : \E j \in 1..Len(a) : a[j].path = SubSeq(q, 1, m - 1) /\ stack[m].elements = Elements(a[j])
    <2>0. Len(stack) \in Nat
      OBVIOUS
    <2>1. n \in 1..Len(stack)
      BY Zenon DEF Leads
    <2>2. n \in Nat \ {0} /\ n <= Len(stack)
      BY <2>0, <2>1
    <2> QED
      BY <2>2, Zenon DEF Leads
  <1>1. n \in 1..n /\ q[n] \in Nat
    BY <1>0
  <1>2. Task(q[n]) \in TaskType /\ Task(q[n]).idx = q[n] /\ Task(q[n]).type = "unread"
    BY <1>1, NewTask DEF Task
  <1> DEFINE s == SubSeq(stack, 1, n)
             t == Task(q[n])
  <1>3. s \in Seq(TaskType) /\ Len(s) = n /\ \A m \in 1..n : s[m] = stack[m]
    <2>1. n \in 0..Len(stack)
      BY <1>0
    <2> QED
      BY <2>1, FirstItems
  <1>4. t \in TaskType /\ t.idx = q[n] /\ t.type = "unread" /\ u = Append(s, t)
    BY <1>2
  <1> HIDE DEF s, t
  <1>5. u \in Seq(TaskType) /\ Len(u) = n + 1 /\ u[n + 1] = t /\ \A m \in 1..n : u[m] = s[m]
    <2>1. Append(s, t) \in Seq(TaskType) /\ Len(Append(s, t)) = Len(s) + 1
          /\ Append(s, t)[Len(s) + 1] = t /\ \A m \in 1..Len(s) : Append(s, t)[m] = s[m]
      BY <1>3, <1>4, OneMore
    <2> QED
      BY <1>3, <1>4, <2>1, Zenon
  <1>6. Last(u).type = "unread"
    BY <1>4, <1>5 DEF Last
  <1>7. u # <<>>
    BY <1>5
  <1>8. OnPath(u, q, a)
    <2>1. Len(u) = Len(q) + 1
      BY <1>5
    <2> SUFFICES ASSUME NEW m \in 1..Len(q)
                 PROVE  /\ u[m + 1].idx = q[m]
                        /\ \E j \in 1..Len(a) : a[j].path = SubSeq(q, 1, m - 1) /\ u[m].elements = Elements(a[j])
      BY <2>1, Zenon DEF OnPath
    <2>2. m \in 1..n /\ n \in Nat
      BY <1>0
    <2>3. u[m] = stack[m]
      BY <1>3, <1>5, <2>2, Zenon
    <2>4. u[m + 1].idx = q[m]
      <3>1. CASE m = n
        BY <1>4, <1>5, <3>1
      <3>2. CASE m # n
        <4>1. m \in 1..(n - 1) /\ m + 1 \in 1..n
          BY <2>2, <3>2, NotLast
        <4>2. u[m + 1] = stack[m + 1] /\ stack[m + 1].idx = q[m]
          BY <1>0, <1>3, <1>5, <4>1, Zenon
        <4> QED
          BY <4>2, Zenon
      <3> QED
        BY <3>1, <3>2
    <2> QED
      BY <1>0, <2>2, <2>3, <2>4, Zenon
  <1> QED
    BY <1>6, <1>7, <1>8

\* The tasks after a complete item lead to the next item, if there is one.
LEMMA NextTask ==
    ASSUME NEW a, Answer(a), NEW j \in 1..Len(a), ~Refused(a[j]), ~(Elements(a[j]) > 0),
           NEW stack \in Seq(TaskType), OnPath(stack, a[j].path, a)
    PROVE  \/ j = Len(a) /\ moveToNextTask(stack) = <<>>
           \/ /\ j < Len(a) /\ OnPath(moveToNextTask(stack), a[j + 1].path, a)
              /\ Last(moveToNextTask(stack)).type = "unread" /\ moveToNextTask(stack) # <<>>
  <1> DEFINE p == a[j].path
             N == Len(stack)
             K == Unfinished(stack)
  <1>1. p \in Seq(Nat) /\ Len(p) \in Nat /\ N = Len(p) + 1 /\ N \in Nat /\ j \in Nat /\ Len(a) \in Nat
    BY ItemPath DEF OnPath
  <1>2. \A n \in 1..Len(p) : /\ stack[n + 1].idx = p[n] /\ p[n] \in Nat
                             /\ \E i \in 1..Len(a) : a[i].path = SubSeq(p, 1, n - 1) /\ stack[n].elements = Elements(a[i])
    <2>1. \A n \in 1..Len(p) : p[n] \in Nat
      BY <1>1
    <2> QED
      BY <2>1, Zenon DEF OnPath
  <1>3. \A n \in 1..Len(p), i \in 1..Len(a) : a[i].path = SubSeq(p, 1, n - 1)
            => stack[n].elements = Elements(a[i]) /\ p[n] < Elements(a[i]) /\ Elements(a[i]) \in Int
    BY Parents, ElementsType
  <1> HIDE DEF p, N
  \* Task n + 1 is the last of its array just if its index is.
  <1>4. ASSUME NEW n \in 1..Len(p), NEW i \in 1..Len(a), a[i].path = SubSeq(p, 1, n - 1)
        PROVE  n + 1 \in K <=> p[n] + 1 < Elements(a[i])
    <2>1. n + 1 \in 2..N /\ (n + 1) - 1 = n
      BY <1>1
    <2>2. n + 1 \in K <=> p[n] # Elements(a[i]) - 1
      BY <1>2, <1>3, <1>4, <2>1 DEF Unfinished, N
    <2>3. \A x \in Nat, y \in Int : x < y => (x # y - 1 <=> x + 1 < y)
      OBVIOUS
    <2>4. p[n] \in Nat /\ Elements(a[i]) \in Int /\ p[n] < Elements(a[i])
      BY <1>2, <1>3, <1>4
    <2> QED
      BY <2>2, <2>3, <2>4, Zenon
  <1>5. CASE K = {}
    <2>1. moveToNextTask(stack) = <<>>
      BY <1>5 DEF moveToNextTask
    <2>2. \A n \in 1..Len(p) : \A i \in 1..Len(a) :
              a[i].path = SubSeq(p, 1, n - 1) => ~(p[n] + 1 < Elements(a[i]))
      BY <1>4, <1>5, Zenon
    <2>3. j = Len(a)
      BY <2>2, NoMoreItems DEF p
    <2> QED
      BY <2>1, <2>3
  <1>6. CASE K # {}
    <2> DEFINE k == Max(K)
               n == k - 1
    <2>1. k \in K /\ \A x \in K : k >= x
      <3>1. K \subseteq 0..N
        BY <1>1 DEF Unfinished, N
      <3> QED
        BY <1>1, <1>6, <3>1, MaxOf
    <2>2. k \in 2..N
      BY <2>1 DEF Unfinished, N
    <2>3. moveToNextTask(stack) = Append(SubSeq(stack, 1, n), Task(stack[k].idx + 1))
      BY <1>6 DEF moveToNextTask
    <2> HIDE DEF K, k
    <2>4. n \in 1..Len(p) /\ k = n + 1 /\ n \in Nat \ {0} /\ n <= N
      BY <1>1, <2>2
    <2>5. PICK i \in 1..Len(a) : a[i].path = SubSeq(p, 1, n - 1)
      BY <1>2, <2>4
    <2>6. p[n] + 1 < Elements(a[i])
      BY <1>4, <2>1, <2>4, <2>5
    <2>7. ASSUME NEW d \in (n + 1)..Len(p), NEW l \in 1..Len(a), a[l].path = SubSeq(p, 1, d - 1)
          PROVE  ~(p[d] + 1 < Elements(a[l]))
      <3>1. d \in 1..Len(p) /\ ~(k >= d + 1)
        BY <1>1, <2>4
      <3> QED
        BY <1>4, <2>1, <2>7, <3>1
    <2> DEFINE q == Append(SubSeq(p, 1, n - 1), p[n] + 1)
    <2>8. j < Len(a) /\ a[j + 1].path = q
      <3> HIDE DEF n
      <3> QED
        BY <2>4, <2>5, <2>6, <2>7, NextSibling DEF p
    <2> HIDE DEF n
    <2>9. p[n] \in Nat /\ p[n] + 1 \in Nat /\ stack[k].idx = p[n]
      BY <1>2, <2>4
    <2>10. q \in Seq(Nat) /\ Len(q) = n /\ q[n] = p[n] + 1 /\ \A m \in 1..(n - 1) : q[m] = p[m]
      <3> DEFINE b == SubSeq(p, 1, n - 1)
      <3>1. b \in Seq(Nat) /\ Len(b) = n - 1 /\ \A m \in 1..(n - 1) : b[m] = p[m]
        <4>1. n - 1 \in 0..Len(p)
          BY <1>1, <2>4
        <4> QED
          BY <1>1, <4>1, FirstItems
      <3> HIDE DEF b
      <3>2. /\ Append(b, p[n] + 1) \in Seq(Nat) /\ Len(Append(b, p[n] + 1)) = Len(b) + 1
            /\ Append(b, p[n] + 1)[Len(b) + 1] = p[n] + 1 /\ \A m \in 1..Len(b) : Append(b, p[n] + 1)[m] = b[m]
        BY <2>9, <3>1, OneMore
      <3>3. (n - 1) + 1 = n
        BY <2>4
      <3>4. q = Append(b, p[n] + 1)
        BY Zenon DEF b
      <3> HIDE DEF q
      <3> QED
        BY <3>1, <3>2, <3>3, <3>4, Zenon
    <2> HIDE DEF q
    <2>11. \A m \in 1..(n - 1) : stack[m + 1].idx = q[m]
      <3>1. \A m \in 1..(n - 1) : m \in 1..Len(p)
        BY <1>1, <2>4
      <3> QED
        BY <1>2, <2>10, <3>1
    <2>12. ASSUME NEW m \in 1..n
           PROVE  \E l \in 1..Len(a) : a[l].path = SubSeq(q, 1, m - 1) /\ stack[m].elements = Elements(a[l])
      <3>1. SubSeq(q, 1, m - 1) = SubSeq(p, 1, m - 1)
        <4>1. m - 1 \in Nat /\ m - 1 \in 0..Len(p) /\ m - 1 \in 0..Len(q) /\ \A x \in 1..(m - 1) : x \in 1..(n - 1)
          BY <1>1, <2>4, <2>10
        <4>2. \A x \in 1..(m - 1) : p[x] = q[x]
          BY <2>10, <4>1
        <4> QED
          BY <1>1, <2>10, <4>1, <4>2, SamePrefix
      <3>2. m \in 1..Len(p)
        BY <1>1, <2>4
      <3> QED
        BY <1>2, <3>1, <3>2
    <2> DEFINE u == Append(SubSeq(stack, 1, n), Task(q[n]))
    <2>13. moveToNextTask(stack) = u
      BY <2>3, <2>9, <2>10 DEF n
    <2>14. OnPath(u, q, a) /\ Last(u).type = "unread" /\ u # <<>>
      <3>1. Len(q) \in 1..Len(stack)
        BY <1>1, <2>4, <2>10 DEF N
      <3>2. Leads(stack, q, a)
        BY <2>10, <2>11, <2>12, <3>1, Zenon DEF Leads
      <3>3. u = Append(SubSeq(stack, 1, Len(q)), Task(q[Len(q)]))
        BY <2>10, Zenon
      <3> HIDE DEF u
      <3> QED
        BY <2>10, <3>2, <3>3, TaskOnTop, Zenon
    <2> HIDE DEF u
    <2> QED
      BY <2>8, <2>13, <2>14
  <1> QED
    BY <1>5, <1>6

\* The tasks after the line of an array lead to its first element.
LEMMA FirstTask ==
    ASSUME NEW a, Answer(a), NEW j \in 1..Len(a), ~Refused(a[j]), Elements(a[j]) > 0,
           NEW stack \in Seq(TaskType), stack # <<>>, OnPath(stack, a[j].path, a),
           NEW u, u = Append([stack EXCEPT ![Len(stack)].elements = Elements(a[j])], Task(0))
    PROVE  j < Len(a) /\ OnPath(u, a[j + 1].path, a) /\ Last(u).type = "unread" /\ u # <<>>
  <1> DEFINE p == a[j].path
             N == Len(stack)
             s == [stack EXCEPT ![N].elements = Elements(a[j])]
             q == Append(p, 0)
  <1>1. p \in Seq(Nat) /\ Len(p) \in Nat /\ N = Len(p) + 1 /\ N \in Nat \ {0}
    BY ItemPath DEF OnPath
  <1>2. j < Len(a) /\ a[j + 1].path = q
    BY FirstElement
  <1>3. \A n \in 1..Len(p) : /\ stack[n + 1].idx = p[n]
                             /\ \E i \in 1..Len(a) : a[i].path = SubSeq(p, 1, n - 1) /\ stack[n].elements = Elements(a[i])
    BY Zenon DEF OnPath
  <1>4. Elements(a[j]) \in Int
    BY ElementsType
  <1> HIDE DEF p
  <1>5. /\ s \in Seq(TaskType) /\ Len(s) = N /\ s[N].elements = Elements(a[j])
        /\ \A k \in 1..N : s[k].idx = stack[k].idx /\ (k # N => s[k].elements = stack[k].elements)
    <2> DEFINE e == Elements(a[j])
               t == [stack[N] EXCEPT !.elements = e]
    <2>1. e \in Int
      BY <1>4
    <2> HIDE DEF e
    <2>2. N \in 1..N /\ stack[N] \in TaskType
      BY <1>1
    <2>3. t \in TaskType /\ t.elements = e /\ t.idx = stack[N].idx
      BY <2>1, <2>2 DEF TaskType
    <2>4. s = [stack EXCEPT ![N] = t]
      BY <1>1 DEF e
    <2> HIDE DEF t, s
    <2>5. s \in Seq(TaskType) /\ Len(s) = N /\ s[N] = t /\ \A k \in 1..N : k # N => s[k] = stack[k]
      BY <2>2, <2>3, <2>4
    <2> QED
      BY <2>3, <2>5, Zenon DEF e
  <1>6. q \in Seq(Nat) /\ Len(q) = N /\ q[N] = 0 /\ \A m \in 1..Len(p) : q[m] = p[m]
    <2>1. Append(p, 0) \in Seq(Nat) /\ Len(Append(p, 0)) = Len(p) + 1 /\ Append(p, 0)[Len(p) + 1] = 0
          /\ \A m \in 1..Len(p) : Append(p, 0)[m] = p[m]
      BY <1>1, OneMore
    <2> HIDE DEF N
    <2> QED
      BY <1>1, <2>1, Zenon
  <1> HIDE DEF s, q, N
  <1>7. ASSUME NEW m \in 1..N PROVE SubSeq(q, 1, m - 1) = SubSeq(p, 1, m - 1)
    <2>1. m - 1 \in Nat /\ m - 1 \in 0..Len(p) /\ m - 1 \in 0..Len(q) /\ \A x \in 1..(m - 1) : x \in 1..Len(p)
      BY <1>1, <1>6
    <2>2. \A x \in 1..(m - 1) : p[x] = q[x]
      BY <1>6, <2>1
    <2> QED
      BY <1>1, <1>6, <2>1, <2>2, SamePrefix
  <1>8. Leads(s, q, a)
    <2>1. \A m \in 1..(N - 1) : m \in 1..Len(p) /\ m + 1 \in 1..N
      BY <1>1
    <2>2. \A m \in 1..(N - 1) : s[m + 1].idx = q[m]
      BY <1>3, <1>5, <1>6, <2>1
    <2>3. ASSUME NEW m \in 1..N
          PROVE  \E l \in 1..Len(a) : a[l].path = SubSeq(q, 1, m - 1) /\ s[m].elements = Elements(a[l])
      <3>1. CASE m = N
        <4>1. SubSeq(p, 1, Len(p)) = p /\ N - 1 = Len(p)
          BY <1>1
        <4>2. a[j].path = SubSeq(q, 1, m - 1)
          BY <1>7, <3>1, <4>1 DEF p
        <4> QED
          BY <1>5, <3>1, <4>2
      <3>2. CASE m # N
        <4>1. m \in 1..Len(p)
          BY <1>1, <3>2
        <4>2. SubSeq(q, 1, m - 1) = SubSeq(p, 1, m - 1) /\ s[m].elements = stack[m].elements
          BY <1>5, <1>7, <3>2
        <4> QED
          BY <1>3, <4>1, <4>2
      <3> QED
        BY <3>1, <3>2
    <2>4. Len(q) \in 1..Len(s)
      BY <1>1, <1>5, <1>6
    <2> QED
      BY <1>6, <2>2, <2>3, <2>4, Zenon DEF Leads
  <1>9. u = Append(SubSeq(s, 1, Len(q)), Task(q[Len(q)]))
    <2>1. SubSeq(s, 1, N) = s
      BY <1>1, <1>5
    <2> QED
      BY <1>6, <2>1, Zenon DEF s, N
  <1>10. OnPath(u, q, a) /\ Last(u).type = "unread" /\ u # <<>>
    BY <1>5, <1>6, <1>8, <1>9, TaskOnTop, Zenon
  <1> QED
    BY <1>2, <1>10

(***************************************************************************)
(* The reply under construction is the part of the answer that was read.   *)
(***************************************************************************)

\* The reply o has the nodes of the first m items of a.
IsPart(o, a, m) ==
    /\ o = [path \in {a[i].path : i \in 1..m} |-> o[path]]
    /\ \A i \in 1..m : o[a[i].path] = ItemNode(a[i])

\* At first there is nothing of the reply.
LEMMA NoPart == ASSUME NEW a PROVE IsPart(NoReply, a, 0)
  <1>1. {a[i].path : i \in 1..0} = {}
    OBVIOUS
  <1>2. NoReply = [path \in {} |-> NoReply[path]]
    BY DEF NoReply
  <1> QED
    BY <1>1, <1>2 DEF IsPart

\* An item more of it.
LEMMA NextPart ==
    ASSUME NEW a, Answer(a), NEW j \in 1..Len(a), NEW o, IsPart(o, a, j - 1), NEW r,
           r = [path \in DOMAIN o \cup {a[j].path} |-> IF path = a[j].path THEN ItemNode(a[j]) ELSE o[path]]
    PROVE  IsPart(r, a, j)
  <1>1. j \in Nat /\ Len(a) \in Nat
    BY ItemPath
  <1>2. DOMAIN o = {a[i].path : i \in 1..(j - 1)} /\ \A i \in 1..(j - 1) : o[a[i].path] = ItemNode(a[i])
    BY DEF IsPart
  <1>3. DOMAIN o \cup {a[j].path} = {a[i].path : i \in 1..j}
    <2>1. \A i : i \in 1..j <=> i \in 1..(j - 1) \/ i = j
      BY <1>1
    <2> QED
      BY <1>2, <2>1
  <1>4. r = [path \in {a[i].path : i \in 1..j} |-> r[path]]
    BY <1>3
  <1>5. ASSUME NEW i \in 1..j PROVE r[a[i].path] = ItemNode(a[i])
    <2>1. a[i].path \in {a[k].path : k \in 1..j}
      OBVIOUS
    <2>2. r[a[i].path] = IF a[i].path = a[j].path THEN ItemNode(a[j]) ELSE o[a[i].path]
      BY <1>3, <2>1
    <2>3. CASE i = j
      BY <2>2, <2>3
    <2>4. CASE i # j
      <3>1. i \in 1..(j - 1) /\ i \in 1..Len(a)
        BY <1>1, <2>4
      <3>2. a[i].path # a[j].path
        BY <2>4, <3>1, Precedes
      <3> QED
        BY <1>2, <2>2, <3>1, <3>2
    <2> QED
      BY <2>3, <2>4
  <1> QED
    BY <1>4, <1>5 DEF IsPart

\* With all items it is the reply.
LEMMA WholeReply ==
    ASSUME NEW a, Answer(a), NEW o, IsPart(o, a, Len(a)), ~Refused(Last(a))
    PROVE  o = AnswerReply(a) /\ o # NoReply
  <1>1. Len(a) \in Nat \ {0} /\ DOMAIN a = 1..Len(a)
    BY ItemPath
  <1> DEFINE P == {a[i].path : i \in 1..Len(a)}
             At1(path) == CHOOSE i \in 1..Len(a) : a[i].path = path
  <1>2. o = [path \in P |-> o[path]] /\ \A i \in 1..Len(a) : o[a[i].path] = ItemNode(a[i])
    BY DEF IsPart
  <1>3. AnswerReply(a) = [path \in P |-> ItemNode(a[At1(path)])]
    BY <1>1 DEF AnswerReply
  <1>4. ASSUME NEW path \in P PROVE o[path] = ItemNode(a[At1(path)])
    <2>1. PICK i \in 1..Len(a) : a[i].path = path
      OBVIOUS
    <2>2. At1(path) \in 1..Len(a) /\ a[At1(path)].path = path
      BY <2>1
    <2> QED
      BY <1>2, <2>2
  <1> HIDE DEF At1
  <1>5. o = AnswerReply(a)
    BY <1>2, <1>3, <1>4
  <1>6. o # NoReply
    <2>1. a[1].path \in P
      BY <1>1
    <2>2. DOMAIN o # {}
      BY <1>2, <2>1
    <2>3. DOMAIN NoReply = {}
      BY DEF NoReply
    <2> QED
      BY <2>2, <2>3
  <1> QED
    BY <1>5, <1>6

\* An answer that ends in what is refused stands for none.
LEMMA RefusedReply ==
    ASSUME NEW a, Refused(Last(a)) PROVE AnswerReply(a) = NoReply
  BY DEF AnswerReply

(***************************************************************************)
(* The buffer is a piece of what the server wrote.                         *)
(***************************************************************************)

\* What the server wrote on this connection.
Stream == FlattenSeq(Sent(answers))

\* The bytes of the stream that are behind the reader.
Consumed == fed - Len(buf) + pos

\* The buffer, and behind it what is still on the wire, are its last bytes.
StreamInv ==
    /\ answers \in Seq(Answers)
    /\ fed \in Nat /\ Len(buf) <= fed /\ fed + Len(wire) = Len(Stream)
    /\ LiesAt(Stream, fed - Len(buf), buf, Len(buf))
    /\ LiesAt(Stream, fed, wire, Len(wire))

\* It is a string of bytes.
LEMMA StreamType ==
    ASSUME NEW ans \in Seq(Answers)
    PROVE  FlattenSeq(Sent(ans)) \in Seq(Token) /\ Len(FlattenSeq(Sent(ans))) \in Nat
  <1>1. FlattenSeq(Sent(ans)) \in Seq(Token)
    BY SentType, FlattenType
  <1> QED
    BY <1>1

\* What the server has written for the first k commands.
BytesOf(ans, k) == Len(Strung(Sent(ans), k))

\* They are those that the property counts.
LEMMA BytesAre ==
    ASSUME NEW ans \in Seq(Answers), NEW k \in 0..Len(ans)
    PROVE  BytesOf(ans, k) = Len(FlattenSeq([j \in 1..k |-> AnswerBytes(ans[j])]))
  <1>1. \A j \in 1..k : j \in 1..Len(ans)
    OBVIOUS
  <1>2. \A j \in 1..k : Sent(ans)[j] = AnswerBytes(ans[j])
    BY <1>1, SentType
  <1>3. [j \in 1..k |-> Sent(ans)[j]] = [j \in 1..k |-> AnswerBytes(ans[j])]
    BY <1>2
  <1> QED
    BY <1>3 DEF BytesOf, Strung

\* No answer is empty.
LEMMA AnswerLength ==
    ASSUME NEW a, Answer(a)
    PROVE  Len(AnswerBytes(a)) \in Nat /\ Len(AnswerBytes(a)) >= 3
  <1> DEFINE p == ItemsOf(a)
  <1>1. p \in Seq(Seq(Token)) /\ Len(p) = Len(a) /\ AnswerBytes(a) = FlattenSeq(p) /\ Len(a) \in Nat \ {0}
    BY ItemsType, ItemPath
  <1>2. p[1] = ItemBytes(a[1]) /\ WellWritten(a[1]) /\ a[1] \in Item
    <2>1. 1 \in 1..Len(a)
      BY <1>1
    <2> QED
      BY <2>1, ItemsType
  <1>3. Len(p[1]) \in Nat /\ Len(p[1]) >= 3
    BY <1>2, ItemLength
  <1> HIDE DEF p
  <1>4. /\ Len(Strung(p, 0)) \in Nat
        /\ Len(Strung(p, 1)) = Len(Strung(p, 0)) + Len(p[1])
        /\ Len(Strung(p, 1)) <= Len(FlattenSeq(p))
    <2>1. 1 \in 1..Len(p) /\ 1 - 1 = 0
      BY <1>1
    <2>2. /\ Len(Strung(p, 1 - 1)) \in Nat
          /\ Len(Strung(p, 1)) = Len(Strung(p, 1 - 1)) + Len(p[1])
          /\ Len(Strung(p, 1)) <= Len(FlattenSeq(p))
      BY <1>1, <2>1, StrungPart
    <2> QED
      BY <2>1, <2>2
  <1>5. FlattenSeq(p) \in Seq(Token)
    BY <1>1, FlattenType
  <1> DEFINE x == Len(Strung(p, 0))
             y == Len(p[1])
             z == Len(FlattenSeq(p))
             v == Len(Strung(p, 1))
  <1>6. x \in Nat /\ y \in Nat /\ y >= 3 /\ v = x + y /\ v <= z /\ z \in Nat
    BY <1>3, <1>4, <1>5
  <1> HIDE DEF x, y, z, v
  <1>7. z \in Nat /\ z >= 3
    BY <1>6
  <1> QED
    BY <1>1, <1>7 DEF z

\* More is written with each answer.
LEMMA MoreBytes ==
    ASSUME NEW ans \in Seq(Answers), NEW k \in 0..Len(ans), NEW n \in 0..Len(ans), k <= n
    PROVE  /\ BytesOf(ans, k) \in Nat /\ BytesOf(ans, n) \in Nat /\ BytesOf(ans, k) <= BytesOf(ans, n)
           /\ BytesOf(ans, n) <= Len(FlattenSeq(Sent(ans)))
           /\ k < n => BytesOf(ans, k) < BytesOf(ans, n)
  <1> DEFINE w == Sent(ans)
             N == Len(ans)
  <1>1. w \in Seq(Seq(Token)) /\ Len(w) = N /\ N \in Nat
    BY SentType
  <1> HIDE DEF w, N
  <1>2. k \in 0..N /\ n \in 0..N
    BY DEF N
  <1>3. \A i \in 0..N : Strung(w, i) \in Seq(Token)
    BY <1>1, StrungType
  <1>4. \A i \in 0..N : Len(Strung(w, i)) \in Nat
    BY <1>3
  <1>5. \A i, l \in 0..N : i <= l => Len(Strung(w, i)) <= Len(Strung(w, l))
    BY <1>1, StrungBegins DEF Begins
  <1>6. Len(Strung(w, N)) = Len(FlattenSeq(w))
    <2>1. N \in 0..Len(w)
      BY <1>1
    <2> QED
      BY <1>1, <2>1, StrungType
  <1>7. ASSUME k < n PROVE Len(Strung(w, k)) < Len(Strung(w, k + 1)) /\ k + 1 \in 0..N /\ k + 1 <= n
    <2>1. k + 1 \in 1..Len(w) /\ (k + 1) - 1 = k /\ k + 1 \in 1..N
      BY <1>1, <1>2, <1>7
    <2>2. Len(Strung(w, k + 1)) = Len(Strung(w, k)) + Len(w[k + 1])
      <3>1. /\ Len(Strung(w, (k + 1) - 1)) \in Nat /\ Len(w[k + 1]) \in Nat
            /\ Len(Strung(w, k + 1)) = Len(Strung(w, (k + 1) - 1)) + Len(w[k + 1])
        BY <1>1, <2>1, StrungPart
      <3> QED
        BY <2>1, <3>1
    <2>3. Len(w[k + 1]) \in Nat /\ Len(w[k + 1]) >= 3
      <3>1. Answer(ans[k + 1]) /\ w[k + 1] = AnswerBytes(ans[k + 1]) /\ k + 1 \in 1..Len(ans)
        BY <2>1, SentType DEF w, N
      <3> QED
        BY <3>1, AnswerLength
    <2> DEFINE x == Len(Strung(w, k))
               y == Len(Strung(w, k + 1))
               z == Len(w[k + 1])
    <2>4. x \in Nat /\ y = x + z /\ z \in Nat /\ z >= 3
      BY <1>2, <1>4, <2>2, <2>3
    <2> HIDE DEF x, y, z
    <2>5. x < y
      BY <2>4
    <2>6. k + 1 \in 0..N /\ k + 1 <= n
      BY <1>1, <1>2, <1>7
    <2> QED
      BY <2>5, <2>6 DEF x, y
  <1> DEFINE f == [i \in 0..N |-> Len(Strung(w, i))]
  <1>8. /\ \A i \in 0..N : f[i] \in Nat /\ f[i] = Len(Strung(w, i))
        /\ \A i, l \in 0..N : i <= l => f[i] <= f[l]
    BY <1>4, <1>5
  <1> HIDE DEF f
  <1>9. k < n => f[k] < f[k + 1] /\ k + 1 \in 0..N /\ k + 1 <= n
    BY <1>2, <1>7, <1>8
  <1>10. f[k] \in Nat /\ f[n] \in Nat /\ f[k] <= f[n] /\ f[n] <= f[N] /\ (k < n => f[k] < f[n])
    <2>1. N \in 0..N /\ n <= N
      BY <1>1, <1>2
    <2>2. k < n => f[k + 1] <= f[n] /\ f[k + 1] \in Nat
      BY <1>2, <1>8, <1>9
    <2> QED
      BY <1>2, <1>8, <1>9, <2>1, <2>2
  <1>11. BytesOf(ans, k) = f[k] /\ BytesOf(ans, n) = f[n] /\ Len(FlattenSeq(w)) = f[N]
    <2>1. N \in 0..N
      BY <1>1
    <2> QED
      BY <1>2, <1>6, <1>8, <2>1 DEF BytesOf, w
  <1> QED
    BY <1>10, <1>11, Zenon DEF w

\* An item of the next answer.
LEMMA ItemOf ==
    ASSUME NEW ans \in Seq(Answers), NEW d \in Nat, d < Len(ans), NEW m \in 1..Len(ans[d + 1])
    PROVE  /\ d + 1 \in 1..Len(ans) /\ (d + 1) - 1 = d /\ Answer(ans[d + 1])
           /\ ans[d + 1][m] \in Item /\ WellWritten(ans[d + 1][m])
           /\ Len(ans[d + 1]) \in Nat \ {0}
           /\ m # Len(ans[d + 1]) => ~Refused(ans[d + 1][m])
           /\ Last(ans[d + 1]) = ans[d + 1][Len(ans[d + 1])]
  <1>1. d + 1 \in 1..Len(ans) /\ (d + 1) - 1 = d
    OBVIOUS
  <1>2. Answer(ans[d + 1])
    BY <1>1, SentType
  <1> DEFINE a == ans[d + 1]
  <1> HIDE DEF a
  <1>3. Answer(a) /\ m \in 1..Len(a)
    BY <1>2 DEF a
  <1>4. a[m] \in Item /\ WellWritten(a[m])
    BY <1>3, ItemsType
  <1>5. Len(a) \in Nat \ {0}
    BY <1>3, ItemPath
  <1>6. m # Len(a) => ~Refused(a[m])
    <2>1. \A i \in 1..(Len(a) - 1) : ~Refused(a[i])
      BY <1>3 DEF Answer, IsAnswer
    <2>2. m # Len(a) => m \in 1..(Len(a) - 1)
      BY <1>3, <1>5
    <2> QED
      BY <2>1, <2>2
  <1>7. Last(a) = a[Len(a)]
    BY DEF Last
  <1> QED
    BY <1>1, <1>3, <1>4, <1>5, <1>6, <1>7 DEF a

\* The item that is read next.
LEMMA ItemAhead ==
    ASSUME ReaderInv, StreamInv, NEW d \in Nat, d < Len(answers), NEW m \in 1..Len(answers[d + 1])
    PROVE  /\ Consumed = Begin(answers, d + 1, m) /\ pos < Len(buf) => At(pos) = answers[d + 1][m].sign
           /\ Consumed = Begin(answers, d + 1, m) + 1 =>
                 /\ Ahead(answers[d + 1][m])
                 /\ HasCome(answers[d + 1][m]) <=> Begin(answers, d + 1, m + 1) <= fed
  <1> DEFINE item == answers[d + 1][m]
             bytes == ItemBytes(item)
             n == Len(bytes)
             B == Begin(answers, d + 1, m)
             C == Begin(answers, d + 1, m + 1)
             N == Len(buf)
             o == fed - N
  <1>1. answers \in Seq(Answers) /\ d + 1 \in 1..Len(answers) /\ item \in Item /\ WellWritten(item)
    BY ItemOf DEF StreamInv
  <1>2. B \in Nat /\ n \in Nat /\ n >= 3 /\ LiesAt(Stream, B, bytes, n) /\ B + n = C
    BY <1>1, StreamAt DEF Stream
  <1>3. pos \in Nat /\ N \in Nat /\ pos <= N /\ fed \in Nat /\ N <= fed /\ LiesAt(Stream, o, buf, N) /\ Consumed = o + pos
    BY DEF ReaderInv, StreamInv, Consumed
  <1>4. bytes[1] = item.sign
    BY <1>1, ItemShape
  <1>5. (HasCome(item) <=> pos + n - 1 <= N)
    BY DEF HasCome
  <1> HIDE DEF item, bytes, n, B, C, N
  <1>6. o \in Nat /\ o + N = fed
    BY <1>3
  <1> HIDE DEF o
  <1>7. \A i \in 1..N : Stream[o + i] = buf[i]
    BY <1>3 DEF LiesAt
  <1>8. \A i \in 1..n : Stream[B + i] = bytes[i]
    BY <1>2 DEF LiesAt
  <1>9. ASSUME o + pos = B, pos < N PROVE At(pos) = item.sign
    <2>1. pos + 1 \in 1..N /\ o + (pos + 1) = B + 1 /\ 1 \in 1..n
      BY <1>2, <1>3, <1>6, <1>9
    <2>2. buf[pos + 1] = Stream[B + 1] /\ Stream[B + 1] = bytes[1]
      BY <1>7, <1>8, <2>1
    <2> QED
      BY <1>4, <2>2 DEF At
  <1>10. ASSUME o + pos = B + 1 PROVE Ahead(item)
    <2> SUFFICES ASSUME NEW i \in 1..(n - 1), pos + i <= N PROVE buf[pos + i] = bytes[i + 1]
      BY DEF Ahead, n, bytes, N
    <2>1. pos + i \in 1..N /\ o + (pos + i) = B + (i + 1) /\ i + 1 \in 1..n
      BY <1>2, <1>3, <1>6, <1>10
    <2> QED
      BY <1>7, <1>8, <2>1
  <1>11. ASSUME o + pos = B + 1 PROVE pos + n - 1 <= N <=> C <= fed
    BY <1>2, <1>3, <1>6, <1>11
  <1>12. Consumed = o + pos
    BY <1>3
  <1> QED
    BY <1>5, <1>9, <1>10, <1>11, <1>12 DEF item, B, C, N

(***************************************************************************)
(* Where the reader is.                                                    *)
(***************************************************************************)

\* It has read d answers, and of the next the items before m, and the type
\* of that one or not even this.
InItem(ans, d, m, stack, o, c) ==
    /\ d < Len(ans) /\ m \in 1..Len(ans[d + 1]) /\ stack # <<>>
    /\ OnPath(stack, ans[d + 1][m].path, ans[d + 1])
    /\ IsPart(o, ans[d + 1], m - 1)
    /\ \/ Last(stack).type = "unread" /\ c = Begin(ans, d + 1, m)
       \/ /\ ans[d + 1][m].sign \in DOMAIN TypeOf /\ Last(stack).type = TypeOf[ans[d + 1][m].sign]
          /\ c = Begin(ans, d + 1, m) + 1

\* It has read all of the next answer.
AtEnd(ans, d, stack, o, c) ==
    /\ d < Len(ans) /\ stack = <<>>
    /\ o = AnswerReply(ans[d + 1]) /\ o # NoReply
    /\ c = BytesOf(ans, d + 1)

\* It has not begun with the next answer.
AtStart(ans, d, stack, o, c) ==
    /\ stack \in {<<>>, <<Task(-1)>>} /\ o = NoReply
    /\ c = BytesOf(ans, d)

\* The first item of an answer begins where the answers before it end.
LEMMA BeginIs ==
    ASSUME NEW ans \in Seq(Answers), NEW d \in Nat, d < Len(ans)
    PROVE  Begin(ans, d + 1, 1) = BytesOf(ans, d) /\ BytesOf(ans, d) \in Nat
  <1> DEFINE a == ans[d + 1]
             p == ItemsOf(a)
  <1>1. d + 1 \in 1..Len(ans) /\ (d + 1) - 1 = d /\ d \in 0..Len(ans)
    OBVIOUS
  <1>2. Answer(a)
    BY <1>1, SentType
  <1>3. p \in Seq(Seq(Token)) /\ Len(p) = Len(a) /\ Len(a) \in Nat
    BY <1>2, ItemsType, ItemPath
  <1> HIDE DEF a, p
  <1>4. Strung(p, 0) = <<>>
    <2>1. 0 \in 0..Len(p)
      BY <1>3
    <2> QED
      BY <1>3, <2>1, StrungType
  <1>5. Len(Strung(p, 0)) = 0
    BY <1>4
  <1>6. BytesOf(ans, d) \in Nat
    BY <1>1, MoreBytes
  <1>7. Begin(ans, d + 1, 1) = BytesOf(ans, d) + Len(Strung(p, 0))
    <2>1. 1 - 1 = 0
      OBVIOUS
    <2> QED
      BY <1>1, <2>1, Zenon DEF Begin, BytesOf, Taken, a, p
  <1> QED
    BY <1>5, <1>6, <1>7

\* The first task is for the root of the next answer.
LEMMA AtFirst ==
    ASSUME NEW ans \in Seq(Answers), NEW d \in Nat, d < Len(ans), NEW o, NEW c,
           AtStart(ans, d, <<Task(-1)>>, o, c)
    PROVE  InItem(ans, d, 1, <<Task(-1)>>, o, c)
  <1>1. d + 1 \in 1..Len(ans)
    OBVIOUS
  <1>2. Answer(ans[d + 1])
    BY <1>1, SentType
  <1> DEFINE a == ans[d + 1]
             u == <<Task(-1)>>
  <1>3. a[1].path = <<>> /\ 1 \in 1..Len(a)
    BY <1>2, RootFirst, ItemPath
  <1>4. OnPath(u, <<>>, a) /\ Last(u).type = "unread"
    BY RootTask
  <1>5. u # <<>>
    OBVIOUS
  <1>6. o = NoReply /\ c = BytesOf(ans, d)
    BY DEF AtStart
  <1> HIDE DEF a, u
  <1>7. IsPart(o, a, 1 - 1)
    <2>1. 1 - 1 = 0
      OBVIOUS
    <2> QED
      BY <1>6, <2>1, NoPart
  <1>8. c = Begin(ans, d + 1, 1)
    BY <1>6, BeginIs
  <1> QED
    BY <1>3, <1>4, <1>5, <1>7, <1>8 DEF InItem, a, u

\* Within an answer.
Amid(ans, d, stack, o, c) == \E m \in Nat : InItem(ans, d, m, stack, o, c)

\* After an item comes the next, or the end of the answer.
LEMMA ItemDone ==
    ASSUME NEW ans \in Seq(Answers), NEW d \in Nat, d < Len(ans), NEW m \in 1..Len(ans[d + 1]),
           ~Refused(ans[d + 1][m]), NEW o, IsPart(o, ans[d + 1], m - 1),
           NEW r, r = [path \in DOMAIN o \cup {ans[d + 1][m].path} |->
                          IF path = ans[d + 1][m].path THEN ItemNode(ans[d + 1][m]) ELSE o[path]],
           NEW stack,
           \/ m = Len(ans[d + 1]) /\ stack = <<>>
           \/ /\ m < Len(ans[d + 1]) /\ OnPath(stack, ans[d + 1][m + 1].path, ans[d + 1])
              /\ Last(stack).type = "unread" /\ stack # <<>>,
           NEW c, c = Begin(ans, d + 1, m + 1)
    PROVE  Amid(ans, d, stack, r, c) \/ AtEnd(ans, d, stack, r, c)
  <1> DEFINE a == ans[d + 1]
  <1>1. /\ d + 1 \in 1..Len(ans) /\ Answer(a) /\ Len(a) \in Nat \ {0} /\ Last(a) = a[Len(a)]
    BY ItemOf
  <1>2. IsPart(r, a, m)
    BY <1>1, NextPart
  <1>3. CASE m = Len(a) /\ stack = <<>>
    <2>1. r = AnswerReply(a) /\ r # NoReply
      BY <1>1, <1>2, <1>3, WholeReply
    <2>2. c = BytesOf(ans, d + 1)
      BY <1>1, <1>3, StreamAt DEF BytesOf
    <2> QED
      BY <1>3, <2>1, <2>2 DEF AtEnd
  <1>4. CASE m < Len(a) /\ OnPath(stack, a[m + 1].path, a) /\ Last(stack).type = "unread" /\ stack # <<>>
    <2>1. m + 1 \in 1..Len(a) /\ (m + 1) - 1 = m /\ m + 1 \in Nat
      BY <1>1, <1>4
    <2>2. IsPart(r, a, (m + 1) - 1)
      BY <1>2, <2>1
    <2> HIDE DEF a
    <2>3. InItem(ans, d, m + 1, stack, r, c)
      BY <1>4, <2>1, <2>2, Zenon DEF InItem, a
    <2> QED
      BY <2>1, <2>3 DEF Amid
  <1> QED
    BY <1>3, <1>4

\* What the step of an item that is complete leaves.
LEMMA ItemStep ==
    ASSUME ReaderInv, StreamInv, NEW d \in Nat, NEW m, InItem(answers, d, m, rstack, objs, Consumed),
           Cur.type # "unread", NEW item, item = answers[d + 1][m], ~Refused(item),
           Create(ItemNode(item)), pos' = pos + Len(ItemBytes(item)) - 1, UNCHANGED <<buf, fed, answers>>,
           rstack' = IF Elements(item) > 0
                     THEN Append([rstack EXCEPT ![Len(rstack)].elements = Elements(item)], Task(0))
                     ELSE moveToNextTask(rstack)
    PROVE  Amid(answers, d, rstack', objs', Consumed') \/ AtEnd(answers, d, rstack', objs', Consumed')
  <1> DEFINE a == answers[d + 1]
             B == Begin(answers, d + 1, m)
             n == Len(ItemBytes(item))
             N == Len(buf)
  <1>1. /\ d < Len(answers) /\ m \in 1..Len(a) /\ rstack # <<>> /\ OnPath(rstack, a[m].path, a)
        /\ IsPart(objs, a, m - 1) /\ Consumed = B + 1
    BY Zenon DEF InItem, Cur
  <1>2. answers \in Seq(Answers) /\ rstack \in Seq(TaskType)
    BY DEF StreamInv, ReaderInv, Stack
  <1>3. /\ d + 1 \in 1..Len(answers) /\ Answer(a) /\ a[m] = item /\ item.path \in Seq(Nat)
    BY <1>1, <1>2, ItemOf, ItemPath
  <1>4. Path = item.path
    BY <1>1, <1>3, PathIs
  <1>5. objs' = [path \in DOMAIN objs \cup {item.path} |-> IF path = item.path THEN ItemNode(item) ELSE objs[path]]
    BY <1>4 DEF Create
  <1>6. Consumed' = Begin(answers, d + 1, m + 1)
    <2>1. B \in Nat /\ n \in Nat /\ B + n = Begin(answers, d + 1, m + 1)
      BY <1>1, <1>2, <1>3, StreamAt
    <2>2. pos \in Nat /\ N \in Nat /\ fed \in Nat /\ fed - N + pos = B + 1
      BY <1>1 DEF ReaderInv, StreamInv, Consumed
    <2>3. Consumed' = fed - N + (pos + n - 1)
      BY DEF Consumed
    <2> HIDE DEF B, n, N
    <2>4. fed - N + (pos + n - 1) = B + n
      BY <2>1, <2>2
    <2> QED
      BY <2>1, <2>3, <2>4
  <1>7. \/ m = Len(a) /\ rstack' = <<>>
        \/ /\ m < Len(a) /\ OnPath(rstack', a[m + 1].path, a)
           /\ Last(rstack').type = "unread" /\ rstack' # <<>>
    <2>1. CASE Elements(item) > 0
      <3>1. rstack' = Append([rstack EXCEPT ![Len(rstack)].elements = Elements(a[m])], Task(0))
        BY <1>3, <2>1
      <3>2. ~Refused(a[m]) /\ Elements(a[m]) > 0
        BY <1>3, <2>1
      <3> HIDE DEF a
      <3> QED
        BY <1>1, <1>2, <1>3, <3>1, <3>2, FirstTask, Zenon
    <2>2. CASE ~(Elements(item) > 0)
      BY <1>1, <1>2, <1>3, <2>2, NextTask
    <2> QED
      BY <2>1, <2>2
  <1> QED
    BY <1>1, <1>2, <1>3, <1>5, <1>6, <1>7, ItemDone

\* What processItem finds when it has enough.
LEMMA ItemIsReady ==
    ASSUME ReaderInv, StreamInv, NEW d \in Nat, NEW m, InItem(answers, d, m, rstack, objs, Consumed),
           InItems, Cur.type # "unread", NEW item, item = answers[d + 1][m]
    PROVE  /\ item \in Item /\ WellWritten(item) /\ Ahead(item)
           /\ item.sign \in DOMAIN TypeOf /\ Cur.type = TypeOf[item.sign]
           /\ Refused(item) <=> Cur.type = "array" /\ TooDeep
           /\ ~Refused(item) =>
                 /\ ItemReady <=> Begin(answers, d + 1, m + 1) <= fed
                 /\ ItemReady => /\ HasLine /\ Line = item.text /\ seekNewline = pos + Len(item.text)
                                 /\ ~IsBulk(item) => seekNewline + 2 = pos + Len(ItemBytes(item)) - 1
  <1>1. /\ d < Len(answers) /\ m \in 1..Len(answers[d + 1]) /\ OnPath(rstack, item.path, answers[d + 1])
        /\ Consumed = Begin(answers, d + 1, m) + 1 /\ item.sign \in DOMAIN TypeOf /\ Cur.type = TypeOf[item.sign]
    BY Zenon DEF InItem, Cur
  <1>2. answers \in Seq(Answers)
    BY DEF StreamInv
  <1>3. item \in Item /\ WellWritten(item)
    BY <1>1, <1>2, ItemOf
  <1>4. Ahead(item) /\ (HasCome(item) <=> Begin(answers, d + 1, m + 1) <= fed)
    BY <1>1, ItemAhead
  <1>5. Refused(item) <=> Cur.type = "array" /\ TooDeep
    <2>1. Len(rstack) = Len(item.path) + 1
      BY <1>1 DEF OnPath
    <2>2. item.sign = "*" <=> Cur.type = "array"
      BY <1>1 DEF TypeOf
    <2> QED
      BY <1>1, <2>1, <2>2 DEF Refused, TooDeep
  <1> QED
    BY <1>1, <1>3, <1>4, <1>5, ReadyWhenHere

\* Only an array has elements.
LEMMA NoElements == ASSUME NEW item, item.sign # "*" PROVE Elements(item) = 0 /\ ~(Elements(item) > 0)
  BY DEF Elements

\* Which types stand for which signs.
LEMMA Signs ==
    ASSUME NEW c \in DOMAIN TypeOf
    PROVE  /\ (TypeOf[c] = "string" <=> c = "$") /\ (TypeOf[c] = "array" <=> c = "*") /\ TypeOf[c] # "unread"
           /\ TypeOf[c] \in {"error", "status", "integer"} =>
                \/ c = "-" /\ TypeOf[c] = "error"
                \/ c = "+" /\ TypeOf[c] = "status"
                \/ c = ":" /\ TypeOf[c] = "integer"
  BY DEF TypeOf

\* processLineItem goes on in the answer or ends it.
LEMMA LineStep ==
    ASSUME ReaderInv, StreamInv, NEW d \in Nat, NEW m, InItem(answers, d, m, rstack, objs, Consumed),
           processLineItem, UNCHANGED <<fed, answers>>
    PROVE  Amid(answers, d, rstack', objs', Consumed') \/ AtEnd(answers, d, rstack', objs', Consumed')
  <1> DEFINE item == answers[d + 1][m]
  <1>1. ItemReady /\ InItems /\ Cur.type \in {"error", "status", "integer"}
    BY DEF processLineItem, ItemReady
  <1>2. Cur.type # "unread" /\ Cur.type # "array"
    BY <1>1
  <1>3. /\ item.sign \in DOMAIN TypeOf /\ Cur.type = TypeOf[item.sign] /\ ~Refused(item)
        /\ HasLine /\ Line = item.text /\ (~IsBulk(item) => seekNewline + 2 = pos + Len(ItemBytes(item)) - 1)
    BY <1>1, <1>2, ItemIsReady
  <1> HIDE DEF item
  <1>4. \/ item.sign = "-" /\ Cur.type = "error"
        \/ item.sign = "+" /\ Cur.type = "status"
        \/ item.sign = ":" /\ Cur.type = "integer"
    BY <1>1, <1>3, Signs
  <1>5. ~IsBulk(item) /\ ~(Elements(item) > 0)
    BY <1>4, NoElements DEF IsBulk
  <1>6. (IF Cur.type = "integer" THEN Node("integer", <<readLongLong(Line)>>) ELSE Node(Cur.type, Line)) = ItemNode(item)
    BY <1>3, <1>4 DEF ItemNode
  <1>7. /\ Create(IF Cur.type = "integer" THEN Node("integer", <<readLongLong(Line)>>) ELSE Node(Cur.type, Line))
        /\ pos' = seekNewline + 2 /\ rstack' = moveToNextTask(rstack) /\ UNCHANGED buf
    BY DEF processLineItem
  <1>8. Create(ItemNode(item))
    BY <1>6, <1>7, Zenon
  <1>9. pos' = pos + Len(ItemBytes(item)) - 1
    BY <1>3, <1>5, <1>7, Zenon
  <1>10. rstack' = IF Elements(item) > 0
                   THEN Append([rstack EXCEPT ![Len(rstack)].elements = Elements(item)], Task(0))
                   ELSE moveToNextTask(rstack)
    BY <1>5, <1>7, Zenon
  <1> QED
    BY <1>2, <1>3, <1>7, <1>8, <1>9, <1>10, ItemStep, Zenon DEF item

\* So does processBulkItem.
LEMMA BulkStep ==
    ASSUME ReaderInv, StreamInv, NEW d \in Nat, NEW m, InItem(answers, d, m, rstack, objs, Consumed),
           processBulkItem, UNCHANGED <<fed, answers>>
    PROVE  Amid(answers, d, rstack', objs', Consumed') \/ AtEnd(answers, d, rstack', objs', Consumed')
  <1> DEFINE item == answers[d + 1][m]
             len == readLongLong(Line)
             s == seekNewline + 2
  <1>1. ItemReady /\ InItems /\ Cur.type = "string"
    BY DEF processBulkItem, ItemReady
  <1>2. Cur.type # "unread" /\ Cur.type # "array"
    BY <1>1
  <1>3. /\ item.sign \in DOMAIN TypeOf /\ Cur.type = TypeOf[item.sign] /\ ~Refused(item) /\ Ahead(item)
        /\ item \in Item /\ WellWritten(item)
        /\ HasLine /\ Line = item.text /\ seekNewline = pos + Len(item.text)
        /\ (~IsBulk(item) => seekNewline + 2 = pos + Len(ItemBytes(item)) - 1)
    BY <1>1, <1>2, ItemIsReady
  <1> HIDE DEF item
  <1>4. item.sign = "$"
    BY <1>1, <1>3, Signs
  <1>5. ~(Elements(item) > 0) /\ (IsBulk(item) <=> len >= 0)
    BY <1>3, <1>4, NoElements DEF IsBulk
  <1>6. len \in Int
    BY <1>3, SeekNewline, LongLongType
  <1>7. /\ \/ len < 0 /\ Create(Node("nil", <<>>)) /\ pos' = s
           \/ len >= 0 /\ Create(Node("string", SubSeq(buf, s + 1, s + len))) /\ pos' = s + len + 2
        /\ rstack' = moveToNextTask(rstack) /\ UNCHANGED buf
    BY DEF processBulkItem
  <1>8. Create(ItemNode(item)) /\ pos' = pos + Len(ItemBytes(item)) - 1
    <2>1. CASE len < 0
      <3>1. ~IsBulk(item) /\ ~(len >= 0)
        BY <1>5, <1>6, <2>1
      <3>2. ItemNode(item) = Node("nil", <<>>)
        BY <1>4, <3>1 DEF ItemNode
      <3> HIDE DEF len
      <3> QED
        BY <1>3, <1>7, <3>1, <3>2, Zenon
    <2>2. CASE len >= 0
      <3>1. IsBulk(item) /\ ~(len < 0) /\ len = readLongLong(item.text)
        BY <1>3, <1>5, <1>6, <2>2
      <3>2. ItemNode(item) = Node("string", item.data)
        BY <1>4, <3>1 DEF ItemNode
      <3>3. BulkIsThere(len)
        <4>1. readLongLong(Line) < 0 \/ BulkIsThere(readLongLong(Line))
          BY <1>1 DEF ItemReady
        <4> QED
          BY <3>1, <4>1
      <3>4. SubSeq(buf, s + 1, s + len) = item.data /\ s + len + 2 = pos + Len(ItemBytes(item)) - 1
        BY <1>3, <3>1, <3>3, StringFound
      <3> HIDE DEF len, s
      <3> QED
        BY <1>7, <3>1, <3>2, <3>4, Zenon
    <2> QED
      BY <1>6, <2>1, <2>2
  <1>9. rstack' = IF Elements(item) > 0
                  THEN Append([rstack EXCEPT ![Len(rstack)].elements = Elements(item)], Task(0))
                  ELSE moveToNextTask(rstack)
    BY <1>5, <1>7, Zenon
  <1> QED
    BY <1>2, <1>3, <1>7, <1>8, <1>9, ItemStep, Zenon DEF item

\* So does processMultiBulkItem, unless the stack is full.
LEMMA MultiBulkStep ==
    ASSUME ReaderInv, StreamInv, NEW d \in Nat, NEW m, InItem(answers, d, m, rstack, objs, Consumed),
           processMultiBulkItem, ~TooDeep, UNCHANGED <<fed, answers>>
    PROVE  Amid(answers, d, rstack', objs', Consumed') \/ AtEnd(answers, d, rstack', objs', Consumed')
  <1> DEFINE item == answers[d + 1][m]
             elements == readLongLong(Line)
  <1>1. ItemReady /\ InItems /\ Cur.type = "array"
    BY DEF processMultiBulkItem, ItemReady
  <1>2. Cur.type # "unread" /\ ~(Cur.type = "array" /\ TooDeep)
    BY <1>1
  <1>3. /\ item.sign \in DOMAIN TypeOf /\ Cur.type = TypeOf[item.sign] /\ ~Refused(item)
        /\ HasLine /\ Line = item.text
        /\ (~IsBulk(item) => seekNewline + 2 = pos + Len(ItemBytes(item)) - 1)
    BY <1>1, <1>2, ItemIsReady
  <1> HIDE DEF item
  <1>4. item.sign = "*"
    BY <1>1, <1>3, Signs
  <1>5. ~IsBulk(item) /\ elements = Elements(item)
    BY <1>3, <1>4 DEF IsBulk, Elements
  <1>6. /\ Create(IF elements = -1 THEN Node("nil", <<>>) ELSE Node("array", <<elements>>))
        /\ rstack' = IF elements > 0
                     THEN Append([rstack EXCEPT ![Len(rstack)].elements = elements], Task(0))
                     ELSE moveToNextTask(rstack)
        /\ pos' = seekNewline + 2 /\ UNCHANGED buf
    BY DEF processMultiBulkItem
  <1> HIDE DEF elements
  <1>7. (IF elements = -1 THEN Node("nil", <<>>) ELSE Node("array", <<elements>>)) = ItemNode(item)
    BY <1>4, <1>5 DEF ItemNode
  <1>8. Create(ItemNode(item))
    BY <1>6, <1>7, Zenon
  <1>9. pos' = pos + Len(ItemBytes(item)) - 1
    BY <1>3, <1>5, <1>6, Zenon
  <1>10. rstack' = IF Elements(item) > 0
                   THEN Append([rstack EXCEPT ![Len(rstack)].elements = Elements(item)], Task(0))
                   ELSE moveToNextTask(rstack)
    BY <1>5, <1>6, Zenon
  <1> QED
    BY <1>2, <1>3, <1>6, <1>8, <1>9, <1>10, ItemStep, Zenon DEF item

\* What is refused ends what the server writes for the command.
LEMMA RefusedLast ==
    ASSUME NEW ans \in Seq(Answers), NEW d \in Nat, d < Len(ans), NEW m \in 1..Len(ans[d + 1]), Refused(ans[d + 1][m])
    PROVE  AnswerReply(ans[d + 1]) = NoReply
  <1>1. Last(ans[d + 1]) = ans[d + 1][m]
    BY ItemOf
  <1> QED
    BY <1>1, RefusedReply

\* A step of an item that is not refused goes on in the answer or ends it.
LEMMA ItemSteps ==
    ASSUME ReaderInv, StreamInv, NEW d \in Nat, NEW m, InItem(answers, d, m, rstack, objs, Consumed),
           readType \/ processLineItem \/ processBulkItem \/ processMultiBulkItem, UNCHANGED <<fed, answers>>
    PROVE  \/ /\ UNCHANGED <<buf, rerr>>
              /\ Amid(answers, d, rstack', objs', Consumed') \/ AtEnd(answers, d, rstack', objs', Consumed')
           \/ SetError("protocol") /\ AnswerReply(answers[d + 1]) = NoReply
  <1> DEFINE a == answers[d + 1]
             item == a[m]
             B == Begin(answers, d + 1, m)
  <1>0. /\ d < Len(answers) /\ m \in 1..Len(a) /\ rstack # <<>> /\ OnPath(rstack, item.path, a)
        /\ IsPart(objs, a, m - 1) /\ answers \in Seq(Answers) /\ rstack \in Seq(TaskType)
    BY DEF InItem, StreamInv, ReaderInv, Stack
  <1>1. CASE readType
    <2>1. Cur.type = "unread" /\ pos < Len(buf)
      BY <1>1 DEF readType, ItemReady
    <2>2. Consumed = B
      <3>1. \/ Cur.type = "unread" /\ Consumed = B
            \/ item.sign \in DOMAIN TypeOf /\ Cur.type = TypeOf[item.sign]
        BY Zenon DEF InItem, Cur
      <3> QED
        BY <2>1, <3>1, Signs
    <2>3. At(pos) = item.sign
      BY <1>0, <2>1, <2>2, ItemAhead
    <2>4. CASE item.sign \in DOMAIN TypeOf
      <3>1. /\ rstack' = [rstack EXCEPT ![Len(rstack)].type = TypeOf[item.sign]]
            /\ pos' = pos + 1 /\ UNCHANGED <<buf, objs, rerr>>
        BY <1>1, <2>3, <2>4 DEF readType
      <3>2. item.path \in Seq(Nat)
        BY <1>0, ItemOf, ItemPath
      <3>3. OnPath(rstack', item.path, a) /\ Last(rstack').type = TypeOf[item.sign] /\ rstack' # <<>>
        <4> DEFINE u == [rstack EXCEPT ![Len(rstack)].type = TypeOf[item.sign]]
        <4> HIDE DEF a, item
        <4>1. OnPath(u, item.path, a) /\ Last(u).type = TypeOf[item.sign] /\ u # <<>>
          BY <1>0, <3>2, TypeRead, Zenon
        <4> HIDE DEF u
        <4>2. rstack' = u
          BY <3>1 DEF u
        <4> QED
          BY <4>1, <4>2, Zenon
      <3>4. Consumed' = B + 1
        <4>1. B = fed - Len(buf) + pos /\ pos \in Nat /\ Len(buf) \in Nat /\ fed \in Nat
          BY <2>2 DEF Consumed, ReaderInv, StreamInv
        <4>2. Consumed' = fed - Len(buf) + (pos + 1)
          BY <3>1 DEF Consumed
        <4> DEFINE N == Len(buf)
        <4> HIDE DEF B, N
        <4>3. fed - N + (pos + 1) = B + 1
          BY <4>1 DEF N
        <4> QED
          BY <4>2, <4>3 DEF N
      <3>5. IsPart(objs', a, m - 1) /\ m \in Nat
        BY <1>0, <3>1
      <3> HIDE DEF a, B, item
      <3>6. InItem(answers, d, m, rstack', objs', Consumed')
        BY <1>0, <2>4, <3>3, <3>4, <3>5, Zenon DEF InItem, a, B, item
      <3> QED
        BY <3>1, <3>5, <3>6 DEF Amid
    <2>5. CASE item.sign \notin DOMAIN TypeOf
      <3>1. SetError("protocol")
        BY <1>1, <2>3, <2>5 DEF readType
      <3>2. Refused(item)
        BY <2>5 DEF Refused
      <3> QED
        BY <1>0, <3>1, <3>2, RefusedLast
    <2> QED
      BY <2>4, <2>5
  <1>2. CASE processLineItem
    BY <1>2, LineStep DEF processLineItem
  <1>3. CASE processBulkItem
    BY <1>3, BulkStep DEF processBulkItem
  <1>4. CASE processMultiBulkItem
    <2>1. CASE ~TooDeep
      BY <1>4, <2>1, MultiBulkStep DEF processMultiBulkItem
    <2>2. CASE TooDeep
      <3>1. SetError("protocol") /\ InItems /\ Cur.type = "array"
        BY <1>4, <2>2 DEF processMultiBulkItem, ItemReady
      <3>2. Refused(item)
        BY <2>2, <3>1, ItemIsReady
      <3> QED
        BY <1>0, <3>1, <3>2, RefusedLast
    <2> QED
      BY <2>1, <2>2
  <1> QED
    BY <1>1, <1>2, <1>3, <1>4

(***************************************************************************)
(* The reader stays within its buffer and its stack.                       *)
(***************************************************************************)

USE ReaderAssumption, ContextAssumption

\* Whatever the bytes are, the reader stays within its buffer and its stack.
LEMMA ReaderSteps ==
    ASSUME ReaderInv, redisReaderSteps
    PROVE  ReaderInv'
  <1>0. /\ buf \in Seq(Token) /\ Len(buf) \in Nat /\ pos \in 0..Len(buf) /\ Stack(rstack)
        /\ rstack \in Seq(TaskType) /\ rerr \in {"none", "protocol"} /\ rpc \in {"idle", "items", "done"}
    BY DEF ReaderInv, Stack
  <1>1. ASSUME NEW type, SetError(type), type = "protocol", rpc' = rpc PROVE ReaderInv'
    <2>1. buf' = <<>> /\ pos' = 0 /\ rstack' = <<>> /\ rerr' = "protocol"
      BY <1>1 DEF SetError
    <2>2. <<>> \in Seq(Token) /\ Len(<<>>) = 0
      OBVIOUS
    <2> QED
      BY <1>0, <1>1, <2>1, <2>2, EmptyStack DEF ReaderInv
  <1>2. CASE redisReaderGetReply
    <2>1. /\ UNCHANGED <<buf, pos, rerr>> /\ rpc' \in {"items", "done"}
          /\ rstack' = rstack \/ rstack' = <<Task(-1)>>
      BY <1>2 DEF redisReaderGetReply
    <2>2. Stack(<<Task(-1)>>)
      <3>1. Task(-1) \in TaskType
        BY NewTask
      <3>2. <<Task(-1)>> \in Seq(TaskType) /\ Len(<<Task(-1)>>) = 1
        BY <3>1
      <3> QED
        BY <3>2 DEF Stack, Nested
    <2> QED
      BY <1>0, <2>1, <2>2 DEF ReaderInv
  <1>3. CASE readType
    <2>1. CASE At(pos) \in DOMAIN TypeOf
      <3> DEFINE N == Len(rstack)
                 t == [rstack[N] EXCEPT !.type = TypeOf[At(pos)]]
      <3>1. /\ rstack # <<>> /\ pos < Len(buf) /\ pos' = pos + 1
            /\ rstack' = [rstack EXCEPT ![Len(rstack)].type = TypeOf[At(pos)]]
            /\ UNCHANGED <<buf, rerr, rpc>>
        BY <1>3, <2>1 DEF readType, ItemReady, InItems, Cur
      <3>2. TypeOf[At(pos)] \in {"error", "status", "integer", "string", "array"}
        BY <2>1 DEF TypeOf
      <3>3. N \in 1..Len(rstack) /\ rstack[N] \in TaskType /\ Last(rstack) = rstack[N]
        BY <1>0, <3>1 DEF Last
      <3>4. t \in TaskType /\ t.idx = Last(rstack).idx
        BY <3>2, <3>3 DEF TaskType
      <3>5. rstack' = [rstack EXCEPT ![Len(rstack)] = t]
        BY <1>0, <3>1
      <3> HIDE DEF t
      <3>6. Stack(rstack')
        <4>1. Stack([rstack EXCEPT ![Len(rstack)] = t])
          BY <1>0, <3>1, <3>4, LastTask, Zenon
        <4> QED
          BY <3>5, <4>1, Zenon
      <3>7. pos' \in 0..Len(buf')
        BY <1>0, <3>1
      <3> QED
        BY <1>0, <3>1, <3>6, <3>7 DEF ReaderInv
    <2>2. CASE At(pos) \notin DOMAIN TypeOf
      BY <1>1, <1>3, <2>2 DEF readType
    <2> QED
      BY <2>1, <2>2
  <1>4. CASE processLineItem
    <2>1. HasLine
      BY <1>4 DEF processLineItem, ItemReady, InItems
    <2>2. UNCHANGED <<buf, rerr, rpc>> /\ pos' = seekNewline + 2 /\ rstack' = moveToNextTask(rstack)
      BY <1>4 DEF processLineItem
    <2>3. pos' \in 0..Len(buf')
      BY <1>0, <2>1, <2>2, SeekNewline
    <2> QED
      BY <1>0, <2>2, <2>3, MoveToNextTask DEF ReaderInv
  <1>5. CASE processBulkItem
    <2> DEFINE len == readLongLong(Line)
    <2>1. HasLine /\ (len < 0 \/ seekNewline + 2 + len + 2 <= Len(buf))
      BY <1>5 DEF processBulkItem, ItemReady, InItems, BulkIsThere
    <2>2. seekNewline \in pos..(Len(buf) - 2) /\ len \in Int
      BY <2>1, SeekNewline, LongLongType
    <2>3. /\ UNCHANGED <<buf, rerr, rpc>> /\ rstack' = moveToNextTask(rstack)
          /\ \/ pos' = seekNewline + 2
             \/ len >= 0 /\ pos' = seekNewline + 2 + len + 2
      BY <1>5 DEF processBulkItem
    <2> HIDE DEF len
    <2>4. pos' \in 0..Len(buf')
      BY <1>0, <2>1, <2>2, <2>3
    <2> QED
      BY <1>0, <2>3, <2>4, MoveToNextTask DEF ReaderInv
  <1>6. CASE processMultiBulkItem
    <2>1. CASE SetError("protocol")
      BY <1>1, <1>6, <2>1 DEF processMultiBulkItem
    <2>2. CASE ~SetError("protocol")
      <3> DEFINE elements == readLongLong(Line)
                 N == Len(rstack)
                 t == [rstack[N] EXCEPT !.elements = elements]
      <3>1. ~TooDeep /\ UNCHANGED <<buf, rerr, rpc>> /\ pos' = seekNewline + 2
        BY <1>6, <2>2 DEF processMultiBulkItem
      <3>2. rstack # <<>> /\ HasLine /\ Cur.type = "array"
        BY <1>6, <3>1 DEF processMultiBulkItem, ItemReady, InItems
      <3>3. rstack' = IF elements > 0
                      THEN Append([rstack EXCEPT ![N].elements = elements], Task(0))
                      ELSE moveToNextTask(rstack)
        BY <1>6, <2>2 DEF processMultiBulkItem
      <3>4. elements \in Int /\ seekNewline \in pos..(Len(buf) - 2)
        BY <3>2, SeekNewline, LongLongType
      <3> HIDE DEF elements
      <3>5. N \in 1..Len(rstack) /\ rstack[N] \in TaskType /\ Last(rstack) = rstack[N] /\ rstack[N].type = "array"
        BY <1>0, <3>2 DEF Last, Cur
      <3>6. t \in TaskType /\ t.idx = Last(rstack).idx /\ t.type = "array" /\ t.elements = elements
        BY <3>4, <3>5 DEF TaskType
      <3>7. [rstack EXCEPT ![N].elements = elements] = [rstack EXCEPT ![Len(rstack)] = t]
        BY <1>0
      <3> HIDE DEF t
      <3>8. Stack(rstack')
        BY <1>0, <3>1, <3>2, <3>3, <3>6, <3>7, LastTask, MoveToNextTask DEF TooDeep
      <3>9. pos' \in 0..Len(buf')
        BY <1>0, <3>1, <3>4
      <3> QED
        BY <1>0, <3>1, <3>8, <3>9 DEF ReaderInv
    <2> QED
      BY <2>1, <2>2
  <1>7. CASE EndItems
    <2>1. rpc' = "done" /\ UNCHANGED <<rstack, rerr>>
      BY <1>7 DEF EndItems
    <2>2. \/ UNCHANGED <<buf, pos>>
          \/ buf' = SubSeq(buf, pos + 1, Len(buf)) /\ pos' = 0
      BY <1>7 DEF EndItems, Discarded
    <2>3. SubSeq(buf, pos + 1, Len(buf)) \in Seq(Token) /\ Len(SubSeq(buf, pos + 1, Len(buf))) \in Nat
      BY <1>0
    <2>4. buf' \in Seq(Token) /\ pos' \in 0..Len(buf')
      <3>1. CASE UNCHANGED <<buf, pos>>
        BY <1>0, <3>1
      <3>2. CASE buf' = SubSeq(buf, pos + 1, Len(buf)) /\ pos' = 0
        <4>1. Len(buf') \in Nat
          BY <2>3, <3>2
        <4> QED
          BY <2>3, <3>2, <4>1
      <3> QED
        BY <2>2, <3>1, <3>2
    <2> QED
      BY <1>0, <2>1, <2>4 DEF ReaderInv
  <1> QED
    BY <1>2, <1>3, <1>4, <1>5, <1>6, <1>7 DEF redisReaderSteps

(***************************************************************************)
(* The inductive invariant of the context.                                 *)
(***************************************************************************)

\* Where the context is between calls, or in one that reads or writes.
Settled == {"idle", "get", "again", "write", "read"}

\* The buffers; between calls the reader is idle.
DataInv ==
    /\ ReaderInv
    /\ obuf \in Seq({"command"}) /\ issued \in 0..MaxCmds /\ Len(obuf) <= issued
    /\ wire \in Seq(Token)
    /\ pc \notin {"get", "again"} => rpc = "idle"

\* How often an address has been reused for the same connect.
TryInv ==
    /\ opts \in Options
    /\ err \in {"none", "io", "eof", "protocol", "other"} /\ rv \in {"ok", "err"}
    /\ reuses \in 0..REDIS_CONNECT_RETRIES
    /\ "UNIX" \in opts => reuses = 0
    /\ pc \in {"socket", "bind", "connect"} => reuses < REDIS_CONNECT_RETRIES

\* The context has a descriptor from socket on, until it closes it or is freed;
\* c->fd is that descriptor, a number below 1, or, if a connect failed since,
\* the number of one that the context has closed.
FdInv ==
    /\ fd \in -1..MaxFds /\ table \in [Fds -> {"free", "ours", "other"}]
    /\ pc \in Settled \cup {"new", "resolve", "socket", "bind", "connect", "wait", "options", "freed"}
    /\ pc \in {"new", "resolve", "socket", "freed"} => Ours = {}
    /\ pc \in {"bind", "connect", "wait", "options"} => fd \in Fds /\ Ours = {fd}
    /\ pc \in Settled => Ours \subseteq {fd} /\ (~stale /\ fd > 0 => Ours = {fd})
    /\ ClosesOwn

\* A connect that failed has set err, and nothing resets it until the next.
ErrInv == rv = "err" /\ pc \in Settled /\ "REUSEADDR" \notin opts => err # "none"

\* All of it.
ContextInv == DataInv /\ TryInv /\ FdInv /\ ErrInv

LEMMA ContextInit == Init => ContextInv
  <1> SUFFICES ASSUME Init PROVE ContextInv
    OBVIOUS
  <1>1. ReaderInv
    BY EmptyStack DEF Init, redisReaderCreate, ReaderInv
  <1>2. DataInv
    BY <1>1 DEF Init, redisReaderCreate, DataInv
  <1>3. TryInv
    BY DEF Init, TryInv
  <1>4. FdInv
    BY DEF Init, FdInv, ClosesOwn, Ours, Settled
  <1>5. ErrInv
    BY DEF Init, ErrInv
  <1> QED
    BY <1>2, <1>3, <1>4, <1>5 DEF ContextInv

(***************************************************************************)
(* Descriptors.                                                            *)
(***************************************************************************)

\* A descriptor that is closed is nobody's.
LEMMA ClosedFd ==
    ASSUME FdInv, NEW f \in Fds, Close(f)
    PROVE  /\ table' \in [Fds -> {"free", "ours", "other"}] /\ Ours' = Ours \ {f}
           /\ alien' => alien \/ f \notin Ours
  BY DEF FdInv, Close, Ours

\* While it connects the context closes the descriptor it has.
LEMMA ClosedOwn ==
    ASSUME FdInv, pc \in {"bind", "connect", "wait", "options"}, redisContextCloseFd
    PROVE  /\ table' \in [Fds -> {"free", "ours", "other"}] /\ Ours' = {} /\ fd' = -1
           /\ alien' => alien
  <1>1. fd \in Fds /\ Ours = {fd}
    BY DEF FdInv
  <1>2. Close(fd) /\ fd' = -1
    BY <1>1 DEF redisContextCloseFd, Fds
  <1> QED
    BY <1>1, <1>2, ClosedFd

\* What redisReconnect and redisFree do with it.
LEMMA ClosedAny ==
    ASSUME FdInv, pc = "idle", IF fd > 0 THEN Close(fd) ELSE UNCHANGED <<table, alien>>
    PROVE  /\ table' \in [Fds -> {"free", "ours", "other"}] /\ Ours' = {}
           /\ alien' => stale
  <1>0. Ours \subseteq {fd} /\ (~stale /\ fd > 0 => Ours = {fd}) /\ (alien => stale) /\ fd \in -1..MaxFds
    BY DEF FdInv, Settled, ClosesOwn
  <1>1. CASE fd > 0
    <2>1. fd \in Fds /\ Close(fd)
      BY <1>0, <1>1 DEF Fds
    <2> QED
      BY <1>0, <1>1, <2>1, ClosedFd
  <1>2. CASE ~(fd > 0)
    <2>1. fd \notin Fds /\ UNCHANGED <<table, alien>>
      BY <1>0, <1>2 DEF Fds
    <2> QED
      BY <1>0, <2>1 DEF Ours, FdInv
  <1> QED
    BY <1>1, <1>2

\* The descriptor that socket returns was free.
LEMMA FreeDescriptor ==
    ASSUME FreeFds # {}
    PROVE  Min(FreeFds) \in Fds /\ table[Min(FreeFds)] = "free"
  <1>1. \A x \in FreeFds : x \in Int /\ x >= 1
    BY DEF FreeFds, Fds
  <1>2. Min(FreeFds) \in FreeFds
    BY <1>1, MinOf
  <1> QED
    BY <1>2 DEF FreeFds

\* The steps of connecting.
LEMMA ConnectFd ==
    ASSUME ContextInv, redisContextConnect
    PROVE  FdInv'
  <1> USE DEF FdInv, ClosesOwn, Settled, Returns
  <1>0. FdInv
    BY DEF ContextInv
  <1>1. table' = table => Ours' = Ours
    BY DEF Ours
  <1>2. CASE redisConnect
    BY <1>0, <1>1, <1>2 DEF redisConnect
  <1>3. CASE Resolve
    BY <1>0, <1>1, <1>3 DEF Resolve
  <1>4. CASE Socket
    <2>1. UNCHANGED alien /\ Ours = {} /\ pc = "socket"
      BY <1>0, <1>4 DEF Socket
    <2>2. ASSUME FreeFds # {}, fd' = Min(FreeFds), table' = [table EXCEPT ![Min(FreeFds)] = "ours"],
                 pc' \in {"bind", "connect"}, stale' = stale
          PROVE  FdInv'
      <3>1. fd' \in Fds
        BY <2>2, FreeDescriptor
      <3>2. Ours' = {fd'} /\ table' \in [Fds -> {"free", "ours", "other"}]
        BY <1>0, <2>1, <2>2, <3>1 DEF Ours
      <3>3. fd' \in -1..MaxFds
        BY <3>1 DEF Fds
      <3> QED
        BY <1>0, <2>1, <2>2, <3>1, <3>2, <3>3
    <2>3. ASSUME UNCHANGED table, fd' = -1, pc' = "idle", stale' = stale PROVE FdInv'
      BY <1>0, <1>1, <2>1, <2>3
    <2>4. ASSUME UNCHANGED <<fd, table, pc, stale>> PROVE FdInv'
      BY <1>0, <1>1, <2>1, <2>4
    <2>5. ASSUME UNCHANGED <<fd, table>>, pc' = "idle", stale' = (stale \/ fd > 0) PROVE FdInv'
      BY <1>0, <1>1, <2>1, <2>5
    <2> QED
      BY <1>4, <2>2, <2>3, <2>4, <2>5 DEF Socket
  <1>5. CASE Bind
    BY <1>0, <1>1, <1>5 DEF Bind
  <1>6. CASE Connect
    <2>1. pc = "connect" /\ UNCHANGED stale
      BY <1>6 DEF Connect
    <2>2. CASE UNCHANGED <<fd, table, alien>> /\ pc' \in {"options", "wait", "idle"}
      BY <1>0, <1>1, <2>1, <2>2
    <2>3. CASE redisContextCloseFd /\ pc' \in {"socket", "idle"}
      <3>1. /\ table' \in [Fds -> {"free", "ours", "other"}] /\ Ours' = {} /\ fd' = -1
            /\ alien' => alien
        BY <1>0, <2>1, <2>3, ClosedOwn
      <3> QED
        BY <1>0, <2>1, <2>3, <3>1
    <2> QED
      BY <1>6, <2>2, <2>3 DEF Connect, TryAgain
  <1>7. CASE redisContextWaitReady
    <2>1. pc = "wait" /\ UNCHANGED stale
      BY <1>7 DEF redisContextWaitReady
    <2>2. CASE UNCHANGED <<fd, table, alien>> /\ pc' \in {"options", "idle"}
      BY <1>0, <1>1, <2>1, <2>2
    <2>3. CASE redisContextCloseFd /\ pc' = "idle"
      <3>1. /\ table' \in [Fds -> {"free", "ours", "other"}] /\ Ours' = {} /\ fd' = -1
            /\ alien' => alien
        BY <1>0, <2>1, <2>3, ClosedOwn
      <3> QED
        BY <1>0, <2>1, <2>3, <3>1
    <2> QED
      BY <1>7, <2>2, <2>3 DEF redisContextWaitReady, redisCheckSocketError
  <1>8. CASE SocketOptions
    <2>1. pc = "options" /\ UNCHANGED stale
      BY <1>8 DEF SocketOptions
    <2>2. CASE UNCHANGED <<fd, table, alien>> /\ pc' = "idle"
      BY <1>0, <1>1, <2>1, <2>2
    <2>3. CASE redisContextCloseFd /\ pc' = "idle"
      <3>1. /\ table' \in [Fds -> {"free", "ours", "other"}] /\ Ours' = {} /\ fd' = -1
            /\ alien' => alien
        BY <1>0, <2>1, <2>3, ClosedOwn
      <3> QED
        BY <1>0, <2>1, <2>3, <3>1
    <2> QED
      BY <1>8, <2>2, <2>3 DEF SocketOptions
  <1> QED
    BY <1>2, <1>3, <1>4, <1>5, <1>6, <1>7, <1>8 DEF redisContextConnect

\* What leaves the descriptors alone, between calls or in one.
LEMMA SettledFd ==
    ASSUME FdInv, pc \in Settled, pc' \in Settled, UNCHANGED <<fd, table, stale, alien>>
    PROVE  FdInv'
  <1>1. Ours' = Ours
    BY DEF Ours
  <1> QED
    BY <1>1 DEF FdInv, ClosesOwn, Settled

\* Reading, writing and getting a reply.
CallSteps ==
    \/ redisAppendCommand
    \/ redisCommand
    \/ redisGetReply
    \/ GetReplySteps
    \/ Events

\* What redisBufferWrite leaves alone.
LEMMA WriteFrame ==
    ASSUME NEW again, NEW next, redisBufferWrite(again, next)
    PROVE  /\ UNCHANGED <<ioUnchanged, readerVars, issued>> /\ pc' \in {"idle", again, next}
           /\ err' \in {err, "io"}
  BY DEF redisBufferWrite, SetErr

\* What redisBufferRead leaves alone.
LEMMA ReadFrame ==
    ASSUME NEW next, redisBufferRead(next)
    PROVE  /\ UNCHANGED <<ioUnchanged, obuf, issued>> /\ pc' \in {"idle", next}
           /\ err' \in {err, "io", "eof"}
  BY DEF redisBufferRead, SetErr

\* They are made between calls or in one, leave the connection as it is and
\* never clear err.
LEMMA CallFrame ==
    ASSUME DataInv, CallSteps
    PROVE  /\ pc \in Settled /\ pc' \in Settled /\ UNCHANGED ioUnchanged
           /\ err' \in {err, "io", "eof", "protocol"}
  <1> USE DEF Settled
  <1>0. rerr \in {"none", "protocol"}
    BY DEF DataInv, ReaderInv
  <1>1. CASE redisAppendCommand
    BY <1>1 DEF redisAppendCommand
  <1>2. CASE redisCommand
    BY <1>2 DEF redisCommand
  <1>3. CASE redisGetReply
    BY <1>3 DEF redisGetReply
  <1>4. CASE GetReplySteps
    <2>1. CASE ReaderRuns
      BY <2>1 DEF ReaderRuns
    <2>2. CASE ReaderReturns
      BY <1>0, <2>2 DEF ReaderReturns, SetErr
    <2>3. CASE pc = "write" /\ redisBufferWrite("write", "read")
      BY <2>3, WriteFrame
    <2>4. CASE pc = "read" /\ redisBufferRead("again")
      BY <2>4, ReadFrame
    <2> QED
      BY <1>4, <2>1, <2>2, <2>3, <2>4 DEF GetReplySteps
  <1>5. CASE Events
    <2>1. pc = "idle"
      BY <1>5 DEF Events
    <2>2. CASE redisBufferWrite("idle", "idle")
      BY <2>1, <2>2, WriteFrame
    <2>3. CASE redisBufferRead("idle")
      BY <2>1, <2>3, ReadFrame
    <2> QED
      BY <1>5, <2>2, <2>3 DEF Events
  <1> QED
    BY <1>1, <1>2, <1>3, <1>4, <1>5 DEF CallSteps

LEMMA FdStep ==
    ASSUME ContextInv, [Next]_vars
    PROVE  FdInv'
  <1>0. FdInv /\ DataInv
    BY DEF ContextInv
  <1>1. CASE OthersOpen
    <2> DEFINE f == Min(FreeFds)
    <2>1. /\ Ours = {} /\ f \in Fds /\ pc # "freed" /\ UNCHANGED <<fd, pc, stale, alien>>
          /\ table' = [table EXCEPT ![f] = "other"]
      BY <1>1, FreeDescriptor DEF OthersOpen
    <2> HIDE DEF f
    <2>2. Ours' = {} /\ table' \in [Fds -> {"free", "ours", "other"}]
      BY <1>0, <2>1 DEF Ours, FdInv
    <2> QED
      BY <1>0, <2>1, <2>2 DEF FdInv, ClosesOwn, Settled
  <1>2. CASE redisContextConnect
    BY <1>2, ConnectFd
  <1>3. CASE redisReconnect
    <2>1. /\ pc = "idle" /\ pc' \in {"socket", "resolve"} /\ UNCHANGED <<fd, stale>>
          /\ IF fd > 0 THEN Close(fd) ELSE UNCHANGED <<table, alien>>
      BY <1>3 DEF redisReconnect
    <2>2. table' \in [Fds -> {"free", "ours", "other"}] /\ Ours' = {} /\ (alien' => stale)
      BY <1>0, <2>1, ClosedAny
    <2> QED
      BY <1>0, <2>1, <2>2 DEF FdInv, ClosesOwn, Settled
  <1>4. CASE redisFree
    <2>1. /\ pc = "idle" /\ pc' = "freed" /\ UNCHANGED <<fd, stale>>
          /\ IF fd > 0 THEN Close(fd) ELSE UNCHANGED <<table, alien>>
      BY <1>4 DEF redisFree
    <2>2. table' \in [Fds -> {"free", "ours", "other"}] /\ Ours' = {} /\ (alien' => stale)
      BY <1>0, <2>1, ClosedAny
    <2> QED
      BY <1>0, <2>1, <2>2 DEF FdInv, ClosesOwn, Settled
  <1>5. CASE CallSteps
    <2>1. pc \in Settled /\ pc' \in Settled /\ UNCHANGED <<fd, table, stale, alien>>
      BY <1>0, <1>5, CallFrame DEF ioUnchanged
    <2> QED
      BY <1>0, <2>1, SettledFd
  <1>6. CASE ServerCloses \/ UNCHANGED vars
    <2>1. UNCHANGED <<fd, table, stale, alien, pc>>
      BY <1>6 DEF ServerCloses, vars, netVars
    <2>2. Ours' = Ours
      BY <2>1 DEF Ours
    <2> QED
      BY <1>0, <2>1, <2>2 DEF FdInv, ClosesOwn
  <1> QED
    BY <1>1, <1>2, <1>3, <1>4, <1>5, <1>6 DEF Next, CallSteps

(***************************************************************************)
(* Tries and errors.                                                       *)
(***************************************************************************)

LEMMA TryStep ==
    ASSUME ContextInv, [Next]_vars
    PROVE  TryInv'
  <1> USE OptionsAssumption DEF TryInv
  <1>0. TryInv /\ DataInv
    BY DEF ContextInv
  <1>1. CASE OthersOpen
    BY <1>0, <1>1 DEF OthersOpen
  <1>2. CASE redisConnect
    BY <1>0, <1>2 DEF redisConnect
  <1>3. CASE Resolve
    BY <1>0, <1>3 DEF Resolve, Returns, connectUnchanged
  <1>4. CASE Socket
    BY <1>0, <1>4 DEF Socket, Returns, connectUnchanged
  <1>5. CASE Bind
    BY <1>0, <1>5 DEF Bind, Returns, connectUnchanged
  <1>6. CASE Connect
    <2>1. pc = "connect" /\ UNCHANGED opts /\ reuses < REDIS_CONNECT_RETRIES
      BY <1>0, <1>6 DEF Connect, connectUnchanged
    <2>2. CASE "REUSEADDR" \in opts /\ TryAgain
      BY <1>0, <2>1, <2>2 DEF TryAgain, Returns
    <2>3. CASE UNCHANGED <<reuses, err, rv>>
      BY <1>0, <2>1, <2>3
    <2>4. CASE UNCHANGED reuses /\ Returns("io")
      BY <1>0, <2>1, <2>4 DEF Returns
    <2> QED
      BY <1>6, <2>2, <2>3, <2>4 DEF Connect
  <1>7. CASE redisContextWaitReady
    BY <1>0, <1>7 DEF redisContextWaitReady, redisCheckSocketError, Returns, connectUnchanged
  <1>8. CASE SocketOptions
    BY <1>0, <1>8 DEF SocketOptions, Returns
  <1>9. CASE redisReconnect
    BY <1>0, <1>9 DEF redisReconnect
  <1>10. CASE redisFree
    BY <1>0, <1>10 DEF redisFree
  <1>11. CASE CallSteps
    BY <1>0, <1>11, CallFrame DEF ioUnchanged, Settled
  <1>12. CASE ServerCloses \/ UNCHANGED vars
    BY <1>0, <1>12 DEF ServerCloses, vars, netVars
  <1> QED
    BY <1>1, <1>2, <1>3, <1>4, <1>5, <1>6, <1>7, <1>8, <1>9, <1>10, <1>11, <1>12
       DEF Next, CallSteps, redisContextConnect

LEMMA ErrStep ==
    ASSUME ContextInv, [Next]_vars
    PROVE  ErrInv'
  <1> USE DEF ErrInv, Settled, Returns
  <1>0. ErrInv /\ DataInv
    BY DEF ContextInv
  <1>1. CASE OthersOpen
    BY <1>0, <1>1 DEF OthersOpen
  <1>2. CASE redisContextConnect
    <2>1. CASE redisConnect \/ Resolve \/ Socket
      BY <1>0, <2>1 DEF redisConnect, Resolve, Socket
    <2>2. CASE Bind
      BY <1>0, <2>2 DEF Bind, connectUnchanged
    <2>3. CASE Connect
      BY <1>0, <2>3 DEF Connect, TryAgain, connectUnchanged
    <2>4. CASE redisContextWaitReady
      BY <1>0, <2>4 DEF redisContextWaitReady, redisCheckSocketError
    <2>5. CASE SocketOptions
      BY <1>0, <2>5 DEF SocketOptions
    <2> QED
      BY <1>2, <2>1, <2>2, <2>3, <2>4, <2>5 DEF redisContextConnect
  <1>3. CASE redisReconnect
    BY <1>0, <1>3 DEF redisReconnect
  <1>4. CASE redisFree
    BY <1>0, <1>4 DEF redisFree
  <1>5. CASE CallSteps
    BY <1>0, <1>5, CallFrame DEF ioUnchanged
  <1>6. CASE ServerCloses \/ UNCHANGED vars
    BY <1>0, <1>6 DEF ServerCloses, vars, netVars
  <1> QED
    BY <1>1, <1>2, <1>3, <1>4, <1>5, <1>6 DEF Next, CallSteps

(***************************************************************************)
(* The buffers.                                                            *)
(***************************************************************************)

\* What the server answers is bytes.
LEMMA AnswersAreBytes ==
    ASSUME NEW n \in Nat, NEW new \in [1..n -> Answers]
    PROVE  FlattenSeq([k \in 1..n |-> AnswerBytes(new[k])]) \in Seq(Token)
  <1>1. \A k \in 1..n : AnswerBytes(new[k]) \in Seq(Token)
    BY AnswersAssumption, ItemsType DEF Answer
  <1>2. [k \in 1..n |-> AnswerBytes(new[k])] \in Seq(Seq(Token))
    BY <1>1
  <1> QED
    BY <1>2, FlattenType

LEMMA WriteData ==
    ASSUME DataInv, NEW again, NEW next, redisBufferWrite(again, next),
           rpc = "idle"
    PROVE  DataInv'
  <1>0. /\ ReaderInv /\ wire \in Seq(Token)
        /\ obuf \in Seq({"command"}) /\ issued \in 0..MaxCmds /\ Len(obuf) <= issued /\ Len(obuf) \in Nat
    BY DEF DataInv
  <1>1. UNCHANGED <<readerVars, issued>>
    BY DEF redisBufferWrite
  <1>2. ReaderInv' /\ rpc' = "idle"
    BY <1>0, <1>1 DEF ReaderInv, readerVars
  <1>3. CASE UNCHANGED <<obuf, wire>>
    BY <1>0, <1>1, <1>2, <1>3 DEF DataInv
  <1>4. ASSUME NEW n \in 1..Len(obuf), obuf' = Rest(n), ServerReceives(n) PROVE DataInv'
    <2>1. obuf' \in Seq({"command"}) /\ Len(obuf') <= issued
      <3>1. SubSeq(obuf, n + 1, Len(obuf)) \in Seq({"command"}) /\ Len(SubSeq(obuf, n + 1, Len(obuf))) <= Len(obuf)
        BY <1>0
      <3>2. Len(SubSeq(obuf, n + 1, Len(obuf))) \in Nat
        BY <3>1
      <3> QED
        BY <1>0, <1>4, <3>1, <3>2 DEF Rest
    <2>2. wire' \in Seq(Token)
      <3>1. CASE wire' = wire
        BY <1>0, <3>1
      <3>2. CASE \E new \in [1..n -> Answers] : wire' = wire \o FlattenSeq([k \in 1..n |-> AnswerBytes(new[k])])
        <4>1. PICK new \in [1..n -> Answers] : wire' = wire \o FlattenSeq([k \in 1..n |-> AnswerBytes(new[k])])
          BY <3>2
        <4>2. FlattenSeq([k \in 1..n |-> AnswerBytes(new[k])]) \in Seq(Token)
          BY AnswersAreBytes
        <4>3. \A x, y \in Seq(Token) : x \o y \in Seq(Token)
          OBVIOUS
        <4> QED
          BY <1>0, <4>1, <4>2, <4>3
      <3> QED
        BY <1>4, <3>1, <3>2 DEF ServerReceives
    <2> QED
      BY <1>0, <1>1, <1>2, <2>1, <2>2 DEF DataInv
  <1> QED
    BY <1>3, <1>4 DEF redisBufferWrite, serverVars

LEMMA ReadData ==
    ASSUME DataInv, NEW next, redisBufferRead(next), rpc = "idle"
    PROVE  DataInv'
  <1>0. ReaderInv /\ wire \in Seq(Token) /\ buf \in Seq(Token) /\ pos \in 0..Len(buf) /\ Len(buf) \in Nat
    BY DEF DataInv, ReaderInv
  <1>1. UNCHANGED <<obuf, issued, rpc>>
    BY DEF redisBufferRead, readerVars
  <1>2. CASE UNCHANGED <<readerVars, wire>>
    <2>1. ReaderInv'
      BY <1>0, <1>2 DEF ReaderInv, readerVars
    <2> QED
      BY <1>1, <1>2, <2>1 DEF DataInv
  <1>3. ASSUME NEW n \in 1..Len(wire), Feed(SubSeq(wire, 1, n)), wire' = SubSeq(wire, n + 1, Len(wire)),
               UNCHANGED <<pos, rstack, rerr>>
        PROVE  DataInv'
    <2>1. SubSeq(wire, 1, n) \in Seq(Token) /\ wire' \in Seq(Token)
      BY <1>0, <1>3
    <2> PICK piece : piece = SubSeq(wire, 1, n)
      OBVIOUS
    <2>2. buf \o piece \in Seq(Token) /\ Len(buf \o piece) = Len(buf) + Len(piece) /\ Len(piece) \in Nat
      BY <1>0, <2>1
    <2>3. buf' \in Seq(Token) /\ pos' \in 0..Len(buf')
      BY <1>0, <1>3, <2>2 DEF Feed
    <2>4. ReaderInv'
      BY <1>0, <1>1, <1>3, <2>3 DEF ReaderInv
    <2> QED
      BY <1>1, <2>1, <2>4 DEF DataInv
  <1> QED
    BY <1>2, <1>3 DEF redisBufferRead

LEMMA DataStep ==
    ASSUME ContextInv, [Next]_vars
    PROVE  DataInv'
  <1>0. /\ DataInv /\ ReaderInv /\ wire \in Seq(Token)
        /\ obuf \in Seq({"command"}) /\ issued \in 0..MaxCmds /\ Len(obuf) <= issued
        /\ (pc \notin {"get", "again"} => rpc = "idle")
    BY DEF ContextInv, DataInv
  <1>1. UNCHANGED readerVars => ReaderInv' /\ rpc' = rpc
    BY <1>0 DEF ReaderInv, readerVars
  <1>2. ASSUME UNCHANGED <<readerVars, obuf, issued, wire>>,
               pc \notin {"get", "again"} \/ pc' = pc
        PROVE  DataInv'
    BY <1>0, <1>1, <1>2 DEF DataInv
  <1>3. CASE OthersOpen \/ redisFree \/ redisGetReply \/ ServerCloses \/ UNCHANGED vars
    BY <1>2, <1>3 DEF OthersOpen, redisFree, redisGetReply, ServerCloses, vars, netVars, serverVars
  <1>4. CASE redisContextConnect
    <2>1. /\ UNCHANGED <<readerVars, obuf, issued, wire>>
          /\ pc \in {"new", "resolve", "socket", "bind", "connect", "wait", "options"}
      BY <1>4 DEF redisContextConnect, redisConnect, Resolve, Socket, Bind, Connect, redisContextWaitReady,
                  SocketOptions, connectUnchanged, serverVars
    <2> QED
      BY <1>2, <2>1
  <1>5. CASE redisReconnect
    <2>1. ReaderInv' /\ rpc' = "idle"
      BY <1>5, EmptyStack DEF redisReconnect, redisReaderRenewed, ReaderInv
    <2>2. obuf' = <<>> /\ wire' = <<>> /\ issued' = issued
      BY <1>5 DEF redisReconnect, NewConnection
    <2> QED
      BY <1>0, <2>1, <2>2 DEF DataInv
  <1>6. CASE redisAppendCommand \/ redisCommand
    <2>1. /\ pc = "idle" /\ issued < MaxCmds /\ issued' = issued + 1 /\ obuf' = Append(obuf, "command")
          /\ UNCHANGED <<readerVars, wire>>
      BY <1>6 DEF redisAppendCommand, redisCommand, serverVars
    <2>2. obuf' \in Seq({"command"}) /\ Len(obuf') = Len(obuf) + 1 /\ Len(obuf) \in Nat
      BY <1>0, <2>1
    <2> QED
      BY <1>0, <1>1, <2>1, <2>2 DEF DataInv
  <1>7. CASE ReaderRuns
    <2>1. redisReaderSteps /\ UNCHANGED <<obuf, issued, wire, pc>> /\ pc \in {"get", "again"}
      BY <1>7 DEF ReaderRuns, serverVars
    <2>2. ReaderInv'
      BY <1>0, <2>1, ReaderSteps
    <2> QED
      BY <1>0, <2>1, <2>2 DEF DataInv
  <1>8. CASE ReaderReturns
    <2>1. UNCHANGED <<buf, pos, rstack, rerr, obuf, issued, wire>> /\ rpc' = "idle"
      BY <1>8 DEF ReaderReturns, serverVars
    <2>2. ReaderInv'
      BY <1>0, <2>1 DEF ReaderInv
    <2> QED
      BY <1>0, <2>1, <2>2 DEF DataInv
  <1>9. CASE pc = "write" /\ redisBufferWrite("write", "read")
    BY <1>0, <1>9, WriteData
  <1>10. CASE pc = "read" /\ redisBufferRead("again")
    BY <1>0, <1>10, ReadData
  <1>11. CASE Events
    <2>1. rpc = "idle" /\ (redisBufferWrite("idle", "idle") \/ redisBufferRead("idle"))
      BY <1>0, <1>11 DEF Events
    <2> QED
      BY <1>0, <2>1, WriteData, ReadData
  <1> QED
    BY <1>3, <1>4, <1>5, <1>6, <1>7, <1>8, <1>9, <1>10, <1>11 DEF Next, GetReplySteps

LEMMA ContextInvariant == Spec => []ContextInv
  <1>1. ContextInv /\ [Next]_vars => ContextInv'
    BY FdStep, TryStep, ErrStep, DataStep DEF ContextInv
  <1> QED
    BY <1>1, ContextInit, PTL DEF Spec

\* Safe: on every path through connecting, retrying and reconnecting the
\* context keeps at most the descriptor c->fd, closes no other's unless a
\* connect failed, and its reader never leaves its buffer or its stack.
THEOREM DescriptorsAreKept == Spec => []Safe
  <1>1. ContextInv => Safe
    <2> SUFFICES ASSUME ContextInv PROVE Safe
      OBVIOUS
    <2>0. DataInv /\ TryInv /\ FdInv
      BY DEF ContextInv
    <2>1. TypeOK
      <3>1. /\ pos \in 0..Len(buf) /\ Len(rstack) <= STACK
            /\ \A k \in 2..Len(rstack) : rstack[k - 1].type = "array" /\ rstack[k].idx < rstack[k - 1].elements
        BY <2>0 DEF DataInv, ReaderInv, Stack, Nested
      <3>2. rpc \in {"idle", "items", "done"} /\ (pc \notin {"get", "again"} => rpc = "idle") /\ rerr \in {"none", "protocol"}
        BY <2>0 DEF DataInv, ReaderInv
      <3>3. Len(obuf) <= MaxCmds
        <4>1. Len(obuf) \in Nat /\ issued \in 0..MaxCmds /\ Len(obuf) <= issued
          BY <2>0 DEF DataInv
        <4> QED
          BY <4>1
      <3> QED
        BY <2>0, <3>1, <3>2, <3>3 DEF TypeOK, TryInv, FdInv
    <2>2. NoDescriptorLeaks
      BY <2>0 DEF FdInv, NoDescriptorLeaks
    <2> QED
      BY <2>0, <2>1, <2>2 DEF Safe, FdInv
  <1> QED
    BY <1>1, ContextInvariant, PTL

\* ErrTells: a connect that failed has left an error, unless the address is
\* to be reused.
THEOREM FailureIsTold == Spec => []ErrTells
  <1>1. ContextInv => ErrTells
    BY DEF ContextInv, ErrInv, ErrTells, Settled
  <1> QED
    BY <1>1, ContextInvariant, PTL

(***************************************************************************)
(* What has been given, and where in the answers the reader is.            *)
(***************************************************************************)

\* A whole reply that its call has yet to give to the user.
Handed == rpc = "done" /\ aux # NoReply

\* The answers that the reader has given the replies of.
Done == Len(given) + (IF Handed THEN 1 ELSE 0)

\* What the user may get.
Replies == {AnswerReply(a) : a \in Answers}

\* The replies are those of the answers so far.
GivenInv ==
    /\ given \in Seq(Replies) /\ Done <= Len(answers)
    /\ \A k \in DOMAIN given : given[k] = AnswerReply(answers[k])
    /\ Handed => rerr = "none" /\ aux = AnswerReply(answers[Done])

\* The reader is before the next answer, within it or, in its loop, at its end.
Place(ans, d, stack, o, c, p) ==
    \/ AtStart(ans, d, stack, o, c) /\ (p = "items" => stack # <<>>)
    \/ Amid(ans, d, stack, o, c)
    \/ p = "items" /\ AtEnd(ans, d, stack, o, c)

\* It refuses only what is no reply.
PlaceInv ==
    /\ rpc = "items" => aux = NoReply
    /\ rerr = "none" => Place(answers, Done, rstack, objs, Consumed, rpc)
    /\ rerr # "none" => Len(given) < Len(answers) /\ AnswerReply(answers[Len(given) + 1]) = NoReply

\* All replies that have come whole have been given.
Short == \A k \in DOMAIN answers : Bytes(k) <= fed => k <= Len(given)

\* It gives none only if none is there, and refuses what the context refuses.
ShortInv ==
    /\ rpc = "done" /\ rerr = "none" /\ aux = NoReply => Short
    /\ starved /\ err = "none" => Short
    /\ err = "protocol" => rerr = "protocol"

\* The invariant of replies.
ReplyInv == StreamInv /\ GivenInv /\ PlaceInv /\ ShortInv

\* The number of replies, in a state of the reader and in the one after a step.
LEMMA DoneIs ==
    ASSUME GivenInv
    PROVE  /\ Len(given) \in Nat /\ Done \in Nat /\ DOMAIN given = 1..Len(given)
           /\ rpc # "done" \/ aux = NoReply => Done = Len(given)
           /\ Handed => Done = Len(given) + 1
  <1>1. Len(given) \in Nat /\ DOMAIN given = 1..Len(given)
    BY DEF GivenInv
  <1>2. Handed => Done = Len(given) + 1
    BY DEF Done
  <1>3. ~Handed => Done = Len(given)
    BY <1>1 DEF Done
  <1>4. rpc # "done" \/ aux = NoReply => ~Handed
    BY DEF Handed
  <1> QED
    BY <1>1, <1>2, <1>3, <1>4

\* Nothing of an answer's bytes beyond those of the answers before it is a
\* whole answer.
LEMMA ShortOfNext ==
    ASSUME StreamInv, NEW d \in Nat, d <= Len(answers), d < Len(answers) => fed < BytesOf(answers, d + 1)
    PROVE  \A k \in DOMAIN answers : Bytes(k) <= fed => k <= d
  <1>1. answers \in Seq(Answers) /\ Len(answers) \in Nat /\ DOMAIN answers = 1..Len(answers) /\ fed \in Nat
    BY DEF StreamInv
  <1> SUFFICES ASSUME NEW k \in 1..Len(answers), Bytes(k) <= fed, ~(k <= d) PROVE FALSE
    BY <1>1
  <1>2. d < Len(answers) /\ d + 1 \in 0..Len(answers) /\ k \in 0..Len(answers) /\ d + 1 <= k
    BY <1>1
  <1>3. Bytes(k) = BytesOf(answers, k)
    BY <1>1, <1>2, BytesAre DEF Bytes
  <1>4. BytesOf(answers, d + 1) \in Nat /\ BytesOf(answers, k) \in Nat /\ BytesOf(answers, d + 1) <= BytesOf(answers, k)
    BY <1>1, <1>2, MoreBytes
  <1> DEFINE x == BytesOf(answers, d + 1)
             y == BytesOf(answers, k)
  <1> HIDE DEF x, y
  <1>5. fed < x /\ x <= y /\ y <= fed /\ x \in Nat /\ y \in Nat
    BY <1>2, <1>3, <1>4 DEF x, y
  <1> QED
    BY <1>1, <1>5

\* All that the server wrote is all its answers.
LEMMA AllBytes ==
    ASSUME answers \in Seq(Answers)
    PROVE  BytesOf(answers, Len(answers)) = Len(Stream) /\ Len(Stream) \in Nat
  <1>1. Sent(answers) \in Seq(Seq(Token)) /\ Len(Sent(answers)) = Len(answers) /\ Len(answers) \in Nat
    BY SentType
  <1>2. Strung(Sent(answers), Len(Sent(answers))) = FlattenSeq(Sent(answers))
    <2>1. Len(Sent(answers)) \in 0..Len(Sent(answers))
      BY <1>1
    <2> QED
      BY <1>1, <2>1, StrungType
  <1> QED
    BY <1>1, <1>2, StreamType DEF BytesOf, Stream

\* Where an item of the next answer is.
LEMMA ItemEnds ==
    ASSUME StreamInv, NEW d \in Nat, NEW m, InItem(answers, d, m, rstack, objs, Consumed)
    PROVE  /\ d < Len(answers) /\ m \in 1..Len(answers[d + 1])
           /\ BytesOf(answers, d + 1) \in Nat /\ Begin(answers, d + 1, m + 1) \in Nat
           /\ Consumed < Begin(answers, d + 1, m + 1)
           /\ Begin(answers, d + 1, m + 1) <= BytesOf(answers, d + 1)
  <1> DEFINE B == Begin(answers, d + 1, m)
             C == Begin(answers, d + 1, m + 1)
             n == Len(ItemBytes(answers[d + 1][m]))
             e == BytesOf(answers, d + 1)
  <1>1. answers \in Seq(Answers) /\ d < Len(answers) /\ m \in 1..Len(answers[d + 1])
    BY DEF StreamInv, InItem
  <1>2. d + 1 \in 1..Len(answers)
    BY <1>1, ItemOf
  <1>3. B \in Nat /\ n \in Nat /\ n >= 3 /\ B + n = C /\ C <= e /\ e \in Nat
    BY <1>1, <1>2, StreamAt DEF BytesOf
  <1>4. Consumed = B \/ Consumed = B + 1
    BY DEF InItem
  <1> HIDE DEF B, C, n, e
  <1>5. C \in Nat /\ Consumed < C /\ C <= e
    BY <1>3, <1>4
  <1> QED
    BY <1>1, <1>3, <1>5 DEF B, C, e

\* A reader that has consumed all it was fed has no whole answer left.
LEMMA AllConsumed ==
    ASSUME StreamInv, NEW d \in Nat, d < Len(answers), Consumed = fed,
           \/ AtStart(answers, d, rstack, objs, Consumed)
           \/ Amid(answers, d, rstack, objs, Consumed)
    PROVE  fed < BytesOf(answers, d + 1)
  <1>0. answers \in Seq(Answers) /\ Len(answers) \in Nat /\ fed \in Nat
    BY DEF StreamInv
  <1>1. CASE AtStart(answers, d, rstack, objs, Consumed)
    <2>1. fed = BytesOf(answers, d)
      BY <1>1 DEF AtStart
    <2>2. d \in 0..Len(answers) /\ d + 1 \in 0..Len(answers) /\ d <= d + 1 /\ d < d + 1
      BY <1>0
    <2> QED
      BY <1>0, <2>1, <2>2, MoreBytes
  <1>2. CASE Amid(answers, d, rstack, objs, Consumed)
    <2>1. PICK m \in Nat : InItem(answers, d, m, rstack, objs, Consumed)
      BY <1>2 DEF Amid
    <2> DEFINE e == BytesOf(answers, d + 1)
               C == Begin(answers, d + 1, m + 1)
    <2>2. e \in Nat /\ C \in Nat /\ fed < C /\ C <= e
      BY <2>1, ItemEnds
    <2> HIDE DEF e, C
    <2>3. fed < e
      BY <1>0, <2>2
    <2> QED
      BY <2>3 DEF e
  <1> QED
    BY <1>1, <1>2

\* Nor has one that cannot go on with the current item.
LEMMA NotReady ==
    ASSUME ReaderInv, StreamInv, InItems, ~ItemReady, NEW d \in Nat, d < Len(answers),
           \/ AtStart(answers, d, rstack, objs, Consumed)
           \/ Amid(answers, d, rstack, objs, Consumed)
    PROVE  fed < BytesOf(answers, d + 1)
  <1>0. fed \in Nat /\ pos \in 0..Len(buf) /\ Len(buf) \in Nat
    BY DEF StreamInv, ReaderInv
  <1>1. CASE Cur.type = "unread"
    <2>1. ~(pos < Len(buf))
      BY <1>1 DEF ItemReady
    <2>2. Consumed = fed
      BY <1>0, <2>1 DEF Consumed
    <2> QED
      BY <2>2, AllConsumed
  <1>2. CASE Cur.type # "unread"
    <2>1. ~AtStart(answers, d, rstack, objs, Consumed)
      <3> SUFFICES ASSUME rstack \in {<<>>, <<Task(-1)>>} PROVE FALSE
        BY DEF AtStart
      <3>1. rstack = <<Task(-1)>>
        BY DEF InItems
      <3>2. Last(<<Task(-1)>>) = Task(-1) /\ Task(-1).type = "unread"
        BY DEF Last, Task
      <3> QED
        BY <1>2, <3>1, <3>2 DEF Cur
    <2>2. PICK m \in Nat : InItem(answers, d, m, rstack, objs, Consumed)
      BY <2>1 DEF Amid
    <2> DEFINE item == answers[d + 1][m]
    <2>3. /\ Refused(item) <=> Cur.type = "array" /\ TooDeep
          /\ ~Refused(item) => (ItemReady <=> Begin(answers, d + 1, m + 1) <= fed)
      BY <1>2, <2>2, ItemIsReady
    <2>4. ~(Cur.type = "array" /\ TooDeep)
      BY DEF ItemReady
    <2>5. ~(Begin(answers, d + 1, m + 1) <= fed)
      BY <2>3, <2>4
    <2> DEFINE e == BytesOf(answers, d + 1)
               C == Begin(answers, d + 1, m + 1)
    <2>6. e \in Nat /\ C \in Nat /\ C <= e
      BY <2>2, ItemEnds
    <2> HIDE DEF e, C
    <2>7. fed < e
      BY <1>0, <2>5, <2>6 DEF C
    <2> QED
      BY <2>7 DEF e
  <1> QED
    BY <1>1, <1>2

\* Nothing is anywhere.
LEMMA NothingLies == \A s, j : LiesAt(s, j, <<>>, 0)
  BY DEF LiesAt

\* A connection on which nothing has been sent.
NothingSent ==
    /\ answers = <<>> /\ given = <<>> /\ fed = 0 /\ starved = FALSE /\ wire = <<>> /\ err = "none"
    /\ buf = <<>> /\ pos = 0 /\ rstack = <<>> /\ objs = NoReply /\ rerr = "none" /\ rpc = "idle" /\ aux = NoReply

\* A connection begins with nothing sent and nothing given.
LEMMA ReplyBegins == NothingSent => ReplyInv
  <1> SUFFICES ASSUME NothingSent PROVE ReplyInv
    OBVIOUS
  <1>1. answers \in Seq(Answers) /\ Len(answers) = 0 /\ Len(<<>>) = 0 /\ DOMAIN answers = {}
    BY DEF NothingSent
  <1>2. Len(Stream) = 0 /\ BytesOf(answers, 0) = 0
    <2>1. Sent(answers) = <<>>
      <3>1. Sent(answers) \in Seq(Seq(Token)) /\ Len(Sent(answers)) = 0
        BY <1>1, SentType
      <3> QED
        BY <3>1
    <2>2. FlattenSeq(Sent(answers)) = <<>>
      BY <2>1, FlattenEmpty
    <2>3. BytesOf(answers, 0) = Len(Stream)
      BY <1>1, AllBytes
    <2> QED
      BY <2>2, <2>3 DEF Stream
  <1>3. StreamInv
    BY <1>1, <1>2, NothingLies DEF NothingSent, StreamInv
  <1>4. ~Handed /\ Done = 0
    BY <1>1 DEF NothingSent, Handed, Done
  <1>5. GivenInv
    <2>1. <<>> \in Seq(Replies) /\ DOMAIN <<>> = {}
      OBVIOUS
    <2> QED
      BY <1>1, <1>4, <2>1 DEF GivenInv, NothingSent
  <1>6. Consumed = 0
    <2>1. Consumed = 0 - 0 + 0
      BY <1>1 DEF Consumed, NothingSent
    <2> QED
      BY <2>1
  <1>7. AtStart(answers, Done, rstack, objs, Consumed)
    BY <1>2, <1>4, <1>6 DEF AtStart, NothingSent
  <1>8. PlaceInv
    BY <1>7 DEF PlaceInv, Place, NothingSent
  <1>9. ShortInv
    BY DEF ShortInv, NothingSent
  <1> QED
    BY <1>3, <1>5, <1>8, <1>9 DEF ReplyInv

\* A step that concerns neither the reader nor the server, and sets err at most
\* for a reason of its own.
LEMMA OtherSteps ==
    ASSUME ReplyInv, UNCHANGED <<readerVars, wire, answers, given, fed, starved>>,
           err' \in {err, "io", "eof", "other"}
    PROVE  ReplyInv'
  <1>1. StreamInv' /\ Consumed' = Consumed
    BY DEF ReplyInv, StreamInv, Stream, Consumed, readerVars
  <1>2. GivenInv' /\ Done' = Done
    BY DEF ReplyInv, GivenInv, Done, Handed, readerVars
  <1>3. PlaceInv'
    BY <1>1, <1>2 DEF ReplyInv, PlaceInv, readerVars
  <1>4. Short' = Short
    BY DEF Short, Bytes
  <1>5. ShortInv'
    BY <1>4 DEF ReplyInv, ShortInv, readerVars
  <1> QED
    BY <1>1, <1>2, <1>3, <1>5 DEF ReplyInv

(***************************************************************************)
(* The reader.                                                             *)
(***************************************************************************)

\* What a step of the reader leaves alone.
ReaderFrame == UNCHANGED <<err, wire, answers, given, fed, starved>>

\* A step of the reader after which no reply is at hand.
LEMMA StillGiven ==
    ASSUME GivenInv, ReaderFrame, rpc # "done" \/ aux = NoReply, rpc' # "done" \/ aux' = NoReply
    PROVE  GivenInv' /\ Done = Len(given) /\ Done' = Len(given) /\ Short' = Short
  <1>1. ~Handed /\ ~Handed'
    BY DEF Handed
  <1>2. Done = Len(given) /\ Len(given) \in Nat
    BY <1>1, DoneIs DEF Handed
  <1>3. Done' = Len(given)
    BY <1>1, <1>2 DEF Done, ReaderFrame
  <1>4. GivenInv'
    BY <1>1, <1>2, <1>3 DEF GivenInv, ReaderFrame
  <1>5. Short' = Short
    BY DEF Short, Bytes, ReaderFrame
  <1> QED
    BY <1>2, <1>3, <1>4, <1>5

\* redisReaderGetReply begins: it has a task for the first item, or nothing.
LEMMA GetReplyStep ==
    ASSUME ReaderInv, ReplyInv, redisReaderGetReply, ReaderFrame
    PROVE  ReplyInv'
  <1>0. StreamInv /\ GivenInv /\ PlaceInv /\ ShortInv
    BY DEF ReplyInv
  <1>1. rpc = "idle" /\ aux' = NoReply /\ UNCHANGED <<buf, pos, objs, rerr>> /\ rpc' \in {"done", "items"}
    BY DEF redisReaderGetReply
  <1>2. GivenInv' /\ Done = Len(given) /\ Done' = Len(given) /\ Short' = Short /\ Len(given) \in Nat
    BY <1>0, <1>1, StillGiven, DoneIs
  <1>3. StreamInv' /\ Consumed' = Consumed
    BY <1>0, <1>1 DEF StreamInv, Stream, Consumed, ReaderFrame
  <1>4. rerr = "none" => \/ AtStart(answers, Done, rstack, objs, Consumed)
                         \/ Amid(answers, Done, rstack, objs, Consumed)
    BY <1>0, <1>1 DEF PlaceInv, Place
  <1>5. CASE rerr # "none" \/ buf = <<>>
    <2>1. rpc' = "done" /\ rstack' = rstack
      BY <1>5 DEF redisReaderGetReply
    <2>2. PlaceInv'
      BY <1>0, <1>1, <1>2, <1>3, <1>4, <2>1 DEF PlaceInv, Place, ReaderFrame
    <2>3. rerr = "none" => Short
      <3> SUFFICES ASSUME rerr = "none" PROVE Short
        OBVIOUS
      <3>1. buf = <<>> /\ Len(buf) = 0 /\ pos = 0 /\ fed \in Nat
        BY <1>0, <1>5 DEF ReaderInv, StreamInv
      <3>2. Consumed = fed
        BY <3>1 DEF Consumed
      <3>3. Done < Len(answers) => fed < BytesOf(answers, Done + 1)
        BY <1>0, <1>2, <1>4, <3>2, AllConsumed
      <3> QED
        BY <1>0, <1>2, <3>3, ShortOfNext DEF Short, GivenInv
    <2>4. ShortInv'
      BY <1>0, <1>1, <1>2, <2>1, <2>3 DEF ShortInv, ReaderFrame
    <2> QED
      BY <1>2, <1>3, <2>2, <2>4 DEF ReplyInv
  <1>6. CASE ~(rerr # "none" \/ buf = <<>>)
    <2>1. rpc' = "items" /\ rstack' = (IF rstack = <<>> THEN <<Task(-1)>> ELSE rstack) /\ rerr = "none"
      BY <1>6 DEF redisReaderGetReply
    <2>2. PlaceInv'
      <3>1. Place(answers, Done, rstack', objs, Consumed, "items")
        <4>1. CASE rstack = <<>>
          <5>1. AtStart(answers, Done, rstack, objs, Consumed)
            BY <1>4, <2>1, <4>1 DEF Amid, InItem
          <5>2. rstack' = <<Task(-1)>> /\ <<Task(-1)>> # <<>>
            BY <2>1, <4>1
          <5> QED
            BY <5>1, <5>2 DEF Place, AtStart
        <4>2. CASE rstack # <<>>
          BY <1>4, <2>1, <4>2 DEF Place
        <4> QED
          BY <4>1, <4>2
      <3> QED
        BY <1>1, <1>2, <1>3, <2>1, <3>1 DEF PlaceInv, ReaderFrame
    <2>3. ShortInv'
      BY <1>0, <1>1, <1>2, <2>1 DEF ShortInv, ReaderFrame
    <2> QED
      BY <1>2, <1>3, <2>2, <2>3 DEF ReplyInv
  <1> QED
    BY <1>5, <1>6

\* A reader that goes on with an item is within an answer.
LEMMA WhenReady ==
    ASSUME ReaderInv, StreamInv, ItemReady, NEW d \in Nat, d <= Len(answers),
           Place(answers, d, rstack, objs, Consumed, rpc)
    PROVE  \E m \in Nat : InItem(answers, d, m, rstack, objs, Consumed)
  <1>0. /\ fed \in Nat /\ pos \in 0..Len(buf) /\ Len(buf) \in Nat /\ answers \in Seq(Answers) /\ Len(answers) \in Nat
        /\ Len(wire) \in Nat /\ fed + Len(wire) = Len(Stream) /\ rstack # <<>>
    BY DEF StreamInv, ReaderInv, ItemReady, InItems
  <1>1. CASE AtStart(answers, d, rstack, objs, Consumed)
    <2>1. rstack = <<Task(-1)>> /\ Consumed = BytesOf(answers, d)
      BY <1>0, <1>1 DEF AtStart
    <2>2. Cur.type = "unread"
      <3>1. Last(<<Task(-1)>>) = Task(-1) /\ Task(-1).type = "unread"
        BY DEF Last, Task
      <3> QED
        BY <2>1, <3>1 DEF Cur
    <2>3. pos < Len(buf)
      BY <2>2 DEF ItemReady
    <2>4. Consumed < fed
      BY <1>0, <2>3 DEF Consumed
    <2>5. d < Len(answers)
      <3> SUFFICES ASSUME d = Len(answers) PROVE FALSE
        BY <1>0
      <3>1. Consumed = Len(Stream) /\ Len(Stream) \in Nat
        BY <1>0, <2>1, AllBytes
      <3> DEFINE L == Len(Stream)
                 W == Len(wire)
      <3> HIDE DEF L, W
      <3>2. L < fed /\ fed + W = L /\ L \in Nat /\ W \in Nat
        BY <1>0, <2>4, <3>1 DEF L, W
      <3> QED
        BY <1>0, <3>2
    <2>6. InItem(answers, d, 1, rstack, objs, Consumed)
      BY <1>0, <1>1, <2>1, <2>5, AtFirst
    <2> QED
      BY <2>6
  <1>2. CASE Amid(answers, d, rstack, objs, Consumed)
    BY <1>2 DEF Amid
  <1>3. CASE AtEnd(answers, d, rstack, objs, Consumed)
    BY <1>0, <1>3 DEF AtEnd
  <1> QED
    BY <1>1, <1>2, <1>3 DEF Place

\* An item is read.
LEMMA ItemReplyStep ==
    ASSUME ReaderInv, ReplyInv, readType \/ processLineItem \/ processBulkItem \/ processMultiBulkItem, ReaderFrame
    PROVE  ReplyInv'
  <1>0. StreamInv /\ GivenInv /\ PlaceInv /\ ShortInv
    BY DEF ReplyInv
  <1>1. ItemReady /\ UNCHANGED <<rpc, aux>>
    BY DEF readType, processLineItem, processBulkItem, processMultiBulkItem
  <1>2. rpc = "items" /\ rerr = "none" /\ aux = NoReply
    BY <1>0, <1>1 DEF ItemReady, InItems, PlaceInv
  <1>3. GivenInv' /\ Done = Len(given) /\ Done' = Len(given) /\ Short' = Short /\ Len(given) \in Nat /\ Done <= Len(answers)
    BY <1>0, <1>1, <1>2, StillGiven, DoneIs DEF GivenInv
  <1>4. PICK m \in Nat : InItem(answers, Done, m, rstack, objs, Consumed)
    BY <1>0, <1>1, <1>2, <1>3, WhenReady DEF PlaceInv
  <1>5. \/ /\ UNCHANGED <<buf, rerr>>
           /\ Amid(answers, Done, rstack', objs', Consumed') \/ AtEnd(answers, Done, rstack', objs', Consumed')
        \/ SetError("protocol") /\ AnswerReply(answers[Done + 1]) = NoReply
    BY <1>0, <1>3, <1>4, ItemSteps DEF ReaderFrame
  <1>6. ShortInv'
    BY <1>0, <1>1, <1>2, <1>3 DEF ShortInv, ReaderFrame
  <1>7. CASE UNCHANGED <<buf, rerr>> /\ (Amid(answers, Done, rstack', objs', Consumed') \/ AtEnd(answers, Done, rstack', objs', Consumed'))
    <2>1. StreamInv'
      BY <1>0, <1>7 DEF StreamInv, Stream, ReaderFrame
    <2>2. PlaceInv'
      BY <1>1, <1>2, <1>3, <1>7 DEF PlaceInv, Place, ReaderFrame
    <2> QED
      BY <1>3, <1>6, <2>1, <2>2 DEF ReplyInv
  <1>8. CASE SetError("protocol") /\ AnswerReply(answers[Done + 1]) = NoReply
    <2>1. buf' = <<>> /\ rerr' = "protocol" /\ Len(<<>>) = 0
      BY <1>8 DEF SetError
    <2>2. StreamInv'
      BY <1>0, <2>1, NothingLies DEF StreamInv, Stream, ReaderFrame
    <2>3. Done < Len(answers)
      BY <1>4 DEF InItem
    <2>4. PlaceInv'
      BY <1>1, <1>2, <1>3, <1>8, <2>1, <2>3 DEF PlaceInv, ReaderFrame
    <2> QED
      BY <1>3, <1>6, <2>2, <2>4 DEF ReplyInv
  <1> QED
    BY <1>5, <1>7, <1>8

\* What is left of the buffer is the same piece of the stream, and the reader
\* has consumed as much.
LEMMA AfterDiscard ==
    ASSUME ReaderInv, StreamInv, buf' = Discarded.buf, pos' = Discarded.pos, ReaderFrame
    PROVE  StreamInv' /\ Consumed' = Consumed
  <1> DEFINE N == Len(buf)
             w == SubSeq(buf, pos + 1, N)
  <1>0. /\ buf \in Seq(Token) /\ N \in Nat /\ pos \in 0..N /\ fed \in Nat /\ N <= fed
        /\ LiesAt(Stream, fed - N, buf, N)
    BY DEF ReaderInv, StreamInv
  <1>1. CASE buf' = buf /\ pos' = pos
    BY <1>1 DEF StreamInv, Stream, Consumed, ReaderFrame
  <1>2. CASE buf' = w /\ pos' = 0
    <2>1. Len(w) = N - pos /\ \A i \in 1..(N - pos) : w[i] = buf[pos + i]
      BY <1>0
    <2> HIDE DEF w, N
    <2>2. LiesAt(buf, pos, w, N - pos)
      BY <2>1 DEF LiesAt
    <2>3. /\ fed - N \in Nat /\ pos \in Nat /\ N - pos \in Nat /\ pos + (N - pos) <= N
          /\ fed - N + pos = fed - (N - pos) /\ N - pos <= fed
      BY <1>0
    <2>4. LiesAt(Stream, fed - N + pos, w, N - pos)
      BY <1>0, <2>2, <2>3, PartOfPart
    <2>5. StreamInv'
      BY <1>2, <2>1, <2>3, <2>4 DEF StreamInv, Stream, ReaderFrame
    <2>6. Consumed = fed - N + pos /\ Consumed' = fed - (N - pos) + 0
      BY <1>2, <2>1 DEF Consumed, N, ReaderFrame
    <2>7. fed - (N - pos) + 0 = fed - N + pos
      BY <1>0
    <2> QED
      BY <2>5, <2>6, <2>7
  <1> QED
    BY <1>1, <1>2 DEF Discarded

\* redisReaderGetReply ends, with a whole reply, an error or too few bytes.
LEMMA EndItemsStep ==
    ASSUME ReaderInv, ReplyInv, EndItems, ReaderFrame
    PROVE  ReplyInv'
  <1>0. StreamInv /\ GivenInv /\ PlaceInv /\ ShortInv
    BY DEF ReplyInv
  <1>1. rpc = "items" /\ ~ItemReady /\ rpc' = "done" /\ UNCHANGED <<rstack, rerr>> /\ aux = NoReply
    BY <1>0 DEF EndItems, PlaceInv
  <1>2. Done = Len(given) /\ Len(given) \in Nat /\ Done <= Len(answers) /\ DOMAIN given = 1..Len(given)
    BY <1>0, <1>1, DoneIs DEF GivenInv
  <1>3. CASE rerr # "none"
    <2>1. UNCHANGED <<buf, pos, objs, aux>>
      BY <1>3 DEF EndItems
    <2>2. GivenInv' /\ Done' = Len(given) /\ Short' = Short
      BY <1>0, <1>1, <2>1, StillGiven
    <2>3. StreamInv'
      BY <1>0, <2>1 DEF StreamInv, Stream, ReaderFrame
    <2>4. PlaceInv' /\ ShortInv'
      BY <1>0, <1>1, <1>3, <2>2 DEF PlaceInv, ShortInv, ReaderFrame
    <2> QED
      BY <2>2, <2>3, <2>4 DEF ReplyInv
  <1>4. CASE rerr = "none" /\ rstack = <<>>
    <2>1. buf' = Discarded.buf /\ pos' = Discarded.pos /\ aux' = objs /\ objs' = NoReply
      BY <1>4 DEF EndItems
    <2>2. StreamInv' /\ Consumed' = Consumed
      BY <1>0, <2>1, AfterDiscard
    <2>3. AtEnd(answers, Done, rstack, objs, Consumed)
      BY <1>0, <1>1, <1>4 DEF PlaceInv, Place, Amid, InItem
    <2>4. Done < Len(answers) /\ aux' = AnswerReply(answers[Done + 1]) /\ aux' # NoReply /\ Consumed = BytesOf(answers, Done + 1)
      BY <2>1, <2>3 DEF AtEnd
    <2>5. Handed' /\ Done' = Done + 1
      <3>1. Handed'
        BY <1>1, <2>4 DEF Handed
      <3> QED
        BY <1>2, <3>1 DEF Done, ReaderFrame
    <2>6. GivenInv'
      BY <1>0, <1>1, <1>2, <1>4, <2>4, <2>5 DEF GivenInv, ReaderFrame, StreamInv
    <2>7. AtStart(answers, Done + 1, rstack, NoReply, Consumed)
      BY <1>4, <2>4 DEF AtStart
    <2>8. PlaceInv'
      BY <1>1, <1>4, <2>1, <2>2, <2>5, <2>7 DEF PlaceInv, Place, ReaderFrame
    <2>9. Short' = Short
      BY DEF Short, Bytes, ReaderFrame
    <2>10. ShortInv'
      BY <1>0, <1>1, <1>4, <2>4, <2>9 DEF ShortInv, ReaderFrame
    <2> QED
      BY <2>2, <2>6, <2>8, <2>10 DEF ReplyInv
  <1>5. CASE rerr = "none" /\ rstack # <<>>
    <2>1. buf' = Discarded.buf /\ pos' = Discarded.pos /\ aux' = NoReply /\ objs' = objs
      BY <1>5 DEF EndItems
    <2>2. StreamInv' /\ Consumed' = Consumed
      BY <1>0, <2>1, AfterDiscard
    <2>3. GivenInv' /\ Done' = Len(given) /\ Short' = Short
      BY <1>0, <1>1, <2>1, StillGiven
    <2>4. \/ AtStart(answers, Done, rstack, objs, Consumed)
          \/ Amid(answers, Done, rstack, objs, Consumed)
      BY <1>0, <1>5 DEF PlaceInv, Place, AtEnd
    <2>5. PlaceInv'
      BY <1>1, <1>2, <1>5, <2>1, <2>2, <2>3, <2>4 DEF PlaceInv, Place, ReaderFrame
    <2>6. Short
      <3>1. Done < Len(answers) => fed < BytesOf(answers, Done + 1)
        BY <1>0, <1>1, <1>2, <1>5, <2>4, NotReady DEF InItems
      <3> QED
        BY <1>0, <1>2, <3>1, ShortOfNext DEF Short
    <2>7. ShortInv'
      BY <1>0, <1>1, <1>5, <2>3, <2>6 DEF ShortInv, ReaderFrame
    <2> QED
      BY <2>2, <2>3, <2>5, <2>7 DEF ReplyInv
  <1> QED
    BY <1>3, <1>4, <1>5

\* Each step of the reader.
LEMMA ReaderRunsStep ==
    ASSUME ReaderInv, ReplyInv, ReaderRuns
    PROVE  ReplyInv'
  <1>1. redisReaderSteps /\ ReaderFrame
    BY DEF ReaderRuns, serverVars, historyVars, ReaderFrame
  <1> QED
    BY <1>1, GetReplyStep, ItemReplyStep, EndItemsStep DEF redisReaderSteps

\* The reply goes to the user, in its turn.
LEMMA ReaderReturnsStep ==
    ASSUME ReaderInv, ReplyInv, ReaderReturns
    PROVE  ReplyInv'
  <1>0. StreamInv /\ GivenInv /\ PlaceInv /\ ShortInv
    BY DEF ReplyInv
  <1>1. /\ rpc = "done" /\ rpc' = "idle" /\ UNCHANGED <<buf, pos, rstack, objs, rerr, aux, wire, answers, fed>>
        /\ rerr \in {"none", "protocol"}
    BY DEF ReaderReturns, serverVars, ReaderInv
  <1>2. StreamInv' /\ Consumed' = Consumed
    BY <1>0, <1>1 DEF StreamInv, Stream, Consumed
  <1>3. /\ Len(given) \in Nat /\ Done \in Nat /\ DOMAIN given = 1..Len(given) /\ Done <= Len(answers)
        /\ given \in Seq(Replies)
    BY <1>0, DoneIs DEF GivenInv
  <1>4. ~Handed' /\ Done' = Len(given')
    <2>1. ~Handed'
      BY <1>1 DEF Handed
    <2>2. Len(given') \in Nat
      <3>1. CASE given' = given
        BY <1>3, <3>1
      <3>2. CASE Handed /\ given' = Append(given, aux)
        <4>1. Len(given') = Len(given) + 1
          BY <1>3, <3>2
        <4> QED
          BY <1>3, <4>1
      <3> QED
        BY <1>1, <3>1, <3>2 DEF ReaderReturns, Handed
    <2> QED
      BY <2>1, <2>2 DEF Done
  <1>5. rerr = "none" => \/ AtStart(answers, Done, rstack, objs, Consumed)
                         \/ Amid(answers, Done, rstack, objs, Consumed)
    BY <1>0, <1>1 DEF PlaceInv, Place
  <1>6. CASE given' = given /\ ~Handed
    <2>1. aux = NoReply
      BY <1>1, <1>6 DEF Handed
    <2>2. Done = Len(given) /\ Done' = Len(given)
      BY <1>0, <1>4, <1>6, <2>1, DoneIs
    <2>3. Short' = Short
      BY <1>1, <1>6 DEF Short, Bytes
    <2>4. GivenInv'
      BY <1>0, <1>1, <1>4, <1>6, <2>2 DEF GivenInv
    <2>5. PlaceInv'
      BY <1>0, <1>1, <1>2, <1>5, <1>6, <2>2 DEF PlaceInv, Place
    <2>6. \/ rerr # "none" /\ err' = rerr /\ starved' = starved
          \/ rerr = "none" /\ err' = err
      BY <2>1 DEF ReaderReturns, SetErr
    <2>7. ShortInv'
      BY <1>0, <1>1, <2>1, <2>3, <2>6 DEF ShortInv
    <2> QED
      BY <1>2, <2>4, <2>5, <2>7 DEF ReplyInv
  <1>7. CASE Handed
    <2>1. rerr = "none" /\ aux = AnswerReply(answers[Done]) /\ Done = Len(given) + 1
      BY <1>0, <1>7, DoneIs DEF GivenInv
    <2>2. given' = Append(given, aux) /\ UNCHANGED <<err, starved>>
      BY <1>7, <2>1 DEF ReaderReturns, Handed
    <2>3. answers \in Seq(Answers) /\ Done \in 1..Len(answers) /\ answers[Done] \in Answers
      <3>1. answers \in Seq(Answers) /\ Len(answers) \in Nat
        BY <1>0 DEF StreamInv
      <3>2. Done \in 1..Len(answers)
        BY <1>3, <2>1, <3>1
      <3> QED
        BY <3>1, <3>2
    <2>4. aux \in Replies
      BY <2>1, <2>3 DEF Replies
    <2>5. /\ given' \in Seq(Replies) /\ Len(given') = Done /\ DOMAIN given' = 1..Done
          /\ given'[Done] = aux /\ \A k \in 1..Len(given) : given'[k] = given[k]
      BY <1>3, <2>1, <2>2, <2>4
    <2>6. \A k \in 1..Done : k = Done \/ k \in 1..Len(given)
      BY <1>3, <2>1
    <2>7. Done' = Done
      BY <1>4, <2>5
    <2>8. GivenInv'
      <3>1. \A k \in DOMAIN given' : given'[k] = AnswerReply(answers[k])
        BY <1>0, <1>3, <2>1, <2>5, <2>6 DEF GivenInv
      <3> QED
        BY <1>1, <1>3, <1>4, <2>5, <2>7, <3>1 DEF GivenInv
    <2>9. PlaceInv'
      BY <1>1, <1>2, <1>5, <2>1, <2>7 DEF PlaceInv, Place
    <2>10. Short => Short'
      <3> SUFFICES ASSUME Short, NEW k \in DOMAIN answers, Bytes(k) <= fed PROVE k <= Done
        BY <1>1, <2>5 DEF Short, Bytes
      <3>1. k <= Len(given) /\ k \in Nat
        BY <2>3 DEF Short
      <3> QED
        BY <1>3, <2>1, <3>1
    <2>11. ShortInv'
      BY <1>0, <1>1, <2>1, <2>2, <2>10 DEF ShortInv
    <2> QED
      BY <1>2, <2>8, <2>9, <2>11 DEF ReplyInv
  <1> QED
    BY <1>6, <1>7 DEF ReaderReturns, Handed

(***************************************************************************)
(* Writing and reading.                                                    *)
(***************************************************************************)

\* A string behind another.
LEMMA LiesTogether ==
    ASSUME NEW s, NEW x \in Seq(Token), NEW y \in Seq(Token), NEW j \in Nat,
           LiesAt(s, j, x, Len(x)), LiesAt(s, j + Len(x), y, Len(y))
    PROVE  LiesAt(s, j, x \o y, Len(x) + Len(y))
  <1> DEFINE n == Len(x)
             m == Len(y)
             z == x \o y
  <1>1. /\ n \in Nat /\ m \in Nat
        /\ (\A i \in 1..n : z[i] = x[i]) /\ (\A i \in 1..m : z[n + i] = y[i])
    BY Behind
  <1>2. (\A i \in 1..n : s[j + i] = x[i]) /\ (\A i \in 1..m : s[(j + n) + i] = y[i])
    BY DEF LiesAt
  <1> HIDE DEF n, m, z
  <1> SUFFICES ASSUME NEW i \in 1..(n + m) PROVE s[j + i] = z[i]
    BY DEF LiesAt, n, m, z
  <1>3. CASE i <= n
    <2>1. i \in 1..n
      BY <1>1, <1>3
    <2> QED
      BY <1>1, <1>2, <2>1
  <1>4. CASE ~(i <= n)
    <2> DEFINE h == i - n
    <2>1. h \in 1..m /\ n + h = i /\ (j + n) + h = j + i
      BY <1>1, <1>4
    <2> HIDE DEF h
    <2>2. z[n + h] = y[h] /\ s[(j + n) + h] = y[h]
      BY <1>1, <1>2, <2>1
    <2> QED
      BY <2>1, <2>2
  <1> QED
    BY <1>3, <1>4

\* What lies in a string lies in it when another is put behind it.
LEMMA StillLies ==
    ASSUME NEW s \in Seq(Token), NEW t \in Seq(Token), NEW w, NEW j \in Nat, NEW n \in Nat,
           LiesAt(s, j, w, n), j + n <= Len(s)
    PROVE  LiesAt(s \o t, j, w, n)
  <1>1. LiesAt(s \o t, 0, s, Len(s)) /\ Len(s) \in Nat
    BY LiesBehind
  <1>2. 0 + j = j /\ 0 \in Nat
    OBVIOUS
  <1> DEFINE z == s \o t
             l == Len(s)
  <1> HIDE DEF z, l
  <1>3. LiesAt(z, 0, s, l) /\ j + n <= l /\ l \in Nat
    BY <1>1 DEF z, l
  <1>4. LiesAt(z, 0 + j, w, n)
    BY <1>2, <1>3, PartOfPart, Zenon
  <1> QED
    BY <1>2, <1>4, Zenon DEF z

\* What is made of two strings is one behind the other.
LEMMA ConcatIs ==
    ASSUME NEW B, NEW x \in Seq(B), NEW y \in Seq(B), NEW z \in Seq(B), Len(z) = Len(x) + Len(y),
           \A i \in 1..Len(x) : z[i] = x[i], \A i \in 1..Len(y) : z[Len(x) + i] = y[i]
    PROVE  z = x \o y
  <1> DEFINE u == x \o y
             j == Len(x)
             k == Len(y)
  <1>1. /\ u \in Seq(B) /\ Len(u) = j + k /\ j \in Nat /\ k \in Nat
        /\ (\A i \in 1..j : u[i] = x[i]) /\ (\A i \in 1..k : u[j + i] = y[i])
    BY Behind
  <1>2. Len(z) = j + k /\ (\A i \in 1..j : z[i] = x[i]) /\ (\A i \in 1..k : z[j + i] = y[i])
    OBVIOUS
  <1> HIDE DEF u, j, k
  <1>3. \A i \in 1..(j + k) : u[i] = z[i]
    <2> SUFFICES ASSUME NEW i \in 1..(j + k) PROVE u[i] = z[i]
      OBVIOUS
    <2>1. CASE i <= j
      BY <1>1, <1>2, <2>1
    <2>2. CASE ~(i <= j)
      <3> DEFINE h == i - j
      <3>1. h \in 1..k /\ j + h = i
        BY <1>1, <2>2
      <3> HIDE DEF h
      <3>2. u[j + h] = y[h] /\ z[j + h] = y[h]
        BY <1>1, <1>2, <3>1
      <3> QED
        BY <3>1, <3>2
    <2> QED
      BY <2>1, <2>2
  <1>4. z = u
    BY <1>1, <1>2, <1>3, SeqEqual
  <1> QED
    BY <1>4 DEF u

\* More answers are written behind those that are there.
LEMMA MoreAnswers ==
    ASSUME NEW ans \in Seq(Answers), NEW new \in Seq(Answers)
    PROVE  /\ ans \o new \in Seq(Answers) /\ Len(ans \o new) = Len(ans) + Len(new)
           /\ \A k \in 1..Len(ans) : (ans \o new)[k] = ans[k]
           /\ FlattenSeq(Sent(ans \o new)) = FlattenSeq(Sent(ans)) \o FlattenSeq(Sent(new))
           /\ \A k \in 0..Len(ans) : BytesOf(ans \o new, k) = BytesOf(ans, k)
  <1> DEFINE all == ans \o new
  <1>1. /\ all \in Seq(Answers) /\ Len(all) = Len(ans) + Len(new) /\ Len(ans) \in Nat /\ Len(new) \in Nat
        /\ (\A k \in 1..Len(ans) : all[k] = ans[k]) /\ (\A k \in 1..Len(new) : all[Len(ans) + k] = new[k])
    BY Behind
  <1> HIDE DEF all
  <1>2. /\ Sent(ans) \in Seq(Seq(Token)) /\ Len(Sent(ans)) = Len(ans)
        /\ \A k \in 1..Len(ans) : Sent(ans)[k] = AnswerBytes(ans[k])
    BY SentType
  <1>3. /\ Sent(new) \in Seq(Seq(Token)) /\ Len(Sent(new)) = Len(new)
        /\ \A k \in 1..Len(new) : Sent(new)[k] = AnswerBytes(new[k])
    BY SentType
  <1>4. /\ Sent(all) \in Seq(Seq(Token)) /\ Len(Sent(all)) = Len(all)
        /\ \A k \in 1..Len(all) : Sent(all)[k] = AnswerBytes(all[k])
    BY <1>1, SentType
  <1>5. \A k \in 1..Len(ans) : Sent(all)[k] = Sent(ans)[k]
    BY <1>1, <1>2, <1>4
  <1>6. Sent(all) = Sent(ans) \o Sent(new)
    <2> DEFINE x == Sent(ans)
               y == Sent(new)
               z == Sent(all)
               j == Len(ans)
               k == Len(new)
    <2>1. \A i \in 1..k : z[j + i] = y[i]
      <3> SUFFICES ASSUME NEW i \in 1..k PROVE z[j + i] = y[i]
        OBVIOUS
      <3>1. j + i \in 1..Len(all)
        BY <1>1
      <3>2. z[j + i] = AnswerBytes(all[j + i]) /\ all[j + i] = new[i] /\ y[i] = AnswerBytes(new[i])
        BY <1>1, <1>3, <1>4, <3>1
      <3> QED
        BY <3>2
    <2>2. /\ x \in Seq(Seq(Token)) /\ y \in Seq(Seq(Token)) /\ z \in Seq(Seq(Token))
          /\ Len(x) = j /\ Len(y) = k /\ Len(z) = j + k /\ j \in Nat /\ k \in Nat
          /\ \A i \in 1..j : z[i] = x[i]
      BY <1>1, <1>2, <1>3, <1>4, <1>5
    <2> HIDE DEF x, y, z, j, k
    <2>3. z = x \o y
      <3> DEFINE B == Seq(Token)
      <3> HIDE DEF B
      <3>1. x \in Seq(B) /\ y \in Seq(B) /\ z \in Seq(B)
        BY <2>2 DEF B
      <3>2. /\ Len(z) = Len(x) + Len(y)
            /\ \A i \in 1..Len(x) : z[i] = x[i]
            /\ \A i \in 1..Len(y) : z[Len(x) + i] = y[i]
        BY <2>1, <2>2
      <3> QED
        BY <3>1, <3>2, ConcatIs, Zenon
    <2> QED
      BY <2>3 DEF x, y, z
  <1>7. FlattenSeq(Sent(all)) = FlattenSeq(Sent(ans)) \o FlattenSeq(Sent(new))
    BY <1>2, <1>3, <1>6, StrungConcat
  <1>8. \A k \in 0..Len(ans) : BytesOf(all, k) = BytesOf(ans, k)
    <2> SUFFICES ASSUME NEW k \in 0..Len(ans) PROVE BytesOf(all, k) = BytesOf(ans, k)
      OBVIOUS
    <2>1. [j \in 1..k |-> Sent(all)[j]] = [j \in 1..k |-> Sent(ans)[j]]
      BY <1>1, <1>5
    <2> QED
      BY <2>1 DEF BytesOf, Strung
  <1> QED
    BY <1>1, <1>7, <1>8 DEF all

\* The items of an answer are where they were.
LEMMA SameBegin ==
    ASSUME NEW ans \in Seq(Answers), NEW all, NEW d \in Nat, d < Len(ans), all[d + 1] = ans[d + 1],
           BytesOf(all, d) = BytesOf(ans, d), NEW m
    PROVE  Begin(all, d + 1, m) = Begin(ans, d + 1, m)
  <1>1. (d + 1) - 1 = d
    OBVIOUS
  <1> QED
    BY <1>1 DEF Begin, BytesOf

\* Nor does the reader's place change.
LEMMA SamePlace ==
    ASSUME NEW ans \in Seq(Answers), NEW new \in Seq(Answers), NEW d \in Nat, d <= Len(ans), NEW stack, NEW o, NEW c
    PROVE  /\ AtStart(ans, d, stack, o, c) => AtStart(ans \o new, d, stack, o, c)
           /\ Amid(ans, d, stack, o, c) => Amid(ans \o new, d, stack, o, c)
  <1> DEFINE all == ans \o new
  <1>1. /\ Len(all) = Len(ans) + Len(new) /\ \A k \in 1..Len(ans) : all[k] = ans[k]
        /\ \A k \in 0..Len(ans) : BytesOf(all, k) = BytesOf(ans, k)
    BY MoreAnswers
  <1>2. Len(ans) \in Nat /\ Len(new) \in Nat /\ d \in 0..Len(ans)
    OBVIOUS
  <1> HIDE DEF all
  <1>3. BytesOf(all, d) = BytesOf(ans, d)
    BY <1>1, <1>2
  <1>4. AtStart(ans, d, stack, o, c) => AtStart(all, d, stack, o, c)
    BY <1>3 DEF AtStart
  <1>5. ASSUME NEW m \in Nat, InItem(ans, d, m, stack, o, c) PROVE InItem(all, d, m, stack, o, c)
    <2>1. d < Len(ans)
      BY <1>5 DEF InItem
    <2>2. d < Len(all) /\ d + 1 \in 1..Len(ans)
      BY <1>1, <1>2, <2>1
    <2>3. all[d + 1] = ans[d + 1] /\ Begin(all, d + 1, m) = Begin(ans, d + 1, m)
      BY <1>1, <1>3, <2>1, <2>2, SameBegin
    <2> QED
      BY <1>5, <2>2, <2>3 DEF InItem
  <1>6. Amid(ans, d, stack, o, c) => Amid(all, d, stack, o, c)
    BY <1>5 DEF Amid
  <1> QED
    BY <1>4, <1>6 DEF all

\* Answers are written, none of which has come yet.
LEMMA AnswersStep ==
    ASSUME ReaderInv, ReplyInv, rpc = "idle", wire \in Seq(Token), NEW new \in Seq(Answers),
           answers' = answers \o new, wire' = wire \o FlattenSeq(Sent(new)),
           UNCHANGED <<readerVars, given, fed, starved, err>>
    PROVE  ReplyInv'
  <1> DEFINE more == FlattenSeq(Sent(new))
             all == answers \o new
             N == Len(buf)
             W == Len(wire)
             M == Len(more)
             L == Len(Stream)
  <1>0. StreamInv /\ GivenInv /\ PlaceInv /\ ShortInv
    BY DEF ReplyInv
  <1>1. /\ answers \in Seq(Answers) /\ Len(answers) \in Nat /\ DOMAIN answers = 1..Len(answers)
        /\ fed \in Nat /\ N \in Nat /\ W \in Nat /\ N <= fed /\ fed + W = L
        /\ LiesAt(Stream, fed - N, buf, N) /\ LiesAt(Stream, fed, wire, W)
    BY <1>0 DEF ReaderInv, StreamInv
  <1>2. /\ all \in Seq(Answers) /\ Len(all) = Len(answers) + Len(new) /\ Len(new) \in Nat /\ DOMAIN all = 1..Len(all)
        /\ \A k \in 1..Len(answers) : all[k] = answers[k]
        /\ FlattenSeq(Sent(all)) = Stream \o more
        /\ \A k \in 0..Len(answers) : BytesOf(all, k) = BytesOf(answers, k)
    <2>1. /\ all \in Seq(Answers) /\ Len(all) = Len(answers) + Len(new)
          /\ \A k \in 1..Len(answers) : all[k] = answers[k]
          /\ FlattenSeq(Sent(all)) = FlattenSeq(Sent(answers)) \o FlattenSeq(Sent(new))
          /\ \A k \in 0..Len(answers) : BytesOf(all, k) = BytesOf(answers, k)
      BY <1>1, MoreAnswers, Zenon
    <2>2. Len(new) \in Nat
      OBVIOUS
    <2> HIDE DEF all
    <2>3. DOMAIN all = 1..Len(all)
      BY <2>1
    <2> QED
      BY <2>1, <2>2, <2>3, Zenon DEF Stream
  <1>3. more \in Seq(Token) /\ M \in Nat /\ Stream \in Seq(Token) /\ L \in Nat
    BY <1>1, StreamType DEF Stream
  <1>4. /\ Len(Stream \o more) = L + M /\ LiesAt(Stream \o more, L, more, M)
        /\ wire \o more \in Seq(Token) /\ Len(wire \o more) = W + M
    BY <1>3, LiesBehind
  <1> HIDE DEF more, all, N, W, M, L
  <1>5. answers' = all /\ Stream' = Stream \o more /\ wire' = wire \o more /\ buf' = buf /\ pos' = pos /\ fed' = fed
    BY <1>2 DEF Stream, more, all, readerVars
  <1>6. StreamInv'
    <2>1. fed - N \in Nat /\ fed - N + N <= L /\ fed + W <= L
      BY <1>1, <1>3
    <2>2. LiesAt(Stream \o more, fed - N, buf, N)
      BY <1>1, <1>3, <2>1, StillLies DEF L
    <2>3. LiesAt(Stream \o more, fed, wire, W)
      BY <1>1, <1>3, <2>1, StillLies DEF L
    <2>4. LiesAt(Stream \o more, fed, wire \o more, W + M)
      BY <1>1, <1>3, <1>4, <2>3, LiesTogether DEF W, M
    <2>5. fed + (W + M) = L + M
      BY <1>1, <1>3
    <2>6. answers' \in Seq(Answers)
      BY <1>2, <1>5
    <2> QED
      BY <1>1, <1>4, <1>5, <2>2, <2>4, <2>5, <2>6 DEF StreamInv, N
  <1>7. Consumed' = Consumed /\ Done' = Done /\ ~Handed /\ ~Handed' /\ Done = Len(given) /\ Len(given) \in Nat
    <2>1. ~Handed /\ ~Handed' /\ rpc' = rpc
      BY DEF Handed, readerVars
    <2>2. Done = Len(given) /\ Len(given) \in Nat
      BY <1>0, <2>1, DoneIs
    <2>3. Done' = Len(given)
      BY <2>1, <2>2 DEF Done
    <2> QED
      BY <1>5, <2>1, <2>2, <2>3 DEF Consumed
  <1>8. Done <= Len(answers) /\ Done < Len(answers) + 1 /\ DOMAIN given = 1..Len(given) /\ given \in Seq(Replies)
    BY <1>0, <1>1, <1>7 DEF GivenInv
  <1>9. GivenInv'
    <2>1. \A k \in DOMAIN given : given[k] = AnswerReply(all[k])
      <3> SUFFICES ASSUME NEW k \in 1..Len(given) PROVE given[k] = AnswerReply(all[k])
        BY <1>8
      <3>1. k \in 1..Len(answers)
        BY <1>1, <1>7, <1>8
      <3> QED
        BY <1>0, <1>2, <1>8, <3>1 DEF GivenInv
    <2>2. Done' <= Len(all)
      BY <1>1, <1>2, <1>7, <1>8
    <2> QED
      BY <1>5, <1>7, <1>8, <2>1, <2>2 DEF GivenInv
  <1>10. PlaceInv'
    <2>1. rerr = "none" => Place(all, Done, rstack, objs, Consumed, rpc)
      <3> SUFFICES ASSUME rerr = "none" PROVE Place(all, Done, rstack, objs, Consumed, rpc)
        OBVIOUS
      <3>1. AtStart(answers, Done, rstack, objs, Consumed) \/ Amid(answers, Done, rstack, objs, Consumed)
        BY <1>0 DEF PlaceInv, Place
      <3>2. AtStart(all, Done, rstack, objs, Consumed) \/ Amid(all, Done, rstack, objs, Consumed)
        BY <1>1, <1>7, <1>8, <3>1, SamePlace DEF all
      <3> QED
        BY <3>2 DEF Place
    <2>2. rerr # "none" => Len(given) < Len(all) /\ AnswerReply(all[Len(given) + 1]) = NoReply
      <3> SUFFICES ASSUME rerr # "none" PROVE Len(given) < Len(all) /\ AnswerReply(all[Len(given) + 1]) = NoReply
        OBVIOUS
      <3>1. Len(given) < Len(answers) /\ AnswerReply(answers[Len(given) + 1]) = NoReply
        BY <1>0 DEF PlaceInv
      <3>2. Len(given) + 1 \in 1..Len(answers) /\ Len(given) < Len(all)
        BY <1>1, <1>2, <1>7, <3>1
      <3> QED
        BY <1>2, <3>1, <3>2
    <2> QED
      BY <1>5, <1>7, <2>1, <2>2 DEF PlaceInv, readerVars
  <1>11. Short => Short'
    <2> SUFFICES ASSUME Short, NEW k \in DOMAIN all, Bytes(k)' <= fed PROVE k <= Len(given)
      BY <1>5 DEF Short
    <2>1. k \in 1..Len(all) /\ k \in 0..Len(all) /\ k \in Nat /\ Len(all) \in Nat
      BY <1>1, <1>2
    <2>2. Bytes(k)' = BytesOf(all, k)
      BY <1>2, <1>5, <2>1, BytesAre DEF Bytes
    <2>3. CASE k <= Len(answers)
      <3>1. k \in 1..Len(answers) /\ k \in 0..Len(answers)
        BY <1>1, <2>1, <2>3
      <3>2. Bytes(k) <= fed
        BY <1>1, <1>2, <2>2, <3>1, BytesAre DEF Bytes
      <3> QED
        BY <1>1, <3>1, <3>2 DEF Short
    <2>4. CASE ~(k <= Len(answers))
      <3>1. Len(answers) < k /\ Len(answers) \in 0..Len(all) /\ Len(answers) \in 0..Len(answers) /\ Len(answers) <= k
        BY <1>1, <1>2, <2>1, <2>4
      <3>2. BytesOf(all, Len(answers)) < BytesOf(all, k) /\ BytesOf(all, k) \in Nat
        BY <1>2, <2>1, <3>1, MoreBytes
      <3>3. BytesOf(all, Len(answers)) = L
        BY <1>1, <1>2, <3>1, AllBytes DEF L
      <3> DEFINE x == BytesOf(all, k)
      <3> HIDE DEF x
      <3>4. L < x /\ x <= fed /\ x \in Nat
        BY <2>2, <3>2, <3>3 DEF x
      <3> QED
        BY <1>1, <1>3, <3>4
    <2> QED
      BY <2>3, <2>4
  <1>12. ShortInv'
    BY <1>0, <1>5, <1>11 DEF ShortInv, readerVars
  <1> QED
    BY <1>6, <1>9, <1>10, <1>12 DEF ReplyInv

\* redisBufferWrite.
LEMMA WriteStep ==
    ASSUME DataInv, ReplyInv, rpc = "idle", NEW again, NEW next, redisBufferWrite(again, next)
    PROVE  ReplyInv'
  <1>0. ReaderInv /\ wire \in Seq(Token) /\ obuf \in Seq({"command"})
    BY DEF DataInv
  <1>1. UNCHANGED <<readerVars, given, fed, starved>>
    BY DEF redisBufferWrite, historyVars
  <1>2. CASE UNCHANGED serverVars
    <2>1. err' \in {err, "io"}
      BY WriteFrame
    <2> QED
      BY <1>1, <1>2, <2>1, OtherSteps DEF serverVars
  <1>3. ASSUME NEW n \in 1..Len(obuf), ServerReceives(n), err' = err PROVE ReplyInv'
    <2>1. CASE UNCHANGED <<answers, wire>>
      BY <1>1, <1>3, <2>1, OtherSteps
    <2>2. CASE \E new \in [1..n -> Answers] :
                   /\ answers' = answers \o new
                   /\ wire' = wire \o FlattenSeq([k \in 1..n |-> AnswerBytes(new[k])])
      <3>1. PICK new \in [1..n -> Answers] :
                   /\ answers' = answers \o new
                   /\ wire' = wire \o FlattenSeq([k \in 1..n |-> AnswerBytes(new[k])])
        BY <2>2
      <3>2. new \in Seq(Answers) /\ DOMAIN new = 1..n
        BY <1>0
      <3>3. Sent(new) = [k \in 1..n |-> AnswerBytes(new[k])]
        BY <3>2 DEF Sent
      <3>4. wire' = wire \o FlattenSeq(Sent(new))
        BY <3>1, <3>3
      <3> QED
        BY <1>0, <1>1, <1>3, <3>1, <3>2, <3>4, AnswersStep
    <2> QED
      BY <1>3, <2>1, <2>2 DEF ServerReceives
  <1> QED
    BY <1>2, <1>3 DEF redisBufferWrite

\* The first n bytes of a string, and the others.
LEMMA CutInTwo ==
    ASSUME NEW w \in Seq(Token), NEW n \in 1..Len(w)
    PROVE  LET piece == SubSeq(w, 1, n)
               rest == SubSeq(w, n + 1, Len(w))
           IN  /\ piece \in Seq(Token) /\ Len(piece) = n /\ \A i \in 1..n : piece[i] = w[0 + i]
               /\ rest \in Seq(Token) /\ Len(rest) = Len(w) - n /\ \A i \in 1..(Len(w) - n) : rest[i] = w[n + i]
  <1> DEFINE piece == SubSeq(w, 1, n)
             rest == SubSeq(w, n + 1, Len(w))
  <1>1. piece \in Seq(Token) /\ Len(piece) = n /\ \A i \in 1..n : piece[i] = w[i]
    OBVIOUS
  <1>2. rest \in Seq(Token) /\ Len(rest) = Len(w) - n
    OBVIOUS
  <1>3. \A i \in 1..(Len(w) - n) : rest[i] = w[n + i]
    OBVIOUS
  <1> HIDE DEF piece, rest
  <1>4. \A i \in 1..n : 0 + i = i
    OBVIOUS
  <1>5. \A i \in 1..n : piece[i] = w[0 + i]
    BY <1>1, <1>4
  <1> QED
    BY <1>1, <1>2, <1>3, <1>5 DEF piece, rest

\* The reader is fed the next bytes from the wire.
LEMMA FeedStep ==
    ASSUME ReaderInv, ReplyInv, rpc = "idle", wire \in Seq(Token), NEW n \in 1..Len(wire),
           Feed(SubSeq(wire, 1, n)), wire' = SubSeq(wire, n + 1, Len(wire)), fed' = fed + n, starved' = FALSE,
           UNCHANGED <<pos, rstack, objs, rerr, rpc, aux, err, answers, given>>
    PROVE  ReplyInv'
  <1> DEFINE N == Len(buf)
             W == Len(wire)
             L == Len(Stream)
             piece == SubSeq(wire, 1, n)
             rest == SubSeq(wire, n + 1, W)
  <1>0. StreamInv /\ GivenInv /\ PlaceInv /\ ShortInv
    BY DEF ReplyInv
  <1>1. /\ buf \in Seq(Token) /\ pos \in 0..N /\ answers \in Seq(Answers)
        /\ fed \in Nat /\ N \in Nat /\ W \in Nat /\ n \in Nat /\ n <= W /\ N <= fed /\ fed + W = L
        /\ LiesAt(Stream, fed - N, buf, N) /\ LiesAt(Stream, fed, wire, W)
    BY <1>0 DEF ReaderInv, StreamInv
  <1>2. /\ piece \in Seq(Token) /\ Len(piece) = n /\ \A i \in 1..n : piece[i] = wire[0 + i]
        /\ rest \in Seq(Token) /\ Len(rest) = W - n /\ \A i \in 1..(W - n) : rest[i] = wire[n + i]
    BY <1>1, CutInTwo
  <1> HIDE DEF N, W, L, piece, rest
  <1>3. LiesAt(wire, 0, piece, n) /\ LiesAt(wire, n, rest, W - n)
    BY <1>2 DEF LiesAt
  <1>4. /\ fed - N \in Nat /\ (fed - N) + N = fed /\ fed + 0 = fed /\ 0 + n <= W /\ n + (W - n) <= W /\ W - n \in Nat
        /\ N + n <= fed + n /\ (fed + n) - (N + n) = fed - N /\ (fed + n) + (W - n) = fed + W /\ 0 \in Nat
        /\ (fed + n) - (N + n) + pos = fed - N + pos /\ fed + n \in Nat
    <2>1. fed \in Nat /\ N \in Nat /\ W \in Nat /\ n \in Nat /\ n <= W /\ N <= fed /\ pos \in Nat
      BY <1>1
    <2> QED
      BY <2>1
  <1>5. LiesAt(Stream, fed + 0, piece, n)
    BY <1>1, <1>3, <1>4, PartOfPart, Zenon
  <1>6. LiesAt(Stream, fed + n, rest, W - n)
    BY <1>1, <1>3, <1>4, PartOfPart, Zenon
  <1>7. LiesAt(Stream, (fed - N) + N, piece, n)
    BY <1>4, <1>5
  <1>8. LiesAt(Stream, fed - N, buf \o piece, N + n) /\ Len(buf \o piece) = N + n
    BY <1>1, <1>2, <1>4, <1>7, LiesTogether, LiesBehind DEF N
  <1>9. buf' = buf \o piece /\ wire' = rest /\ Len(buf') = N + n /\ Len(wire') = W - n /\ Stream' = Stream
    BY <1>2, <1>8 DEF Feed, piece, rest, W, Stream
  <1>10. StreamInv'
    <2>1. fed' = fed + n /\ fed' - Len(buf') = fed - N /\ fed' \in Nat /\ Len(buf') <= fed' /\ fed' + Len(wire') = L
      BY <1>1, <1>4, <1>9
    <2>2. LiesAt(Stream', fed' - Len(buf'), buf', Len(buf'))
      BY <1>8, <1>9, <2>1
    <2>3. LiesAt(Stream', fed', wire', Len(wire'))
      BY <1>6, <1>9, <2>1
    <2> QED
      BY <1>1, <1>9, <2>1, <2>2, <2>3 DEF StreamInv, L
  <1>11. Consumed' = Consumed
    <2>1. Consumed' = (fed + n) - (N + n) + pos
      BY <1>9 DEF Consumed
    <2> QED
      BY <1>4, <2>1 DEF Consumed, N
  <1>12. Done' = Done /\ (Handed' <=> Handed)
    BY DEF Done, Handed
  <1>13. GivenInv' /\ PlaceInv'
    BY <1>0, <1>11, <1>12 DEF GivenInv, PlaceInv
  <1>14. ShortInv'
    BY <1>0 DEF ShortInv
  <1> QED
    BY <1>10, <1>13, <1>14 DEF ReplyInv

\* redisBufferRead.
LEMMA ReadStep ==
    ASSUME DataInv, ReplyInv, rpc = "idle", NEW next, redisBufferRead(next)
    PROVE  ReplyInv'
  <1>0. ReaderInv /\ wire \in Seq(Token) /\ UNCHANGED <<answers, given>>
    BY DEF DataInv, redisBufferRead
  <1>1. CASE UNCHANGED <<readerVars, wire, fed, starved>>
    <2>1. err' \in {err, "io", "eof"}
      BY ReadFrame
    <2> QED
      BY <1>0, <1>1, <2>1, OtherSteps
  <1>2. ASSUME NEW n \in 1..Len(wire), Feed(SubSeq(wire, 1, n)), wire' = SubSeq(wire, n + 1, Len(wire)), fed' = fed + n,
               starved' = FALSE, UNCHANGED <<pos, rstack, objs, rerr, rpc, aux, err>>
        PROVE  ReplyInv'
    BY <1>0, <1>2, FeedStep
  <1> QED
    BY <1>1, <1>2 DEF redisBufferRead

(***************************************************************************)
(* The invariant of replies is inductive.                                  *)
(***************************************************************************)

\* On a new connection nothing has been sent, whatever came of the old one.
LEMMA ReconnectStep ==
    ASSUME redisReconnect
    PROVE  ReplyInv'
  <1>1. NothingSent'
    BY DEF redisReconnect, redisReaderRenewed, NewConnection, NothingSent
  <1> QED
    BY <1>1, ReplyBegins, PTL

LEMMA ReplyInit == Init => ReplyInv
  BY ReplyBegins DEF Init, redisReaderCreate, NothingSent

LEMMA ReplyStep ==
    ASSUME ContextInv, ReplyInv, [Next]_vars
    PROVE  ReplyInv'
  <1>0. DataInv /\ ReaderInv /\ (pc \notin {"get", "again"} => rpc = "idle")
    BY DEF ContextInv, DataInv
  <1>1. CASE OthersOpen \/ redisFree \/ redisAppendCommand \/ redisCommand \/ redisGetReply \/ ServerCloses \/ UNCHANGED vars
    <2>1. UNCHANGED <<readerVars, wire, answers, given, fed, starved, err>>
      BY <1>1 DEF OthersOpen, redisFree, redisAppendCommand, redisCommand, redisGetReply, ServerCloses, vars, netVars,
                  serverVars, historyVars
    <2> QED
      BY <2>1, OtherSteps
  <1>2. CASE redisContextConnect
    <2>1. UNCHANGED <<readerVars, wire, answers, given, fed, starved>> /\ err' \in {err, "io", "other"}
      BY <1>2 DEF redisContextConnect, redisConnect, Resolve, Socket, Bind, Connect, TryAgain, redisContextWaitReady,
                  redisCheckSocketError, SocketOptions, Returns, connectUnchanged, serverVars, historyVars
    <2> QED
      BY <2>1, OtherSteps
  <1>3. CASE redisReconnect
    BY <1>3, ReconnectStep
  <1>4. CASE ReaderRuns
    BY <1>0, <1>4, ReaderRunsStep
  <1>5. CASE ReaderReturns
    BY <1>0, <1>5, ReaderReturnsStep
  <1>6. CASE pc = "write" /\ redisBufferWrite("write", "read")
    BY <1>0, <1>6, WriteStep
  <1>7. CASE pc = "read" /\ redisBufferRead("again")
    BY <1>0, <1>7, ReadStep
  <1>8. CASE Events
    <2>1. rpc = "idle" /\ (redisBufferWrite("idle", "idle") \/ redisBufferRead("idle"))
      BY <1>0, <1>8 DEF Events
    <2> QED
      BY <1>0, <2>1, WriteStep, ReadStep
  <1> QED
    BY <1>1, <1>2, <1>3, <1>4, <1>5, <1>6, <1>7, <1>8 DEF Next, GetReplySteps

\* RepliesInOrder: however the stream is cut and however deep the replies are,
\* the replies given are those of the server to the commands of this
\* connection, in order and whole; the reader refuses only what is no reply or
\* nests too deeply, and a call that finds nothing leaves none behind.
THEOREM RepliesAreInOrder == Spec => []RepliesInOrder
  <1>1. ContextInv /\ ReplyInv /\ [Next]_vars => ContextInv' /\ ReplyInv'
    BY FdStep, TryStep, ErrStep, DataStep, ReplyStep DEF ContextInv
  <1>2. ReplyInv => RepliesInOrder
    <2> SUFFICES ASSUME ReplyInv PROVE RepliesInOrder
      OBVIOUS
    <2>0. StreamInv /\ GivenInv /\ PlaceInv /\ ShortInv
      BY DEF ReplyInv
    <2>1. Len(given) <= Len(answers)
      <3>1. Len(given) \in Nat /\ (Done = Len(given) \/ Done = Len(given) + 1) /\ Done <= Len(answers)
        BY <2>0, DoneIs DEF GivenInv, Handed
      <3>2. Len(answers) \in Nat
        BY <2>0 DEF StreamInv
      <3> QED
        BY <3>1, <3>2
    <2>2. err = "protocol" => Len(given) < Len(answers) /\ AnswerReply(answers[Len(given) + 1]) = NoReply
      BY <2>0 DEF ShortInv, PlaceInv
    <2>3. NothingStuck
      BY <2>0 DEF ShortInv, Short, NothingStuck
    <2> QED
      BY <2>0, <2>1, <2>2, <2>3 DEF RepliesInOrder, GivenInv
  <1> QED
    BY <1>1, <1>2, ContextInit, ReplyInit, PTL DEF Spec

=============================================================================
