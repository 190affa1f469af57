-------------------------- MODULE RedisAsyncProofs --------------------------
(***************************************************************************)
(* Proofs about RedisAsync and the hash tables of Dict.                    *)
(***************************************************************************)
EXTENDS RedisAsync, SequenceTheorems, FiniteSetTheorems, WellFoundedInduction, TLAPS


(***************************************************************************)
(* Induction, as a fact on sets of naturals, and recursion.                *)
(***************************************************************************)
\* A nonempty set of naturals has a least element.
LEMMA LeastNatural ==
    ASSUME NEW T, T \subseteq Nat, T # {}
    PROVE  \E x \in T : \A y \in T : x <= y
  <1> DEFINE R == OpToRel(<, Nat)
  <1>1. \E x \in T : \A y \in T : <<y, x>> \notin R
    BY NatLessThanWellFounded, WFMin
  <1>2. \A x, y \in Nat : y < x => <<y, x>> \in R
    BY DEF OpToRel
  <1> HIDE DEF R
  <1>3. \A x, y \in T : <<y, x>> \notin R => ~(y < x)
    BY <1>2
  <1>4. \E x \in T : \A y \in T : ~(y < x)
    BY <1>1, <1>3, Zenon
  <1> QED
    BY <1>4

\* A set of naturals with 0 and the successor of each member holds them all.
LEMMA SetInduction ==
    ASSUME NEW T, T \subseteq Nat, 0 \in T, \A n \in T : n + 1 \in T
    PROVE  T = Nat
  <1> SUFFICES ASSUME Nat \ T # {} PROVE FALSE
    OBVIOUS
  <1>1. PICK n \in Nat \ T : \A m \in Nat \ T : n <= m
    BY LeastNatural
  <1>2. n # 0 /\ n - 1 \in Nat
    OBVIOUS
  <1>3. n - 1 \in T
    BY <1>1, <1>2
  <1>4. (n - 1) + 1 \in T
    BY <1>3
  <1> QED
    BY <1>1, <1>2, <1>4

\* f is base for 0, and for k what h makes of f for k - 1.
Iterates(f, n, base, h) == f[0] = base /\ \A k \in 1..n : f[k] = h[<<k, f[k - 1]>>]

\* There is a function that iterates h.
LEMMA Recursion ==
    ASSUME NEW N \in Nat, NEW S, NEW base \in S, NEW h \in [(1..N) \X S -> S]
    PROVE  \E f \in [0..N -> S] : Iterates(f, N, base, h)
  <1> USE DEF Iterates
  <1> DEFINE Is(n, f) == Iterates(f, n, base, h)
             T == {n \in Nat : n <= N => \E f \in [0..n -> S] : Is(n, f)}
  <1>1. 0 \in T
    <2>1. [k \in 0..0 |-> base] \in [0..0 -> S]
      OBVIOUS
    <2>2. Is(0, [k \in 0..0 |-> base])
      OBVIOUS
    <2> QED
      BY <2>1, <2>2
  <1>2. ASSUME NEW n \in T PROVE n + 1 \in T
    <2>1. n \in Nat
      OBVIOUS
    <2>2. SUFFICES ASSUME n + 1 <= N
                   PROVE  \E f \in [0..(n + 1) -> S] : Is(n + 1, f)
      BY <2>1
    <2>3. PICK f \in [0..n -> S] : Is(n, f)
      BY <1>2, <2>1, <2>2
    <2> DEFINE g == [k \in 0..(n + 1) |-> IF k <= n THEN f[k] ELSE h[<<n + 1, f[n]>>]]
    <2>4. f[n] \in S /\ <<n + 1, f[n]>> \in (1..N) \X S
      BY <2>1, <2>2
    <2>5. g \in [0..(n + 1) -> S]
      BY <2>1, <2>4
    <2>6. (\A k \in 0..n : g[k] = f[k]) /\ g[n + 1] = h[<<n + 1, g[n]>>]
      <3>1. \A k \in 0..n : k \in 0..(n + 1) /\ k <= n
        BY <2>1
      <3>2. n + 1 \in 0..(n + 1) /\ ~(n + 1 <= n) /\ n \in 0..n
        BY <2>1
      <3> QED
        BY <3>1, <3>2
    <2> HIDE DEF g
    <2>7. ASSUME NEW k \in 1..(n + 1) PROVE g[k] = h[<<k, g[k - 1]>>]
      <3>1. CASE k = n + 1
        <4>1. k - 1 = n
          BY <2>1, <3>1
        <4> QED
          BY <2>6, <3>1, <4>1
      <3>2. CASE k <= n
        <4>1. k \in 1..n /\ k \in 0..n /\ k - 1 \in 0..n
          BY <2>1, <3>2
        <4> QED
          BY <2>3, <2>6, <4>1
      <3> QED
        BY <2>1, <3>1, <3>2
    <2>8. g[0] = base
      BY <2>1, <2>3, <2>6
    <2>9. Is(n + 1, g)
      BY <2>7, <2>8
    <2> QED
      BY <2>5, <2>9
  <1>3. T \subseteq Nat
    OBVIOUS
  <1>4. T = Nat
    <2> HIDE DEF T
    <2> QED
      BY <1>1, <1>2, <1>3, SetInduction
  <1>5. N \in T
    BY <1>4
  <1> QED
    BY <1>5

(***************************************************************************)
(* Sequences strung together.                                              *)
(***************************************************************************)

\* The partial results of FlattenSeq.
Flattens(f, s, n) == f[0] = <<>> /\ \A k \in 1..n : f[k] = f[k - 1] \o s[k]

\* Two sequences begin with the same n items.
Same(s, t, n) == \A k \in 1..n : s[k] = t[k]

\* There is only one function of partial results.
LEMMA FlattensOnce ==
    ASSUME NEW s, NEW t, NEW f, NEW g, NEW n \in Nat,
           Flattens(f, s, n), Flattens(g, t, n), Same(s, t, n)
    PROVE  f[n] = g[n]
  <1> DEFINE T == {k \in Nat : k <= n => f[k] = g[k]}
  <1>1. 0 \in T
    BY DEF Flattens
  <1>2. ASSUME NEW k \in T PROVE k + 1 \in T
    <2>1. CASE k + 1 <= n
      <3>1. k + 1 \in 1..n /\ (k + 1) - 1 = k /\ k <= n
        BY <2>1
      <3>2. f[k + 1] = f[k] \o s[k + 1] /\ g[k + 1] = g[k] \o t[k + 1]
        BY <3>1 DEF Flattens
      <3>3. f[k] = g[k] /\ s[k + 1] = t[k + 1]
        BY <3>1 DEF Same
      <3>4. f[k + 1] = g[k + 1]
        BY <3>2, <3>3, Zenon
      <3> QED
        BY <3>4
    <2>2. CASE ~(k + 1 <= n)
      BY <2>2
    <2> QED
      BY <2>1, <2>2
  <1>3. T \subseteq Nat
    OBVIOUS
  <1>4. T = Nat
    <2> HIDE DEF T
    <2> QED
      BY <1>1, <1>2, <1>3, SetInduction
  <1>5. n \in T
    BY <1>4
  <1> QED
    BY <1>5

\* FlattenSeq is the last partial result.
LEMMA FlattenRecursion ==
    ASSUME NEW B, NEW s \in Seq(Seq(B))
    PROVE  \E f : Flattens(f, s, Len(s)) /\ f[Len(s)] \in Seq(B) /\ FlattenSeq(s) = f[Len(s)]
  <1> DEFINE N == Len(s)
             h == [p \in (1..N) \X Seq(B) |-> p[2] \o s[p[1]]]
  <1>1. N \in Nat /\ \A k \in 1..N : s[k] \in Seq(B)
    OBVIOUS
  <1>2. h \in [(1..N) \X Seq(B) -> Seq(B)]
    <2>1. \A x, y \in Seq(B) : x \o y \in Seq(B)
      OBVIOUS
    <2>2. \A p \in (1..N) \X Seq(B) : p[2] \in Seq(B) /\ s[p[1]] \in Seq(B)
      BY <1>1
    <2> QED
      BY <2>1, <2>2
  <1>3. \A k \in 1..N, x \in Seq(B) : h[<<k, x>>] = x \o s[k]
    OBVIOUS
  <1>4. PICK f \in [0..N -> Seq(B)] : Iterates(f, N, <<>>, h)
    <2> HIDE DEF h, N
    <2>1. <<>> \in Seq(B)
      OBVIOUS
    <2> QED
      BY <1>1, <1>2, <2>1, Recursion, Zenon
  <1>5. Flattens(f, s, N)
    <2>1. \A k \in 1..N : k - 1 \in 0..N
      BY <1>1
    <2>2. \A k \in 1..N : f[k] = h[<<k, f[k - 1]>>] /\ f[k - 1] \in Seq(B)
      BY <1>4, <2>1 DEF Iterates
    <2> HIDE DEF h, N
    <2>3. \A k \in 1..N : f[k] = f[k - 1] \o s[k]
      BY <1>3, <2>2
    <2> QED
      BY <1>4, <2>3 DEF Flattens, Iterates
  <1>6. FlattenSeq(s) = f[N]
    <2>1. CASE N = 0
      <3>1. s = <<>>
        BY <2>1
      <3> QED
        BY <1>5, <2>1, <3>1 DEF Flattens, FlattenSeq
    <2>2. CASE N # 0
      <3> DEFINE E(v) == v = [i \in 1..N |-> IF i = 1 THEN s[i] ELSE v[i - 1] \o s[i]]
                 v0 == [i \in 1..N |-> f[i]]
      <3>1. E(v0)
        <4> HIDE DEF N
        <4>1. \A i \in 1..N : v0[i] = IF i = 1 THEN s[i] ELSE v0[i - 1] \o s[i]
          <5> TAKE i \in 1..N
          <5>1. CASE i = 1
            <6>0. 1 \in 1..N /\ 1 - 1 = 0
              BY <5>1
            <6>1. f[1] = <<>> \o s[1]
              BY <1>5, <6>0, Zenon DEF Flattens
            <6>2. s[1] \in Seq(B)
              BY <1>1, <5>1
            <6>3. <<>> \o s[1] = s[1]
              BY <6>2
            <6> QED
              BY <5>1, <6>1, <6>3
          <5>2. CASE i # 1
            <6>1. i - 1 \in 1..N
              BY <1>1, <5>2
            <6> QED
              BY <1>5, <5>2, <6>1, Zenon DEF Flattens
          <5> QED
            BY <5>1, <5>2
        <4>2. v0 = [i \in 1..N |-> v0[i]]
          OBVIOUS
        <4> HIDE DEF v0
        <4> QED
          BY <4>1, <4>2
      <3> DEFINE v == CHOOSE v : E(v)
      <3>2. E(v)
        BY <3>1, Zenon
      <3>3. FlattenSeq(s) = v[N]
        BY <2>2 DEF FlattenSeq
      <3> DEFINE g == [i \in 0..N |-> IF i = 0 THEN <<>> ELSE v[i]]
      <3> HIDE DEF v, N
      <3>4. Flattens(g, s, N)
        <4>1. g[0] = <<>>
          BY <1>1
        <4>2. ASSUME NEW k \in 1..N PROVE g[k] = g[k - 1] \o s[k]
          <5>1. k - 1 \in 0..N /\ k \in 0..N /\ k # 0 /\ s[k] \in Seq(B)
            BY <1>1
          <5>2. CASE k = 1
            <6>1. v[1] = s[1]
              BY <3>2, <5>2
            <6>2. g[k - 1] = <<>> /\ g[k] = v[k]
              BY <5>1, <5>2
            <6>3. <<>> \o s[k] = s[k]
              BY <5>1
            <6> QED
              BY <5>2, <6>1, <6>2, <6>3
          <5>3. CASE k # 1
            <6>1. v[k] = v[k - 1] \o s[k]
              BY <3>2, <5>3
            <6>2. k - 1 # 0
              BY <5>3
            <6>3. g[k - 1] = v[k - 1] /\ g[k] = v[k]
              BY <5>1, <6>2
            <6> QED
              BY <6>1, <6>3
          <5> QED
            BY <5>2, <5>3
        <4> QED
          BY <4>1, <4>2 DEF Flattens
      <3>5. f[N] = g[N]
        <4> HIDE DEF g
        <4> QED
          <5>1. Same(s, s, N)
            BY DEF Same
          <5> QED
            BY <1>1, <1>5, <3>4, <5>1, FlattensOnce
      <3>6. g[N] = v[N]
        BY <1>1, <2>2
      <3> QED
        BY <3>3, <3>5, <3>6
    <2> QED
      BY <2>1, <2>2
  <1>7. f[N] \in Seq(B)
    BY <1>1, <1>4
  <1> QED
    BY <1>5, <1>6, <1>7

\* One sequence more goes behind what was strung together.
LEMMA FlattenAppend ==
    ASSUME NEW B, NEW s \in Seq(Seq(B)), NEW x \in Seq(B)
    PROVE  /\ FlattenSeq(s) \in Seq(B)
           /\ FlattenSeq(Append(s, x)) = FlattenSeq(s) \o x
  <1> DEFINE more == Append(s, x)
             fin == Len(s)
  <1>1. /\ more \in Seq(Seq(B)) /\ Len(more) = fin + 1 /\ fin \in Nat
        /\ more[fin + 1] = x /\ \A k \in 1..fin : more[k] = s[k]
    OBVIOUS
  <1>2. PICK f : Flattens(f, s, fin) /\ f[fin] \in Seq(B) /\ FlattenSeq(s) = f[fin]
    BY FlattenRecursion
  <1> HIDE DEF more, fin
  <1>3. PICK g : Flattens(g, more, Len(more)) /\ FlattenSeq(more) = g[Len(more)]
    BY <1>1, FlattenRecursion
  <1>4. Flattens(g, more, fin) /\ g[fin + 1] = g[fin] \o x
    <2>1. fin + 1 \in 1..(fin + 1) /\ (fin + 1) - 1 = fin /\ \A k \in 1..fin : k \in 1..(fin + 1)
      BY <1>1
    <2> QED
      BY <1>1, <1>3, <2>1 DEF Flattens
  <1>5. f[fin] = g[fin]
    <2>1. Same(s, more, fin)
      BY <1>1 DEF Same
    <2> QED
      BY <1>1, <1>2, <1>4, <2>1, FlattensOnce
  <1> QED
    BY <1>1, <1>2, <1>3, <1>4, <1>5 DEF more

\* Nothing strung together is nothing.
LEMMA FlattenEmpty == FlattenSeq(<<>>) = <<>>
  BY DEF FlattenSeq

(***************************************************************************)
(* Tables of chains.                                                       *)
(***************************************************************************)
Entry(V) == [key : Key, val : V]

\* A table of n chains.
Rows(t, n, B) == t \in [0..(n - 1) -> Seq(B)]
Chains(t, n, V) == Rows(t, n, Entry(V))

\* Each entry is in the slot of its key, and no other of its chain has it.
Tidy(t, n) ==
    \A s \in 0..(n - 1) : \A i \in DOMAIN t[s] :
        /\ hash[t[s][i].key] % n = s
        /\ \A j \in DOMAIN t[s] : t[s][j].key = t[s][i].key => j = i

In(t, e) == \E s \in DOMAIN t : \E i \in DOMAIN t[s] : t[s][i] = e

\* The first m chains strung together.
Flat(t, m) == FlattenSeq([i \in 1..m |-> t[i - 1]])

LEMMA FlatStep ==
    ASSUME NEW B, NEW n \in Nat, NEW t, Rows(t, n, B)
    PROVE  /\ Flat(t, 0) = <<>>
           /\ \A m \in 0..n : Flat(t, m) \in Seq(B)
           /\ \A m \in 0..(n - 1) : Flat(t, m + 1) = Flat(t, m) \o t[m]
  <1> USE DEF Rows
  <1>1. Flat(t, 0) = <<>>
    <2>1. [i \in 1..0 |-> t[i - 1]] = <<>>
      OBVIOUS
    <2> QED
      BY <2>1, FlattenEmpty DEF Flat
  <1>2. ASSUME NEW m \in 0..n PROVE [i \in 1..m |-> t[i - 1]] \in Seq(Seq(B))
    <2>1. \A i \in 1..m : i - 1 \in 0..(n - 1)
      OBVIOUS
    <2>2. \A i \in 1..m : t[i - 1] \in Seq(B)
      BY <2>1
    <2> QED
      BY <2>2
  <1>3. ASSUME NEW m \in 0..n PROVE Flat(t, m) \in Seq(B)
    <2>1. <<>> \in Seq(B)
      OBVIOUS
    <2> QED
      BY <1>2, <2>1, FlattenAppend DEF Flat
  <1>4. ASSUME NEW m \in 0..(n - 1) PROVE Flat(t, m + 1) = Flat(t, m) \o t[m]
    <2> DEFINE a == [i \in 1..m |-> t[i - 1]]
               b == [i \in 1..(m + 1) |-> t[i - 1]]
    <2>1. a \in Seq(Seq(B)) /\ b \in Seq(Seq(B)) /\ t[m] \in Seq(B) /\ Len(a) = m
      BY <1>2
    <2>2. b = Append(a, t[m])
      <3>1. Len(b) = m + 1 /\ Len(Append(a, t[m])) = m + 1
        BY <2>1
      <3>2. \A i \in 1..(m + 1) : b[i] = Append(a, t[m])[i]
        <4> TAKE i \in 1..(m + 1)
        <4>1. CASE i = m + 1
          BY <2>1, <4>1
        <4>2. CASE i # m + 1
          <5>1. i \in 1..m
            BY <4>2
          <5> QED
            BY <5>1
        <4> QED
          BY <4>1, <4>2
      <3>3. Append(a, t[m]) \in Seq(Seq(B))
        BY <2>1
      <3> QED
        <4> HIDE DEF a, b
        <4> QED
          BY <2>1, <3>1, <3>2, <3>3, SeqEqual
    <2> HIDE DEF a, b
    <2> QED
      BY <2>1, <2>2, FlattenAppend DEF Flat, a, b
  <1> QED
    BY <1>1, <1>3, <1>4

\* Where the items of two sequences are when they are strung together.
LEMMA CatAt ==
    ASSUME NEW B, NEW x \in Seq(B), NEW y \in Seq(B)
    PROVE  /\ x \o y \in Seq(B) /\ Len(x \o y) = Len(x) + Len(y)
           /\ \A j \in 1..Len(x) : (x \o y)[j] = x[j]
           /\ \A j \in 1..Len(y) : (x \o y)[Len(x) + j] = y[j]
           /\ \A j \in 1..Len(x \o y) : ~(j <= Len(x)) => j - Len(x) \in 1..Len(y) /\ (x \o y)[j] = y[j - Len(x)]
           /\ DOMAIN x = 1..Len(x) /\ DOMAIN y = 1..Len(y) /\ DOMAIN (x \o y) = 1..Len(x \o y)
           /\ Len(x) \in Nat /\ Len(y) \in Nat
  OBVIOUS

\* What is strung together are the items of the chains.
LEMMA FlatMembers ==
    ASSUME NEW B, NEW n \in Nat, NEW t, Rows(t, n, B), NEW m \in 0..n
    PROVE  /\ \A j \in DOMAIN Flat(t, m) : \E s \in 0..(m - 1) : \E i \in DOMAIN t[s] : Flat(t, m)[j] = t[s][i]
           /\ \A s \in 0..(m - 1) : \A i \in DOMAIN t[s] : \E j \in DOMAIN Flat(t, m) : Flat(t, m)[j] = t[s][i]
  <1> USE DEF Rows
  <1> DEFINE P(k) ==
               /\ \A j \in DOMAIN Flat(t, k) : \E s \in 0..(k - 1) : \E i \in DOMAIN t[s] : Flat(t, k)[j] = t[s][i]
               /\ \A s \in 0..(k - 1) : \A i \in DOMAIN t[s] : \E j \in DOMAIN Flat(t, k) : Flat(t, k)[j] = t[s][i]
             T == {k \in Nat : k <= n => P(k)}
  <1>0. t \in [0..(n - 1) -> Seq(B)] /\ n \in Nat
    OBVIOUS
  <1>1. 0 \in T
    <2>1. Flat(t, 0) = <<>> /\ DOMAIN <<>> = {} /\ 0..(0 - 1) = {}
      BY FlatStep
    <2> QED
      BY <2>1
  <1>2. ASSUME NEW k \in T PROVE k + 1 \in T
    <2> HIDE DEF P
    <2>1. SUFFICES ASSUME k + 1 <= n PROVE P(k + 1)
      OBVIOUS
    <2>2. k \in 0..n /\ k \in 0..(n - 1) /\ k + 1 \in 0..n /\ P(k) /\ k \in Nat
      BY <2>1
    <2> USE DEF P
    <2>3. /\ Flat(t, k + 1) = Flat(t, k) \o t[k]
          /\ Flat(t, k) \in Seq(B) /\ t[k] \in Seq(B)
      <3>1. Rows(t, n, B) /\ t[k] \in Seq(B)
        BY <1>0, <2>2
      <3> HIDE DEF Rows, P
      <3> QED
        BY <2>2, <3>1, FlatStep
    <2> DEFINE x == Flat(t, k)
               y == t[k]
    <2>4. /\ x \o y \in Seq(B) /\ Len(x \o y) = Len(x) + Len(y)
          /\ \A j \in 1..Len(x) : (x \o y)[j] = x[j]
          /\ \A j \in 1..Len(y) : (x \o y)[Len(x) + j] = y[j]
          /\ \A j \in 1..Len(x \o y) : ~(j <= Len(x)) => j - Len(x) \in 1..Len(y) /\ (x \o y)[j] = y[j - Len(x)]
          /\ DOMAIN x = 1..Len(x) /\ DOMAIN y = 1..Len(y) /\ DOMAIN (x \o y) = 1..Len(x \o y)
          /\ Len(x) \in Nat /\ Len(y) \in Nat
      <3> HIDE DEF x, y
      <3> QED
        BY <2>3, CatAt DEF x, y
    <2>5. (k + 1) - 1 = k /\ 0..((k + 1) - 1) = 0..(k - 1) \cup {k}
      BY <2>2
    <2>6. ASSUME NEW j \in DOMAIN Flat(t, k + 1) PROVE \E s \in 0..((k + 1) - 1) : \E i \in DOMAIN t[s] : Flat(t, k + 1)[j] = t[s][i]
      <3>0. j \in DOMAIN (x \o y) /\ Flat(t, k + 1) = x \o y
        BY <2>3
      <3>1. CASE j <= Len(x)
        <4>1. j \in DOMAIN x /\ (x \o y)[j] = x[j]
          BY <2>4, <3>0, <3>1
        <4>2. PICK s \in 0..(k - 1) : \E i \in DOMAIN t[s] : x[j] = t[s][i]
          BY <2>2, <4>1
        <4> QED
          BY <2>5, <3>0, <4>1, <4>2
      <3>2. CASE ~(j <= Len(x))
        <4>1. j - Len(x) \in DOMAIN y /\ (x \o y)[j] = y[j - Len(x)] /\ k \in 0..((k + 1) - 1)
          BY <2>4, <2>5, <3>0, <3>2
        <4> QED
          BY <3>0, <4>1
      <3> QED
        BY <3>1, <3>2
    <2>7. ASSUME NEW s \in 0..((k + 1) - 1), NEW i \in DOMAIN t[s] PROVE \E j \in DOMAIN Flat(t, k + 1) : Flat(t, k + 1)[j] = t[s][i]
      <3>0. Flat(t, k + 1) = x \o y
        BY <2>3
      <3>1. CASE s = k
        <4>0. i \in 1..Len(y)
          BY <2>4, <3>1
        <4>1. Len(x) + i \in DOMAIN (x \o y) /\ (x \o y)[Len(x) + i] = y[i]
          <5> HIDE DEF x, y
          <5> QED
            BY <2>4, <4>0
        <4> QED
          BY <3>0, <3>1, <4>1
      <3>2. CASE s # k
        <4>1. PICK j \in DOMAIN x : x[j] = t[s][i]
          BY <2>2, <2>5, <3>2
        <4>2. j \in DOMAIN (x \o y) /\ (x \o y)[j] = x[j]
          BY <2>4
        <4> QED
          BY <3>0, <4>1, <4>2
      <3> QED
        BY <3>1, <3>2
    <2> QED
      BY <2>6, <2>7
  <1>3. T \subseteq Nat
    OBVIOUS
  <1>4. T = Nat
    <2> HIDE DEF T
    <2> QED
      BY <1>1, <1>2, <1>3, SetInduction
  <1> HIDE DEF P
  <1>5. m \in T /\ m <= n
    BY <1>4
  <1>6. P(m)
    <2> HIDE DEF P
    <2> QED
      BY <1>5
  <1> QED
    BY <1>6 DEF P

LEMMA FlatFrom ==
    ASSUME NEW B, NEW n \in Nat, NEW t, Rows(t, n, B), NEW j \in DOMAIN Flat(t, n)
    PROVE  \E s \in 0..(n - 1) : \E i \in DOMAIN t[s] : Flat(t, n)[j] = t[s][i]
  <1>1. n \in 0..n
    OBVIOUS
  <1> QED
    BY <1>1, FlatMembers

LEMMA FlatHas ==
    ASSUME NEW B, NEW n \in Nat, NEW t, Rows(t, n, B),
           NEW s \in 0..(n - 1), NEW i \in DOMAIN t[s]
    PROVE  \E j \in DOMAIN Flat(t, n) : Flat(t, n)[j] = t[s][i]
  <1>1. n \in 0..n
    OBVIOUS
  <1> QED
    BY <1>1, FlatMembers

\* No two entries of a tidy table have one key.
LEMMA FlatDistinct ==
    ASSUME NEW B, NEW n \in Nat, NEW t, Rows(t, n, B), Tidy(t, n), NEW m \in 0..n,
           NEW a \in DOMAIN Flat(t, m), NEW b \in DOMAIN Flat(t, m), Flat(t, m)[a].key = Flat(t, m)[b].key
    PROVE  a = b
  <1> USE DEF Rows
  <1> DEFINE P(k) == \A c, d \in DOMAIN Flat(t, k) : Flat(t, k)[c].key = Flat(t, k)[d].key => c = d
             T == {k \in Nat : k <= n => P(k)}
  <1>0. t \in [0..(n - 1) -> Seq(B)] /\ n \in Nat
    OBVIOUS
  <1>1. 0 \in T
    <2>1. Flat(t, 0) = <<>> /\ DOMAIN <<>> = {}
      BY FlatStep
    <2> QED
      BY <2>1
  <1>2. ASSUME NEW k \in T PROVE k + 1 \in T
    <2> HIDE DEF P
    <2>1. SUFFICES ASSUME k + 1 <= n PROVE P(k + 1)
      OBVIOUS
    <2>2. k \in 0..n /\ k \in 0..(n - 1) /\ k + 1 \in 0..n /\ P(k) /\ k \in Nat
      BY <2>1
    <2> USE DEF P
    <2>3. /\ Flat(t, k + 1) = Flat(t, k) \o t[k]
          /\ Flat(t, k) \in Seq(B) /\ t[k] \in Seq(B)
      <3> HIDE DEF P
      <3> QED
        <4>1. Rows(t, n, B) /\ t[k] \in Seq(B)
          BY <2>2
        <4> HIDE DEF Rows
        <4> QED
          BY <2>2, <4>1, FlatStep
    <2> DEFINE x == Flat(t, k)
               y == t[k]
    <2>4. /\ x \o y \in Seq(B) /\ Len(x \o y) = Len(x) + Len(y)
          /\ \A j \in 1..Len(x) : (x \o y)[j] = x[j]
          /\ \A j \in 1..Len(y) : (x \o y)[Len(x) + j] = y[j]
          /\ \A j \in 1..Len(x \o y) : ~(j <= Len(x)) => j - Len(x) \in 1..Len(y) /\ (x \o y)[j] = y[j - Len(x)]
          /\ DOMAIN x = 1..Len(x) /\ DOMAIN y = 1..Len(y) /\ DOMAIN (x \o y) = 1..Len(x \o y)
          /\ Len(x) \in Nat /\ Len(y) \in Nat
      <3> HIDE DEF x, y
      <3> QED
        BY <2>3, CatAt DEF x, y
    <2>5. \A j \in DOMAIN x : \E s \in 0..(k - 1) : \E i \in DOMAIN t[s] : x[j] = t[s][i]
      BY <2>2, FlatMembers
    <2>6. \A j \in DOMAIN x : hash[x[j].key] % n # k
      <3> TAKE j \in DOMAIN x
      <3>1. PICK s \in 0..(k - 1) : \E i \in DOMAIN t[s] : x[j] = t[s][i]
        BY <2>5
      <3>2. s \in 0..(n - 1) /\ s # k
        BY <2>2
      <3> QED
        BY <3>1, <3>2 DEF Tidy
    <2>7. \A i \in DOMAIN y : hash[y[i].key] % n = k
      BY <2>2 DEF Tidy
    <2>8. ASSUME NEW c \in DOMAIN (x \o y), NEW d \in DOMAIN (x \o y), (x \o y)[c].key = (x \o y)[d].key PROVE c = d
      <3>1. CASE c <= Len(x) /\ d <= Len(x)
        <4>1. c \in DOMAIN x /\ d \in DOMAIN x /\ x[c].key = x[d].key
          BY <2>4, <2>8, <3>1
        <4> QED
          BY <2>2, <4>1
      <3>2. CASE c <= Len(x) /\ ~(d <= Len(x))
        <4>1. c \in DOMAIN x /\ d - Len(x) \in DOMAIN y /\ x[c].key = y[d - Len(x)].key
          BY <2>4, <2>8, <3>2
        <4> QED
          BY <2>6, <2>7, <4>1
      <3>3. CASE ~(c <= Len(x)) /\ d <= Len(x)
        <4>1. d \in DOMAIN x /\ c - Len(x) \in DOMAIN y /\ x[d].key = y[c - Len(x)].key
          BY <2>4, <2>8, <3>3
        <4> QED
          BY <2>6, <2>7, <4>1
      <3>4. CASE ~(c <= Len(x)) /\ ~(d <= Len(x))
        <4>1. d - Len(x) \in DOMAIN y /\ c - Len(x) \in DOMAIN y /\ y[d - Len(x)].key = y[c - Len(x)].key
          BY <2>4, <2>8, <3>4
        <4>2. d - Len(x) = c - Len(x)
          BY <2>2, <4>1 DEF Tidy
        <4> QED
          BY <2>4, <4>2
      <3> QED
        BY <3>1, <3>2, <3>3, <3>4
    <2> QED
      BY <2>3, <2>8
  <1>3. T \subseteq Nat
    OBVIOUS
  <1>4. T = Nat
    <2> HIDE DEF T
    <2> QED
      BY <1>1, <1>2, <1>3, SetInduction
  <1> HIDE DEF P
  <1>5. m \in T /\ m <= n
    BY <1>4
  <1>6. P(m)
    <2> HIDE DEF P
    <2> QED
      BY <1>5
  <1> QED
    BY <1>6 DEF P

\* The table with chain c in slot s.
With(t, s, c) == [t EXCEPT ![s] = c]

\* One chain changed changes the number of items by as many.
LEMMA FlatLength ==
    ASSUME NEW B, NEW n \in Nat, NEW t, Rows(t, n, B), NEW s \in 0..(n - 1), NEW c \in Seq(B)
    PROVE  Len(Flat(With(t, s, c), n)) = (Len(Flat(t, n)) - Len(t[s])) + Len(c)
  <1> USE DEF Rows
  <1> DEFINE u == With(t, s, c)
             more == Len(c) - Len(t[s])
             P(k) == Len(Flat(u, k)) = Len(Flat(t, k)) + (IF s < k THEN more ELSE 0)
             T == {k \in Nat : k <= n => P(k)}
  <1>0. u \in [0..(n - 1) -> Seq(B)] /\ u[s] = c /\ \A x \in 0..(n - 1) : x # s => u[x] = t[x]
    BY DEF With
  <1>0a. \A x \in Seq(B) : Len(x) \in Nat
    OBVIOUS
  <1> HIDE DEF u
  <1>1. 0 \in T
    <2>1. Flat(t, 0) = <<>> /\ Flat(u, 0) = <<>> /\ Len(<<>>) = 0 /\ ~(s < 0)
      BY <1>0, FlatStep
    <2> QED
      BY <2>1
  <1>2. ASSUME NEW k \in T PROVE k + 1 \in T
    <2> HIDE DEF P
    <2>1. SUFFICES ASSUME k + 1 <= n PROVE P(k + 1)
      OBVIOUS
    <2>2. k \in 0..n /\ k \in 0..(n - 1) /\ k + 1 \in 0..n /\ P(k) /\ k \in Nat
      BY <2>1
    <2> USE DEF P
    <2>3. /\ Flat(t, k + 1) = Flat(t, k) \o t[k] /\ Flat(t, k) \in Seq(B) /\ t[k] \in Seq(B)
          /\ Flat(u, k + 1) = Flat(u, k) \o u[k] /\ Flat(u, k) \in Seq(B) /\ u[k] \in Seq(B)
      <3>1. Rows(t, n, B) /\ t[k] \in Seq(B) /\ Rows(u, n, B) /\ u[k] \in Seq(B)
        BY <1>0, <2>2
      <3> HIDE DEF Rows, P
      <3>2. Flat(t, k + 1) = Flat(t, k) \o t[k] /\ Flat(t, k) \in Seq(B)
        BY <2>2, <3>1, FlatStep
      <3>3. Flat(u, k + 1) = Flat(u, k) \o u[k] /\ Flat(u, k) \in Seq(B)
        BY <2>2, <3>1, FlatStep
      <3> QED
        BY <3>1, <3>2, <3>3
    <2>4. Len(Flat(t, k + 1)) = Len(Flat(t, k)) + Len(t[k]) /\ Len(Flat(u, k + 1)) = Len(Flat(u, k)) + Len(u[k])
      BY <2>3, CatAt
    <2>5. /\ Len(Flat(t, k)) \in Nat /\ Len(t[k]) \in Nat /\ Len(Flat(u, k)) \in Nat /\ Len(u[k]) \in Nat
          /\ Len(c) \in Nat /\ Len(t[s]) \in Nat
      BY <2>3, <1>0a
    <2>6. CASE s = k
      <3>1. ~(s < k) /\ s < k + 1
        BY <2>6
      <3>2. Len(u[k]) = Len(c) /\ Len(t[k]) = Len(t[s])
        BY <1>0, <2>6
      <3> QED
        BY <2>2, <2>4, <2>5, <3>1, <3>2
    <2>7. CASE s # k
      <3>1. s < k <=> s < k + 1
        BY <2>2, <2>7
      <3>2. Len(u[k]) = Len(t[k])
        BY <1>0, <2>2, <2>7
      <3>3. Len(Flat(u, k)) = Len(Flat(t, k)) + (IF s < k THEN more ELSE 0)
        BY <2>2
      <3>4. CASE s < k
        <4>0. more \in Int
          BY <2>5
        <4> HIDE DEF more
        <4>1. Len(Flat(u, k)) = Len(Flat(t, k)) + more
          BY <3>3, <3>4
        <4>2. Len(Flat(u, k + 1)) = Len(Flat(t, k + 1)) + more
          <5>1. Len(Flat(u, k + 1)) = (Len(Flat(t, k)) + more) + Len(t[k])
            BY <2>4, <3>2, <4>1
          <5>2. \A a, b, d \in Int : (a + d) + b = (a + b) + d
            OBVIOUS
          <5>3. (Len(Flat(t, k)) + more) + Len(t[k]) = (Len(Flat(t, k)) + Len(t[k])) + more
            <6>1. Len(Flat(t, k)) \in Int /\ Len(t[k]) \in Int
              BY <2>5
            <6> QED
              BY <4>0, <5>2, <6>1, Zenon
          <5> QED
            BY <2>4, <5>1, <5>3
        <4> QED
          BY <3>1, <3>4, <4>2
      <3>5. CASE ~(s < k)
        <4>1. Len(Flat(u, k)) = Len(Flat(t, k)) + 0
          BY <3>3, <3>5
        <4>2. Len(Flat(u, k + 1)) = Len(Flat(t, k + 1)) + 0
          BY ONLY <2>4, <2>5, <3>2, <4>1
        <4> QED
          BY <3>1, <3>5, <4>2
      <3> QED
        BY <3>4, <3>5
    <2> QED
      BY <2>6, <2>7
  <1>3. T \subseteq Nat
    OBVIOUS
  <1>4. T = Nat
    <2> HIDE DEF T
    <2> QED
      BY <1>1, <1>2, <1>3, SetInduction
  <1>5. n \in T
    BY <1>4
  <1>6. Flat(t, n) \in Seq(B) /\ Flat(u, n) \in Seq(B)
    <2>1. n \in 0..n
      OBVIOUS
    <2> QED
      BY <1>0, <2>1, FlatStep
  <1>7. Len(Flat(t, n)) \in Nat /\ Len(t[s]) \in Nat /\ Len(c) \in Nat /\ s < n
    BY <1>0a, <1>6
  <1>8. Len(Flat(u, n)) = (Len(Flat(t, n)) - Len(t[s])) + Len(c)
    BY <1>5, <1>7
  <1> QED
    BY <1>8 DEF u

(***************************************************************************)
(* The size of a table that grows.                                         *)
(***************************************************************************)

\* Doubling size times reaches it.
LEMMA NextPower ==
    ASSUME NEW size \in Nat
    PROVE  _dictNextPower(size) \in Nat \ {0} /\ _dictNextPower(size) >= size
  <1> DEFINE N == Nat \ {0}
             h == [p \in (1..size) \X N |-> IF p[2] >= size THEN p[2] ELSE p[2] * 2]
             Is(i) == i = [round \in 0..size |-> IF round = 0 THEN DICT_HT_INITIAL_SIZE
                              ELSE LET before == i[round - 1] IN IF before >= size THEN before ELSE before * 2]
  <1>1. DICT_HT_INITIAL_SIZE \in N
    BY InitialSizeAssumption
  <1>2. h \in [(1..size) \X N -> N]
    OBVIOUS
  <1>3. PICK f \in [0..size -> N] : Iterates(f, size, DICT_HT_INITIAL_SIZE, h)
    <2> HIDE DEF h, N
    <2> QED
      BY <1>1, <1>2, Recursion, Zenon
  <1>4. Is(f)
    <2>1. ASSUME NEW round \in 0..size, round # 0
          PROVE  f[round] = IF f[round - 1] >= size THEN f[round - 1] ELSE f[round - 1] * 2
      <3>1. round \in 1..size /\ round - 1 \in 0..size
        BY <2>1
      <3>2. f[round] = h[<<round, f[round - 1]>>] /\ f[round - 1] \in N
        BY <1>3, <3>1 DEF Iterates
      <3> HIDE DEF N
      <3> QED
        BY <3>1, <3>2
    <2>2. f[0] = DICT_HT_INITIAL_SIZE
      BY <1>3 DEF Iterates
    <2>3. f = [round \in 0..size |-> f[round]]
      BY <1>3
    <2> QED
      BY <2>1, <2>2, <2>3
  <1> DEFINE i == CHOOSE i : Is(i)
  <1>5. Is(i)
    BY <1>4, Zenon
  <1>6. _dictNextPower(size) = i[size]
    BY DEF _dictNextPower
  <1> HIDE DEF i
  <1> DEFINE T == {k \in Nat : k <= size => i[k] \in N /\ (i[k] >= size \/ i[k] > k)}
  <1>7. 0 \in T
    BY <1>1, <1>5
  <1>8. ASSUME NEW k \in T PROVE k + 1 \in T
    <2>1. SUFFICES ASSUME k + 1 <= size PROVE i[k + 1] \in N /\ (i[k + 1] >= size \/ i[k + 1] > k + 1)
      OBVIOUS
    <2>2. k + 1 \in 0..size /\ k + 1 # 0 /\ (k + 1) - 1 = k /\ k <= size
      BY <2>1
    <2>3. i[k + 1] = IF i[k] >= size THEN i[k] ELSE i[k] * 2
      <3> HIDE DEF T
      <3> QED
        BY <1>5, <2>2
    <2>4. i[k] \in N /\ (i[k] >= size \/ i[k] > k)
      BY <2>2
    <2> HIDE DEF T
    <2> QED
      BY <2>2, <2>3, <2>4
  <1>9. T = Nat
    <2>1. T \subseteq Nat
      OBVIOUS
    <2> HIDE DEF T
    <2> QED
      BY <1>7, <1>8, <2>1, SetInduction
  <1>10. size \in T
    BY <1>9
  <1> QED
    BY <1>6, <1>10

(***************************************************************************)
(* Chains that change.                                                     *)
(***************************************************************************)

\* Chain c fits into slot s of n.
Fits(c, s, n) == \A i \in DOMAIN c : hash[c[i].key] % n = s /\ \A j \in DOMAIN c : c[j].key = c[i].key => j = i

\* Another chain in slot s.
LEMMA NewChain ==
    ASSUME NEW V, NEW n \in Nat, NEW t, Chains(t, n, V), Tidy(t, n),
           NEW s \in 0..(n - 1), NEW c \in Seq(Entry(V)), Fits(c, s, n)
    PROVE  /\ Chains(With(t, s, c), n, V) /\ Tidy(With(t, s, c), n)
           /\ \A e : In(With(t, s, c), e) <=>
                 (\E i \in DOMAIN c : c[i] = e) \/ (In(t, e) /\ ~\E i \in DOMAIN t[s] : t[s][i] = e)
  <1> USE DEF Fits
  <1> DEFINE u == With(t, s, c)
  <1>1. u \in [0..(n - 1) -> Seq(Entry(V))] /\ u[s] = c /\ \A x \in 0..(n - 1) : x # s => u[x] = t[x]
    BY DEF Chains, Rows, With
  <1> HIDE DEF u
  <1>2. Tidy(u, n)
    <2>1. ASSUME NEW x \in 0..(n - 1), NEW i \in DOMAIN u[x]
          PROVE  hash[u[x][i].key] % n = x /\ \A j \in DOMAIN u[x] : u[x][j].key = u[x][i].key => j = i
      <3>1. CASE x = s
        BY <1>1, <2>1, <3>1
      <3>2. CASE x # s
        BY <1>1, <2>1, <3>2 DEF Tidy
      <3> QED
        BY <3>1, <3>2
    <2> QED
      BY <2>1 DEF Tidy
  <1>3. DOMAIN t = 0..(n - 1) /\ DOMAIN u = 0..(n - 1)
    BY <1>1 DEF Chains, Rows
  <1>4. ASSUME NEW e, In(u, e) PROVE (\E i \in DOMAIN c : c[i] = e) \/ (In(t, e) /\ ~\E i \in DOMAIN t[s] : t[s][i] = e)
    <2>1. PICK x \in 0..(n - 1) : \E i \in DOMAIN u[x] : u[x][i] = e
      BY <1>3, <1>4 DEF In
    <2>2. CASE x = s
      BY <1>1, <2>1, <2>2
    <2>3. CASE x # s
      <3>1. PICK i \in DOMAIN t[x] : t[x][i] = e
        BY <1>1, <2>1, <2>3
      <3>2. In(t, e)
        BY <1>3, <3>1 DEF In
      <3>3. hash[e.key] % n = x
        BY <3>1 DEF Tidy
      <3>4. \A j \in DOMAIN t[s] : hash[t[s][j].key] % n = s
        BY DEF Tidy
      <3> QED
        BY <2>3, <3>2, <3>3, <3>4
    <2> QED
      BY <2>2, <2>3
  <1>5. ASSUME NEW i \in DOMAIN c PROVE In(u, c[i])
    BY <1>1, <1>3 DEF In
  <1>6. ASSUME NEW e, In(t, e), ~\E i \in DOMAIN t[s] : t[s][i] = e PROVE In(u, e)
    <2>1. PICK x \in 0..(n - 1) : \E i \in DOMAIN t[x] : t[x][i] = e
      BY <1>3, <1>6 DEF In
    <2>2. x # s
      BY <1>6, <2>1
    <2>3. u[x] = t[x] /\ x \in DOMAIN u
      BY <1>1, <1>3, <2>2
    <2>4. \E i \in DOMAIN u[x] : u[x][i] = e
      BY <2>1, <2>3
    <2> QED
      BY <2>3, <2>4 DEF In
  <1> QED
    BY <1>1, <1>2, <1>4, <1>5, <1>6 DEF Chains, Rows, u

\* Another chain changes the number of entries.
LEMMA ChainLength ==
    ASSUME NEW V, NEW n \in Nat, NEW t, Chains(t, n, V), NEW s \in 0..(n - 1), NEW c \in Seq(Entry(V))
    PROVE  /\ Len(Flat(With(t, s, c), n)) = (Len(Flat(t, n)) - Len(t[s])) + Len(c)
           /\ Len(Flat(t, n)) \in Nat /\ Len(t[s]) \in Nat /\ Len(c) \in Nat
  <1>1. PICK B : B = Entry(V)
    OBVIOUS
  <1>2. Rows(t, n, B) /\ c \in Seq(B) /\ n \in 0..n
    BY <1>1 DEF Chains
  <1>3. Flat(t, n) \in Seq(B) /\ t[s] \in Seq(B)
    <2>1. t[s] \in Seq(B)
      BY <1>2 DEF Rows
    <2> QED
      BY <1>2, <2>1, FlatStep
  <1>4. Len(Flat(With(t, s, c), n)) = (Len(Flat(t, n)) - Len(t[s])) + Len(c)
    BY <1>2, FlatLength
  <1>5. Len(Flat(t, n)) \in Nat /\ Len(t[s]) \in Nat /\ Len(c) \in Nat
    BY <1>2, <1>3
  <1> QED
    BY <1>4, <1>5

\* The entries with a key are in the chain of its slot.
LEMMA InSlot ==
    ASSUME NEW V, NEW n \in Nat, NEW t, Chains(t, n, V), Tidy(t, n), NEW e, In(t, e)
    PROVE  \E i \in DOMAIN t[hash[e.key] % n] : t[hash[e.key] % n][i] = e
  <1>1. DOMAIN t = 0..(n - 1)
    BY DEF Chains, Rows
  <1> QED
    BY <1>1 DEF In, Tidy

\* An entry with the key of one of a chain is in that chain.
LEMMA SameSlot ==
    ASSUME NEW V, NEW n \in Nat, NEW t, Chains(t, n, V), Tidy(t, n),
           NEW s \in 0..(n - 1), NEW i \in DOMAIN t[s], NEW e, In(t, e), e.key = t[s][i].key
    PROVE  \E j \in DOMAIN t[s] : t[s][j] = e
  <1>1. hash[t[s][i].key] % n = s
    BY DEF Tidy
  <1>2. \E j \in DOMAIN t[hash[e.key] % n] : t[hash[e.key] % n][j] = e
    BY InSlot
  <1>3. hash[e.key] % n = s
    BY <1>1
  <1> QED
    BY <1>2, <1>3

\* An entry with a new key in front.
NewKey(chain, k) == \A i \in DOMAIN chain : chain[i].key # k

PrependTo(t, s, e) == With(t, s, <<e>> \o t[s])

LEMMA Prepend ==
    ASSUME NEW V, NEW n \in Nat, NEW t, Chains(t, n, V), Tidy(t, n),
           NEW s \in 0..(n - 1), NEW e \in Entry(V), hash[e.key] % n = s,
           NewKey(t[s], e.key)
    PROVE  /\ Chains(PrependTo(t, s, e), n, V) /\ Tidy(PrependTo(t, s, e), n)
           /\ \A x : In(PrependTo(t, s, e), x) <=> x = e \/ In(t, x)
           /\ Len(Flat(PrependTo(t, s, e), n)) = Len(Flat(t, n)) + 1
  <1> USE DEF NewKey
  <1> DEFINE u == PrependTo(t, s, e)
  <1>0. u = With(t, s, <<e>> \o t[s])
    BY DEF PrependTo
  <1> HIDE DEF u
  <1> DEFINE c == <<e>> \o t[s]
  <1>1. t[s] \in Seq(Entry(V)) /\ <<e>> \in Seq(Entry(V)) /\ Len(<<e>>) = 1 /\ <<e>>[1] = e
    BY DEF Chains, Rows
  <1>2. /\ c \in Seq(Entry(V)) /\ Len(c) = 1 + Len(t[s]) /\ c[1] = e
        /\ \A j \in DOMAIN t[s] : j + 1 \in DOMAIN c /\ c[j + 1] = t[s][j]
        /\ \A j \in DOMAIN c : j # 1 => j - 1 \in DOMAIN t[s] /\ c[j] = t[s][j - 1]
        /\ 1 \in DOMAIN c /\ Len(t[s]) \in Nat
    BY <1>1
  <1> HIDE DEF c
  <1>3. \A i \in DOMAIN c : hash[c[i].key] % n = s
    <2>1. \A j \in DOMAIN t[s] : hash[t[s][j].key] % n = s
      BY DEF Tidy
    <2> TAKE i \in DOMAIN c
    <2>2. CASE i = 1
      BY <1>2, <2>2
    <2>3. CASE i # 1
      <3>1. i - 1 \in DOMAIN t[s] /\ c[i] = t[s][i - 1]
        BY <1>2, <2>3
      <3> QED
        BY <2>1, <3>1
    <2> QED
      BY <2>2, <2>3
  <1>4. ASSUME NEW i \in DOMAIN c, NEW j \in DOMAIN c, c[j].key = c[i].key PROVE j = i
    <2>0. \A a \in DOMAIN c : a \in Int
      BY <1>2
    <2>1. \A a, b \in DOMAIN t[s] : t[s][a].key = t[s][b].key => a = b
      BY DEF Tidy
    <2>2. CASE i = 1 /\ j # 1
      BY <1>2, <1>4, <2>2
    <2>3. CASE i # 1 /\ j = 1
      BY <1>2, <1>4, <2>3
    <2>4. CASE i # 1 /\ j # 1
      <3>1. i - 1 \in DOMAIN t[s] /\ j - 1 \in DOMAIN t[s] /\ t[s][i - 1].key = t[s][j - 1].key
        BY <1>2, <1>4, <2>4
      <3>2. i - 1 = j - 1 /\ i \in Int /\ j \in Int
        BY <2>0, <2>1, <3>1
      <3> QED
        BY <3>2
    <2> QED
      BY <2>2, <2>3, <2>4
  <1>5. u = With(t, s, c)
    BY <1>0 DEF c
  <1>6. /\ Chains(u, n, V) /\ Tidy(u, n)
        /\ \A x : In(u, x) <=> (\E i \in DOMAIN c : c[i] = x) \/ (In(t, x) /\ ~\E i \in DOMAIN t[s] : t[s][i] = x)
    <2>1. Fits(c, s, n)
      BY <1>3, <1>4 DEF Fits
    <2> QED
      BY <1>2, <1>5, <2>1, NewChain
  <1>7. ASSUME NEW x PROVE (\E i \in DOMAIN c : c[i] = x) <=> x = e \/ \E i \in DOMAIN t[s] : t[s][i] = x
    <2>1. ASSUME NEW i \in DOMAIN c, c[i] = x PROVE x = e \/ \E j \in DOMAIN t[s] : t[s][j] = x
      BY <1>2, <2>1
    <2>2. ASSUME NEW j \in DOMAIN t[s], t[s][j] = x PROVE \E i \in DOMAIN c : c[i] = x
      BY <1>2, <2>2
    <2>3. x = e => \E i \in DOMAIN c : c[i] = x
      BY <1>2
    <2> QED
      BY <2>1, <2>2, <2>3
  <1>8. \A x : (\E i \in DOMAIN t[s] : t[s][i] = x) => In(t, x)
    BY DEF In, Chains, Rows
  <1>9. Len(Flat(u, n)) = (Len(Flat(t, n)) - Len(t[s])) + Len(c)
    <2>0. c \in Seq(Entry(V))
      BY <1>2
    <2>1. Len(Flat(With(t, s, c), n)) = (Len(Flat(t, n)) - Len(t[s])) + Len(c)
      BY <2>0, ChainLength
    <2> QED
      BY <1>5, <2>1
  <1>10. Len(Flat(t, n)) \in Nat
    BY <1>2, ChainLength
  <1>11. Len(Flat(u, n)) = Len(Flat(t, n)) + 1
    <2> DEFINE a == Len(Flat(t, n))
               b == Len(t[s])
    <2>1. Len(Flat(u, n)) = (a - b) + (1 + b) /\ a \in Nat /\ b \in Nat
      BY <1>2, <1>9, <1>10
    <2> HIDE DEF a, b
    <2>2. (a - b) + (1 + b) = a + 1
      BY <2>1
    <2> QED
      BY <2>1, <2>2 DEF a
  <1> QED
    BY <1>6, <1>7, <1>8, <1>11 DEF u

\* Another entry of the same key for the one at i.
SetAt(t, s, i, e) == With(t, s, [t[s] EXCEPT ![i] = e])

LEMMA SetVal ==
    ASSUME NEW V, NEW n \in Nat, NEW t, Chains(t, n, V), Tidy(t, n),
           NEW s \in 0..(n - 1), NEW i \in DOMAIN t[s], NEW e \in Entry(V), e.key = t[s][i].key
    PROVE  /\ Chains(SetAt(t, s, i, e), n, V) /\ Tidy(SetAt(t, s, i, e), n)
           /\ \A x : In(SetAt(t, s, i, e), x) <=> x = e \/ (In(t, x) /\ x.key # t[s][i].key)
           /\ Len(Flat(SetAt(t, s, i, e), n)) = Len(Flat(t, n))
  <1> DEFINE u == SetAt(t, s, i, e)
  <1>0. u = With(t, s, [t[s] EXCEPT ![i] = e])
    BY DEF SetAt
  <1> HIDE DEF u
  <1> DEFINE c == [t[s] EXCEPT ![i] = e]
  <1>1. t[s] \in Seq(Entry(V)) /\ t[s][i] \in Entry(V)
    BY DEF Chains, Rows
  <1>2. e \in Entry(V) /\ e.key = t[s][i].key
    OBVIOUS
  <1>3. u = With(t, s, c)
    BY <1>0
  <1>4. /\ c \in Seq(Entry(V)) /\ Len(c) = Len(t[s]) /\ DOMAIN c = DOMAIN t[s] /\ Len(c) \in Nat
        /\ c[i] = e /\ \A j \in DOMAIN t[s] : j # i => c[j] = t[s][j]
    BY <1>1, <1>2
  <1> HIDE DEF c
  <1>5. \A j \in DOMAIN c : c[j].key = t[s][j].key
    BY <1>2, <1>4
  <1>6. Fits(c, s, n)
    BY <1>4, <1>5 DEF Tidy, Fits
  <1>7. /\ Chains(u, n, V) /\ Tidy(u, n)
        /\ \A x : In(u, x) <=> (\E j \in DOMAIN c : c[j] = x) \/ (In(t, x) /\ ~\E j \in DOMAIN t[s] : t[s][j] = x)
    <2>1. /\ Chains(With(t, s, c), n, V) /\ Tidy(With(t, s, c), n)
          /\ \A x : In(With(t, s, c), x) <=> (\E j \in DOMAIN c : c[j] = x) \/ (In(t, x) /\ ~\E j \in DOMAIN t[s] : t[s][j] = x)
      BY <1>4, <1>6, NewChain
    <2> QED
      BY <1>3, <2>1
  <1>8. ASSUME NEW x
        PROVE  In(u, x) <=> x = e \/ (In(t, x) /\ x.key # t[s][i].key)
    <2>1. CASE \E j \in DOMAIN t[s] : t[s][j] = x
      <3>1. PICK j \in DOMAIN t[s] : t[s][j] = x
        BY <2>1
      <3>2. In(t, x)
        BY <3>1 DEF In, Chains, Rows
      <3>3. x.key = t[s][i].key <=> j = i
        BY <3>1 DEF Tidy
      <3>4. In(u, x) <=> \E k \in DOMAIN c : c[k] = x
        BY <1>7, <2>1
      <3>5. CASE j = i
        <4>1. In(u, x) => x = e
          <5> SUFFICES ASSUME NEW k \in DOMAIN c, c[k] = x PROVE x = e
            BY <3>4
          <5>1. t[s][k].key = t[s][i].key
            BY <1>5, <3>3, <3>5
          <5>2. k = i
            BY <1>4, <5>1 DEF Tidy
          <5> QED
            BY <1>4, <5>2
        <4>2. x = e => In(u, x)
          BY <1>4, <3>4
        <4> QED
          BY <3>3, <3>5, <4>1, <4>2
      <3>6. CASE j # i
        <4>1. In(u, x)
          BY <1>4, <3>1, <3>4, <3>6
        <4> QED
          BY <3>2, <3>3, <3>6, <4>1
      <3> QED
        BY <3>5, <3>6
    <2>2. CASE ~\E j \in DOMAIN t[s] : t[s][j] = x
      <3>1. (\E j \in DOMAIN c : c[j] = x) <=> x = e
        BY <1>4, <2>2
      <3>2. In(t, x) => x.key # t[s][i].key
        <4>1. hash[t[s][i].key] % n = s
          BY DEF Tidy
        <4>2. ASSUME In(t, x), x.key = t[s][i].key PROVE \E j \in DOMAIN t[s] : t[s][j] = x
          <5>2. \E j \in DOMAIN t[hash[x.key] % n] : t[hash[x.key] % n][j] = x
            BY <4>2, InSlot
          <5>3. hash[x.key] % n = s
            BY <4>1, <4>2
          <5> QED
            BY <5>2, <5>3
        <4> QED
          BY <2>2, <4>2
      <3> QED
        BY <1>7, <2>2, <3>1, <3>2
    <2> QED
      BY <2>1, <2>2
  <1>9. Len(Flat(u, n)) = (Len(Flat(t, n)) - Len(t[s])) + Len(c)
    BY <1>3, <1>4, ChainLength
  <1>10. Len(Flat(t, n)) \in Nat
    BY <1>4, ChainLength
  <1>11. Len(Flat(u, n)) = Len(Flat(t, n))
    BY <1>4, <1>9, <1>10
  <1> QED
    BY <1>7, <1>8, <1>11 DEF u

\* The entry at i is taken out.
RemoveFrom(t, s, i) == With(t, s, RemoveAt(t[s], i))

LEMMA TakeOut ==
    ASSUME NEW V, NEW n \in Nat, NEW t, Chains(t, n, V), Tidy(t, n),
           NEW s \in 0..(n - 1), NEW i \in DOMAIN t[s]
    PROVE  /\ Chains(RemoveFrom(t, s, i), n, V) /\ Tidy(RemoveFrom(t, s, i), n)
           /\ \A x : In(RemoveFrom(t, s, i), x) <=> In(t, x) /\ x.key # t[s][i].key
           /\ Len(Flat(RemoveFrom(t, s, i), n)) = Len(Flat(t, n)) - 1 /\ Len(Flat(t, n)) > 0
  <1> DEFINE u == RemoveFrom(t, s, i)
  <1>0. u = With(t, s, RemoveAt(t[s], i))
    BY DEF RemoveFrom
  <1> HIDE DEF u
  <1> DEFINE c == RemoveAt(t[s], i)
             l == Len(t[s])
  <1>1. t[s] \in Seq(Entry(V)) /\ l \in Nat /\ DOMAIN t[s] = 1..l
    BY DEF Chains, Rows
  <1>2. /\ c \in Seq(Entry(V)) /\ Len(c) = l - 1 /\ DOMAIN c = 1..(l - 1)
        /\ \A j \in 1..(l - 1) : c[j] = IF j < i THEN t[s][j] ELSE t[s][j + 1]
    <2>1. /\ SubSeq(t[s], 1, i - 1) \in Seq(Entry(V)) /\ Len(SubSeq(t[s], 1, i - 1)) = i - 1
          /\ \A j \in 1..(i - 1) : SubSeq(t[s], 1, i - 1)[j] = t[s][j]
      BY <1>1
    <2>2. /\ SubSeq(t[s], i + 1, l) \in Seq(Entry(V)) /\ Len(SubSeq(t[s], i + 1, l)) = l - i
          /\ \A j \in 1..(l - i) : SubSeq(t[s], i + 1, l)[j] = t[s][j + i]
      <3>0. i \in 1..l
        BY <1>1
      <3> HIDE DEF l
      <3>1. SubSeq(t[s], i + 1, l) \in Seq(Entry(V)) /\ Len(SubSeq(t[s], i + 1, l)) = l - i
        BY <1>1, <3>0 DEF l
      <3>2. ASSUME NEW j \in 1..(l - i) PROVE SubSeq(t[s], i + 1, l)[j] = t[s][j + i]
        <4>1. SubSeq(t[s], i + 1, l)[j] = t[s][(i + 1) + j - 1]
          BY <1>1, <3>0, <3>1 DEF l
        <4>2. (i + 1) + j - 1 = j + i
          BY <1>1, <3>0
        <4> QED
          BY <4>1, <4>2
      <3> QED
        BY <3>1, <3>2
    <2> DEFINE a == SubSeq(t[s], 1, i - 1)
               b == SubSeq(t[s], i + 1, l)
    <2>3. c = a \o b
      BY DEF RemoveAt
    <2>0. a \in Seq(Entry(V)) /\ b \in Seq(Entry(V))
      BY <2>1, <2>2
    <2> HIDE DEF a, b, l
    <2>4. i \in 1..l
      BY <1>1
    <2>5. /\ a \o b \in Seq(Entry(V)) /\ Len(a \o b) = Len(a) + Len(b)
          /\ \A j \in 1..Len(a) : (a \o b)[j] = a[j]
          /\ \A j \in 1..Len(a \o b) : ~(j <= Len(a)) => j - Len(a) \in 1..Len(b) /\ (a \o b)[j] = b[j - Len(a)]
          /\ DOMAIN (a \o b) = 1..Len(a \o b)
      BY <2>0, CatAt
    <2>6. Len(a) = i - 1 /\ Len(b) = l - i
      BY <2>1, <2>2 DEF a, b
    <2>7. ASSUME NEW j \in 1..(l - 1) PROVE (a \o b)[j] = IF j < i THEN t[s][j] ELSE t[s][j + 1]
      <3>1. CASE j < i
        <4>1. (a \o b)[j] = a[j] /\ j \in 1..(i - 1)
          BY <1>1, <2>4, <2>5, <2>6, <3>1
        <4> QED
          BY <2>1, <3>1, <4>1 DEF a
      <3>2. CASE ~(j < i)
        <4>1. j \in 1..Len(a \o b) /\ ~(j <= Len(a)) /\ j - (i - 1) \in 1..(l - i)
          BY <1>1, <2>4, <2>5, <2>6, <3>2
        <4>2. (a \o b)[j] = b[j - (i - 1)]
          BY <2>5, <2>6, <4>1
        <4>3. b[j - (i - 1)] = t[s][(j - (i - 1)) + i]
          BY <2>2, <4>1 DEF b
        <4>4. (j - (i - 1)) + i = j + 1
          BY <2>4
        <4> QED
          BY <3>2, <4>2, <4>3, <4>4
      <3> QED
        BY <3>1, <3>2
    <2>8. Len(a \o b) = l - 1
      BY <1>1, <2>4, <2>5, <2>6
    <2> QED
      BY <2>3, <2>5, <2>7, <2>8
  <1>3. i \in 1..l
    BY <1>1
  <1> HIDE DEF c, l
  <1> DEFINE at == [j \in 1..(l - 1) |-> IF j < i THEN j ELSE j + 1]
  <1>4. \A j \in DOMAIN c : at[j] \in DOMAIN t[s] /\ at[j] # i /\ c[j] = t[s][at[j]]
    BY <1>1, <1>2, <1>3
  <1>5. \A a, b \in DOMAIN c : at[a] = at[b] => a = b
    BY <1>1, <1>2, <1>3
  <1>6. \A k \in DOMAIN t[s] : k # i => \E j \in DOMAIN c : at[j] = k
    <2> TAKE k \in DOMAIN t[s]
    <2> HAVE k # i
    <2>1. CASE k < i
      BY <1>1, <1>2, <1>3, <2>1
    <2>2. CASE ~(k < i)
      <3>0. k \in Nat /\ i \in Nat /\ l \in Nat /\ k <= l /\ k > i /\ 1 <= i
        BY <1>1, <1>3, <2>2
      <3>1. k - 1 \in DOMAIN c /\ at[k - 1] = k
        BY <1>2, <3>0
      <3> QED
        BY <3>1
    <2> QED
      BY <2>1, <2>2
  <1>7. Fits(c, s, n)
    <2> HIDE DEF at
    <2>1. ASSUME NEW a \in DOMAIN c PROVE hash[c[a].key] % n = s
      <3>1. at[a] \in DOMAIN t[s] /\ c[a] = t[s][at[a]]
        BY <1>4
      <3> QED
        BY <3>1 DEF Tidy
    <2>2. ASSUME NEW a \in DOMAIN c, NEW b \in DOMAIN c, c[b].key = c[a].key PROVE b = a
      <3>1. at[a] \in DOMAIN t[s] /\ c[a] = t[s][at[a]] /\ at[b] \in DOMAIN t[s] /\ c[b] = t[s][at[b]]
        BY <1>4
      <3>2. at[b] = at[a]
        BY <2>2, <3>1 DEF Tidy
      <3> QED
        BY <1>5, <3>2
    <2> QED
      BY <2>1, <2>2 DEF Fits
  <1> HIDE DEF at
  <1>8. u = With(t, s, c)
    BY <1>0 DEF c
  <1>9. /\ Chains(u, n, V) /\ Tidy(u, n)
        /\ \A x : In(u, x) <=> (\E j \in DOMAIN c : c[j] = x) \/ (In(t, x) /\ ~\E j \in DOMAIN t[s] : t[s][j] = x)
    BY <1>2, <1>7, <1>8, NewChain
  <1>10. ASSUME NEW x PROVE In(u, x) <=> In(t, x) /\ x.key # t[s][i].key
    <2>1. CASE \E k \in DOMAIN t[s] : t[s][k] = x
      <3>1. PICK k \in DOMAIN t[s] : t[s][k] = x
        BY <2>1
      <3>2. In(t, x)
        BY <3>1 DEF In, Chains, Rows
      <3>3. x.key = t[s][i].key <=> k = i
        BY <3>1 DEF Tidy
      <3>4. In(u, x) <=> \E j \in DOMAIN c : c[j] = x
        BY <1>9, <2>1
      <3>5. ASSUME NEW j \in DOMAIN c, c[j] = x PROVE k # i
        <4>1. t[s][at[j]] = t[s][k] /\ at[j] \in DOMAIN t[s] /\ at[j] # i
          BY <1>4, <3>1, <3>5
        <4> QED
          BY <4>1 DEF Tidy
      <3>6. k # i => \E j \in DOMAIN c : c[j] = x
        BY <1>4, <1>6, <3>1
      <3> QED
        BY <3>2, <3>3, <3>4, <3>5, <3>6
    <2>2. CASE ~\E k \in DOMAIN t[s] : t[s][k] = x
      <3>1. ~\E j \in DOMAIN c : c[j] = x
        <4> SUFFICES ASSUME NEW j \in DOMAIN c, c[j] = x PROVE FALSE
          OBVIOUS
        <4>1. at[j] \in DOMAIN t[s] /\ c[j] = t[s][at[j]]
          BY <1>4
        <4> QED
          BY <2>2, <4>1
      <3>2. In(t, x) => x.key # t[s][i].key
        <4>1. hash[t[s][i].key] % n = s
          BY DEF Tidy
        <4>2. In(t, x) /\ x.key = t[s][i].key => \E j \in DOMAIN t[s] : t[s][j] = x
          BY SameSlot
        <4> QED
          BY <2>2, <4>2
      <3> QED
        BY <1>9, <2>2, <3>1, <3>2
    <2> QED
      BY <2>1, <2>2
  <1>11. Len(Flat(u, n)) = (Len(Flat(t, n)) - l) + Len(c)
    BY <1>2, <1>8, ChainLength DEF l
  <1>12. Len(Flat(t, n)) \in Nat /\ Len(Flat(u, n)) \in Nat
    BY <1>2, <1>9, ChainLength
  <1>13. Len(Flat(u, n)) = Len(Flat(t, n)) - 1 /\ Len(Flat(t, n)) > 0
    BY <1>1, <1>2, <1>11, <1>12
  <1> QED
    BY <1>9, <1>10, <1>13 DEF u

(***************************************************************************)
(* Tables.                                                                 *)
(***************************************************************************)
IsTable(ht, V) ==
    /\ ht = [size |-> ht.size, used |-> ht.used, table |-> ht.table]
    /\ ht.size \in Nat /\ Chains(ht.table, ht.size, V) /\ Tidy(ht.table, ht.size)
    /\ ht.used = Len(Flat(ht.table, ht.size))
    /\ ht.size > 0 => ht.used <= ht.size

LEMMA TableEntries ==
    ASSUME NEW V, NEW ht, IsTable(ht, V)
    PROVE  /\ Entries(ht) = Flat(ht.table, ht.size)
           /\ Entries(ht) \in Seq(Entry(V)) /\ ht.used = Len(Entries(ht)) /\ ht.used \in Nat
           /\ \A i, j \in DOMAIN Entries(ht) : Entries(ht)[i].key = Entries(ht)[j].key => i = j
  <1> DEFINE t == ht.table
             n == ht.size
             B == Entry(V)
             s == Flat(t, n)
  <1>1. n \in Nat /\ Rows(t, n, B) /\ Tidy(t, n) /\ n \in 0..n /\ ht.used = Len(s)
    BY DEF IsTable, Chains, Rows
  <1>2. Entries(ht) = s
    BY DEF Entries, Flat
  <1> HIDE DEF t, n, B, s
  <1>3. s \in Seq(B)
    BY <1>1, FlatStep DEF s
  <1>8. ASSUME NEW i \in DOMAIN s, NEW j \in DOMAIN s, s[i].key = s[j].key PROVE i = j
    BY <1>1, <1>8, FlatDistinct DEF s
  <1>9. Len(s) \in Nat
    BY <1>3
  <1> QED
    BY <1>1, <1>2, <1>3, <1>8, <1>9 DEF B, t, n, s

\* What is listed is in the table.
LEMMA ListedEntry ==
    ASSUME NEW V, NEW ht, IsTable(ht, V), NEW j \in DOMAIN Entries(ht)
    PROVE  In(ht.table, Entries(ht)[j])
  <1> DEFINE t == ht.table
             n == ht.size
  <1>1. Entries(ht) = Flat(t, n) /\ n \in Nat /\ Rows(t, n, Entry(V))
    BY TableEntries DEF IsTable, Chains
  <1> HIDE DEF t, n
  <1>2. PICK x \in 0..(n - 1) : \E i \in DOMAIN t[x] : Entries(ht)[j] = t[x][i]
    BY <1>1, FlatFrom
  <1>3. DOMAIN t = 0..(n - 1)
    BY <1>1 DEF Rows
  <1> QED
    BY <1>2, <1>3 DEF In, t

\* What is in the table is listed.
LEMMA EntryListed ==
    ASSUME NEW V, NEW ht, IsTable(ht, V), NEW e, In(ht.table, e)
    PROVE  e \in Entry(V) /\ \E j \in DOMAIN Entries(ht) : Entries(ht)[j] = e
  <1> DEFINE t == ht.table
             n == ht.size
  <1>1. /\ Entries(ht) = Flat(t, n) /\ Entries(ht) \in Seq(Entry(V))
        /\ n \in Nat /\ Rows(t, n, Entry(V))
    BY TableEntries DEF IsTable, Chains
  <1>1a. In(ht.table, e) <=> In(t, e)
    OBVIOUS
  <1> HIDE DEF t, n
  <1>2. DOMAIN t = 0..(n - 1)
    BY <1>1 DEF Rows
  <1>3. PICK x \in 0..(n - 1) : \E i \in DOMAIN t[x] : t[x][i] = e
    BY <1>1a, <1>2 DEF In
  <1>4. PICK i \in DOMAIN t[x] : t[x][i] = e
    BY <1>3
  <1>5. \E j \in DOMAIN Flat(t, n) : Flat(t, n)[j] = t[x][i]
    <2>1. n \in Nat /\ Rows(t, n, Entry(V))
      BY <1>1
    <2> QED
      BY <2>1, FlatHas
  <1>6. PICK j \in DOMAIN Entries(ht) : Entries(ht)[j] = e
    BY <1>1, <1>4, <1>5
  <1> QED
    BY <1>1, <1>6

LEMMA PlacesOf ==
    ASSUME NEW V, NEW ht, IsTable(ht, V), NEW k \in Key
    PROVE  /\ ht.size > 0 => Slot(ht, k) \in 0..(ht.size - 1)
           /\ \A i \in Places(ht, k) : /\ ht.size > 0 /\ i \in DOMAIN ht.table[Slot(ht, k)]
                                       /\ ht.table[Slot(ht, k)][i].key = k
                                       /\ Places(ht, k) = {i} /\ First(Places(ht, k)) = i
           /\ Places(ht, k) = {} => \A e : In(ht.table, e) => e.key # k
  <1> DEFINE t == ht.table
             n == ht.size
  <1>1. n \in Nat /\ Chains(t, n, V) /\ Tidy(t, n) /\ DOMAIN t = 0..(n - 1)
    BY DEF IsTable, Chains, Rows
  <1>2. Slot(ht, k) = hash[k] % n
    BY DEF Slot
  <1>3. Places(ht, k) = IF n = 0 THEN {} ELSE {i \in DOMAIN t[Slot(ht, k)] : t[Slot(ht, k)][i].key = k}
    BY DEF Places
  <1> HIDE DEF t, n
  <1>4. n > 0 => Slot(ht, k) \in 0..(n - 1)
    BY <1>1, <1>2, HashAssumption
  <1>5. ASSUME NEW i \in Places(ht, k)
        PROVE  /\ n > 0 /\ i \in DOMAIN t[Slot(ht, k)] /\ t[Slot(ht, k)][i].key = k
               /\ Places(ht, k) = {i} /\ First(Places(ht, k)) = i
    <2>1. n > 0 /\ i \in DOMAIN t[Slot(ht, k)] /\ t[Slot(ht, k)][i].key = k
      BY <1>1, <1>3
    <2>2. \A j \in Places(ht, k) : j \in DOMAIN t[Slot(ht, k)] /\ t[Slot(ht, k)][j].key = k
      BY <1>1, <1>3
    <2>3. \A j \in Places(ht, k) : j = i
      BY <1>1, <1>4, <2>1, <2>2 DEF Tidy
    <2>4. Places(ht, k) = {i}
      BY <2>3
    <2>5. i \in Nat
      <3>1. t[Slot(ht, k)] \in Seq(Entry(V))
        BY <1>1, <1>4, <2>1 DEF Chains, Rows
      <3> QED
        BY <2>1, <3>1
    <2>6. First(Places(ht, k)) = i
      BY <2>4, <2>5 DEF First
    <2> QED
      BY <2>1, <2>4, <2>6
  <1>6. ASSUME Places(ht, k) = {}, NEW e, In(t, e), e.key = k PROVE FALSE
    <2>1. PICK x \in 0..(n - 1) : \E i \in DOMAIN t[x] : t[x][i] = e
      BY <1>1, <1>6 DEF In
    <2>2. PICK i \in DOMAIN t[x] : t[x][i] = e
      BY <2>1
    <2>3. hash[k] % n = x
      BY <1>1, <1>6, <2>2 DEF Tidy
    <2>4. n # 0
      BY <1>1, <2>1
    <2> QED
      BY <1>2, <1>3, <1>6, <2>2, <2>3, <2>4
  <1> QED
    BY <1>4, <1>5, <1>6 DEF t, n

\* An entry is found by its key.
LEMMA FindIn ==
    ASSUME NEW V, NoEntry \notin V, NEW ht, IsTable(ht, V), NEW e, In(ht.table, e)
    PROVE  dictFind(ht, e.key) = e.val /\ dictFind(ht, e.key) # NoEntry
  <1>1. e \in Entry(V)
    BY EntryListed
  <1>2. e.key \in Key /\ e.val \in V
    BY <1>1 DEF Entry
  <1>3. Places(ht, e.key) # {}
    BY <1>2, PlacesOf
  <1>4. PICK i : i \in Places(ht, e.key)
    BY <1>3
  <1>5. /\ i \in DOMAIN ht.table[Slot(ht, e.key)] /\ ht.table[Slot(ht, e.key)][i].key = e.key
        /\ First(Places(ht, e.key)) = i /\ Slot(ht, e.key) \in 0..(ht.size - 1)
    BY <1>2, <1>4, PlacesOf
  <1>6. /\ ht.size \in Nat /\ Chains(ht.table, ht.size, V) /\ Tidy(ht.table, ht.size)
    BY DEF IsTable
  <1>7. \E j \in DOMAIN ht.table[hash[e.key] % ht.size] : ht.table[hash[e.key] % ht.size][j] = e
    BY <1>6, InSlot
  <1>8. PICK j \in DOMAIN ht.table[Slot(ht, e.key)] : ht.table[Slot(ht, e.key)][j] = e
    BY <1>7 DEF Slot
  <1>9. j = i
    BY <1>5, <1>6, <1>8 DEF Tidy
  <1>10. dictFind(ht, e.key) = ht.table[Slot(ht, e.key)][i].val
    BY <1>3, <1>5 DEF dictFind
  <1> QED
    BY <1>2, <1>8, <1>9, <1>10

\* What is found is the value of an entry.
LEMMA FindsEntry ==
    ASSUME NEW V, NEW ht, IsTable(ht, V), NEW k \in Key, dictFind(ht, k) # NoEntry
    PROVE  In(ht.table, [key |-> k, val |-> dictFind(ht, k)]) /\ dictFind(ht, k) \in V
  <1>1. Places(ht, k) # {}
    BY DEF dictFind
  <1>2. PICK i : i \in Places(ht, k)
    BY <1>1
  <1> DEFINE s == Slot(ht, k)
             e == ht.table[s][i]
  <1>3. /\ i \in DOMAIN ht.table[s] /\ e.key = k
        /\ First(Places(ht, k)) = i /\ s \in 0..(ht.size - 1)
    BY <1>2, PlacesOf
  <1>4. dictFind(ht, k) = e.val
    BY <1>1, <1>3 DEF dictFind
  <1>5. ht.table \in [0..(ht.size - 1) -> Seq(Entry(V))]
    BY DEF IsTable, Chains, Rows
  <1>6. e \in Entry(V)
    <2>1. ht.table[s] \in Seq(Entry(V))
      BY <1>3, <1>5
    <2> HIDE DEF s
    <2> QED
      BY <1>3, <2>1
  <1>7. In(ht.table, e)
    BY <1>3, <1>5 DEF In
  <1> HIDE DEF e
  <1>8. e = [key |-> k, val |-> e.val] /\ e.val \in V
    BY <1>3, <1>6 DEF Entry
  <1> QED
    BY <1>4, <1>7, <1>8

\* Entries alike but for one key: all other keys find what they found.
LEMMA SameFinds ==
    ASSUME NEW V, NoEntry \notin V, NEW a, IsTable(a, V), NEW b, IsTable(b, V), NEW k,
           \A x : x.key # k => (In(a.table, x) <=> In(b.table, x)),
           NEW q \in Key, q # k
    PROVE  dictFind(b, q) = dictFind(a, q)
  <1>1. CASE dictFind(a, q) # NoEntry
    <2> DEFINE e == [key |-> q, val |-> dictFind(a, q)]
    <2>1. In(a.table, e) /\ e.key = q /\ e.val = dictFind(a, q)
      BY <1>1, FindsEntry
    <2> HIDE DEF e
    <2>2. In(b.table, e)
      BY <2>1
    <2> QED
      BY <2>1, <2>2, FindIn
  <1>2. CASE dictFind(b, q) # NoEntry
    <2> DEFINE e == [key |-> q, val |-> dictFind(b, q)]
    <2>1. In(b.table, e) /\ e.key = q /\ e.val = dictFind(b, q)
      BY <1>2, FindsEntry
    <2> HIDE DEF e
    <2>2. In(a.table, e)
      BY <2>1
    <2> QED
      BY <2>1, <2>2, FindIn
  <1> QED
    BY <1>1, <1>2

LEMMA TableWellFormed ==
    ASSUME NEW V, NEW ht, IsTable(ht, V)
    PROVE  WellFormed(ht)
  <1> DEFINE t == ht.table
             n == ht.size
  <1>1. n \in Nat /\ Chains(t, n, V) /\ Tidy(t, n) /\ DOMAIN t = 0..(n - 1) /\ t \in [0..(n - 1) -> Seq(Entry(V))]
    BY DEF IsTable, Chains, Rows
  <1>2. ht.used = Len(Entries(ht)) /\ (n > 0 => ht.used <= n)
    BY TableEntries DEF IsTable
  <1>3. ASSUME NEW s \in DOMAIN t, NEW i \in DOMAIN t[s]
        PROVE  Slot(ht, t[s][i].key) = s /\ Places(ht, t[s][i].key) = {i}
    <2>1. s \in 0..(n - 1) /\ n # 0
      BY <1>1
    <2>2. Slot(ht, t[s][i].key) = hash[t[s][i].key] % n
      BY DEF Slot
    <2> DEFINE k == t[s][i].key
    <2>3. hash[k] % n = s /\ \A j \in DOMAIN t[s] : t[s][j].key = k => j = i
      BY <1>1, <2>1 DEF Tidy
    <2> HIDE DEF k
    <2>4. Places(ht, k) = {j \in DOMAIN t[s] : t[s][j].key = k}
      BY <2>1, <2>2, <2>3 DEF Places, k
    <2>5. t[s][i].key = k
      BY DEF k
    <2>6. Places(ht, k) = {i}
      BY <2>3, <2>4, <2>5
    <2> QED
      BY <2>2, <2>3, <2>6 DEF k
  <1> QED
    BY <1>2, <1>3 DEF WellFormed

LEMMA EmptyTable ==
    ASSUME NEW V
    PROVE  IsTable(EmptyDict, V) /\ \A k : dictFind(EmptyDict, k) = NoEntry
  <1>1. <<>> \in [0..(0 - 1) -> Seq(Entry(V))]
    OBVIOUS
  <1>2. Chains(<<>>, 0, V) /\ Tidy(<<>>, 0)
    BY <1>1 DEF Chains, Rows, Tidy
  <1>3. Flat(<<>>, 0) = <<>>
    <2>1. Rows(<<>>, 0, Entry(V)) /\ 0 \in Nat
      BY <1>2 DEF Chains
    <2> QED
      BY <2>1, FlatStep
  <1>4. IsTable(EmptyDict, V)
    BY <1>2, <1>3 DEF IsTable, EmptyDict
  <1>5. \A k : dictFind(EmptyDict, k) = NoEntry
    BY DEF dictFind, Places, EmptyDict
  <1> QED
    BY <1>4, <1>5

\* A table without entries.
Blank(n) == [slot \in 0..(n - 1) |-> <<>>]

LEMMA BlankTable ==
    ASSUME NEW V, NEW n \in Nat
    PROVE  /\ Chains(Blank(n), n, V) /\ Tidy(Blank(n), n) /\ (\A e : ~In(Blank(n), e))
           /\ Len(Flat(Blank(n), n)) = 0
  <1>1. <<>> \in Seq(Entry(V)) /\ DOMAIN <<>> = {}
    OBVIOUS
  <1>2. /\ Blank(n) \in [0..(n - 1) -> Seq(Entry(V))] /\ \A s \in 0..(n - 1) : Blank(n)[s] = <<>>
        /\ DOMAIN Blank(n) = 0..(n - 1)
    BY <1>1 DEF Blank
  <1>3. Chains(Blank(n), n, V) /\ Tidy(Blank(n), n) /\ \A e : ~In(Blank(n), e)
    BY <1>1, <1>2 DEF Chains, Rows, Tidy, In
  <1>4. Len(Flat(Blank(n), n)) = 0
    <2>1. Rows(Blank(n), n, Entry(V)) /\ n \in 0..n
      BY <1>3 DEF Chains
    <2>2. Flat(Blank(n), n) \in Seq(Entry(V))
      BY <2>1, FlatStep
    <2>3. ASSUME NEW j \in DOMAIN Flat(Blank(n), n) PROVE FALSE
      <3>1. \E s \in 0..(n - 1) : \E i \in DOMAIN Blank(n)[s] : Flat(Blank(n), n)[j] = Blank(n)[s][i]
        BY <2>1, FlatFrom
      <3> QED
        BY <1>1, <1>2, <3>1
    <2>4. Len(Flat(Blank(n), n)) \in Nat /\ DOMAIN Flat(Blank(n), n) = 1..Len(Flat(Blank(n), n))
      BY <2>2
    <2>5. Len(Flat(Blank(n), n)) > 0 => 1 \in DOMAIN Flat(Blank(n), n)
      BY <2>4
    <2> QED
      BY <2>3, <2>4, <2>5
  <1> QED
    BY <1>3, <1>4

\* A table grows and keeps its entries.
LEMMA Expands ==
    ASSUME NEW V, NEW ht, IsTable(ht, V), NEW size \in Nat, ht.used <= size
    PROVE  LET new == dictExpand(ht, size)
           IN  /\ IsTable(new, V) /\ new.used = ht.used /\ new.size \in Nat \ {0} /\ new.size >= size
               /\ \A e : In(new.table, e) <=> In(ht.table, e)
  <1> DEFINE new == dictExpand(ht, size)
             realsize == _dictNextPower(size)
             entries == Entries(ht)
             L == Len(entries)
             S == [0..(realsize - 1) -> Seq(Entry(V))]
             put(t, e) == PrependTo(t, hash[e.key] % realsize, e)
             Is(linked) == linked = [k \in 0..L |->
                  IF k = 0 THEN Blank(realsize)
                  ELSE put(linked[k - 1], entries[k])]
  <1>1. realsize \in Nat \ {0} /\ realsize >= size
    BY NextPower
  <1>2. /\ entries \in Seq(Entry(V)) /\ ht.used = L /\ L \in Nat
        /\ \A j \in DOMAIN entries : In(ht.table, entries[j])
        /\ \A e : In(ht.table, e) => \E j \in DOMAIN entries : entries[j] = e
        /\ \A i, j \in DOMAIN entries : entries[i].key = entries[j].key => i = j
    <2>1. \A i, j \in DOMAIN entries : entries[i].key = entries[j].key => i = j
      BY TableEntries
    <2>2. entries \in Seq(Entry(V)) /\ ht.used = L
      BY TableEntries
    <2>3. \A j \in DOMAIN entries : In(ht.table, entries[j])
      BY ListedEntry
    <2>4. ASSUME NEW e, In(ht.table, e) PROVE \E j \in DOMAIN Entries(ht) : Entries(ht)[j] = e
      BY <2>4, EntryListed
    <2>5. \A e : In(ht.table, e) => \E j \in DOMAIN entries : entries[j] = e
      BY <2>4
    <2> HIDE DEF entries
    <2> QED
      BY <2>1, <2>2, <2>3, <2>5
  <1>3. new = [size |-> realsize, used |-> ht.used, table |-> (CHOOSE linked : Is(linked))[L]]
    <2>1. ~(ht.used > size)
      BY <1>2
    <2> QED
      BY <2>1 DEF dictExpand, Blank, PrependTo, With
  <1> HIDE DEF realsize, entries, L
  <1> DEFINE h == [p \in (1..L) \X S |-> put(p[2], entries[p[1]])]
  <1>4. \A j \in 1..L : entries[j] \in Entry(V) /\ entries[j].key \in Key /\ hash[entries[j].key] % realsize \in 0..(realsize - 1)
    <2>1. \A j \in 1..L : entries[j] \in Entry(V)
      BY <1>2 DEF L
    <2>2. \A e \in Entry(V) : e.key \in Key /\ hash[e.key] \in Nat
      BY HashAssumption DEF Entry
    <2>3. \A x \in Nat : x % realsize \in 0..(realsize - 1)
      BY <1>1
    <2> QED
      BY <2>1, <2>2, <2>3
  <1>5. \A j \in 1..L, t \in S : put(t, entries[j]) \in S
    <2> TAKE j \in 1..L, t \in S
    <2> DEFINE s == hash[entries[j].key] % realsize
    <2>1. s \in 0..(realsize - 1) /\ entries[j] \in Entry(V)
      BY <1>4
    <2> HIDE DEF s
    <2>2. <<entries[j]>> \o t[s] \in Seq(Entry(V))
      BY <2>1
    <2>3. [t EXCEPT ![s] = <<entries[j]>> \o t[s]] \in S
      BY <2>2
    <2> QED
      BY <2>3 DEF PrependTo, With, s
  <1>6. Blank(realsize) \in S
    BY DEF Blank
  <1>7. h \in [(1..L) \X S -> S]
    <2> HIDE DEF S, put
    <2>1. \A p \in (1..L) \X S : p[1] \in 1..L /\ p[2] \in S
      OBVIOUS
    <2> QED
      BY <1>5, <2>1
  <1>8. PICK f \in [0..L -> S] : Iterates(f, L, Blank(realsize), h)
    <2> HIDE DEF h, S
    <2> QED
      BY <1>2, <1>6, <1>7, Recursion
  <1>9. Is(f)
    <2>1. ASSUME NEW k \in 0..L, k # 0 PROVE f[k] = put(f[k - 1], entries[k])
      <3>1. k \in 1..L /\ k - 1 \in 0..L
        BY <1>2, <2>1
      <3>2. f[k] = h[<<k, f[k - 1]>>] /\ f[k - 1] \in S
        BY <1>8, <3>1 DEF Iterates
      <3> HIDE DEF S, put
      <3> QED
        BY <3>1, <3>2
    <2>2. f[0] = Blank(realsize) /\ f = [k \in 0..L |-> f[k]]
      BY <1>8 DEF Iterates
    <2> HIDE DEF put
    <2>3. [k \in 0..L |-> f[k]] = [k \in 0..L |-> IF k = 0 THEN Blank(realsize) ELSE put(f[k - 1], entries[k])]
      BY <2>1, <2>2
    <2> QED
      BY <2>2, <2>3, Zenon
  <1> DEFINE linked == CHOOSE linked : Is(linked)
  <1>10. Is(linked)
    <2> HIDE DEF Is
    <2> QED
      BY <1>9, Zenon
  <1> HIDE DEF linked
  <1>11. linked[0] = Blank(realsize) /\ \A k \in 1..L : linked[k] = put(linked[k - 1], entries[k])
    <2>1. 0 \in 0..L /\ \A k \in 1..L : k \in 0..L /\ k # 0
      BY <1>2
    <2> HIDE DEF put
    <2> QED
      BY <1>10, <2>1
  <1> DEFINE P(k) == /\ Chains(linked[k], realsize, V) /\ Tidy(linked[k], realsize)
                     /\ \A e : In(linked[k], e) <=> \E j \in 1..k : entries[j] = e
                     /\ Len(Flat(linked[k], realsize)) = k
             T == {k \in Nat : k <= L => P(k)}
  <1>12. 0 \in T
    <2>1. realsize \in Nat /\ 1..0 = {} /\ linked[0] = Blank(realsize)
      BY <1>1, <1>11
    <2>2. P(0)
      BY <2>1, BlankTable
    <2> HIDE DEF P
    <2> QED
      BY <2>2
  <1>13. ASSUME NEW k \in T PROVE k + 1 \in T
    <2> HIDE DEF P
    <2>1. SUFFICES ASSUME k + 1 <= L PROVE P(k + 1)
      OBVIOUS
    <2>2. k \in Nat /\ k + 1 \in 1..L /\ P(k) /\ (k + 1) - 1 = k
      BY <1>2, <2>1
    <2> DEFINE e == entries[k + 1]
               s == hash[e.key] % realsize
               t == linked[k]
    <2>3. e \in Entry(V) /\ s \in 0..(realsize - 1) /\ hash[e.key] % realsize = s
      BY <1>4, <2>2
    <2>4. linked[k + 1] = PrependTo(t, s, e)
      BY <1>11, <2>2
    <2>5. Chains(t, realsize, V) /\ Tidy(t, realsize) /\ Len(Flat(t, realsize)) = k
      BY <2>2 DEF P
    <2>6. \A x : In(t, x) <=> \E j \in 1..k : entries[j] = x
      BY <2>2 DEF P
    <2>7. ASSUME NEW i \in DOMAIN t[s] PROVE t[s][i].key # e.key
      <3>1. In(t, t[s][i])
        BY <2>3, <2>5 DEF In, Chains, Rows
      <3>2. PICK j \in 1..k : entries[j] = t[s][i]
        BY <2>6, <3>1
      <3>3. j \in DOMAIN entries /\ k + 1 \in DOMAIN entries /\ j # k + 1
        BY <1>2, <2>2 DEF L
      <3> QED
        BY <1>2, <3>2, <3>3
    <2> HIDE DEF s, t, e
    <2>8. realsize \in Nat
      BY <1>1
    <2>9. /\ Chains(PrependTo(t, s, e), realsize, V) /\ Tidy(PrependTo(t, s, e), realsize)
          /\ Len(Flat(PrependTo(t, s, e), realsize)) = Len(Flat(t, realsize)) + 1
          /\ \A x : In(PrependTo(t, s, e), x) <=> x = e \/ In(t, x)
      <3>1. NewKey(t[s], e.key)
        BY <2>7 DEF NewKey
      <3> QED
        BY <2>3, <2>5, <2>8, <3>1, Prepend
    <2>10. \A x : (\E j \in 1..(k + 1) : entries[j] = x) <=> x = e \/ \E j \in 1..k : entries[j] = x
      <3>1. 1..(k + 1) = (1..k) \cup {k + 1}
        BY <2>2
      <3> QED
        BY <3>1 DEF e
    <2>11. \A x : In(linked[k + 1], x) <=> \E j \in 1..(k + 1) : entries[j] = x
      BY <2>4, <2>6, <2>9, <2>10
    <2> QED
      BY <2>4, <2>5, <2>9, <2>11 DEF P
  <1>14. T = Nat
    <2>1. T \subseteq Nat
      OBVIOUS
    <2> HIDE DEF T
    <2> QED
      BY <1>12, <1>13, <2>1, SetInduction
  <1> HIDE DEF P
  <1>15. L \in T /\ L <= L
    BY <1>2, <1>14
  <1>16. P(L)
    BY <1>15
  <1>17. \A e : In(linked[L], e) <=> In(ht.table, e)
    <2>1. \A e : In(linked[L], e) <=> \E j \in 1..L : entries[j] = e
      BY <1>16 DEF P
    <2>2. DOMAIN entries = 1..L
      BY <1>2 DEF L
    <2>3. \A j \in 1..L : In(ht.table, entries[j])
      BY <1>2, <2>2
    <2>4. \A e : In(ht.table, e) => \E j \in 1..L : entries[j] = e
      BY <1>2, <2>2
    <2> QED
      BY <2>1, <2>3, <2>4
  <1>18. new = [size |-> realsize, used |-> ht.used, table |-> linked[L]]
    BY <1>3 DEF linked
  <1> HIDE DEF new
  <1>19. new.size = realsize /\ new.used = ht.used /\ new.table = linked[L] /\ new = [size |-> new.size, used |-> new.used, table |-> new.table]
    BY <1>18
  <1>20. IsTable(new, V)
    BY <1>1, <1>2, <1>16, <1>19 DEF IsTable, P
  <1> QED
    BY <1>1, <1>17, <1>19, <1>20 DEF new

\* There is room for one more entry once the table has grown.
LEMMA Grows ==
    ASSUME NEW V, NEW ht, IsTable(ht, V)
    PROVE  LET g == _dictExpandIfNeeded(ht)
           IN  /\ IsTable(g, V) /\ g.size \in Nat \ {0} /\ g.used < g.size
               /\ \A e : In(g.table, e) <=> In(ht.table, e)
  <1> DEFINE g == _dictExpandIfNeeded(ht)
  <1>1. ht.size \in Nat /\ ht.used \in Nat /\ (ht.size > 0 => ht.used <= ht.size)
    BY TableEntries DEF IsTable
  <1>2. CASE ht.size = 0
    <2>1. g = dictExpand(ht, DICT_HT_INITIAL_SIZE) /\ DICT_HT_INITIAL_SIZE \in Nat /\ DICT_HT_INITIAL_SIZE > 0
      BY <1>2, InitialSizeAssumption DEF _dictExpandIfNeeded
    <2>2. ht.used = 0
      <3>1. Rows(ht.table, 0, Entry(V)) /\ ht.used = Len(Flat(ht.table, 0)) /\ 0 \in Nat
        BY <1>2 DEF IsTable, Chains
      <3>2. Flat(ht.table, 0) = <<>>
        BY <3>1, FlatStep
      <3> QED
        BY <3>1, <3>2
    <2>3. ht.used <= DICT_HT_INITIAL_SIZE
      BY <2>1, <2>2
    <2> HIDE DEF g
    <2>4. /\ IsTable(g, V) /\ g.used = ht.used /\ g.size \in Nat \ {0} /\ g.size >= DICT_HT_INITIAL_SIZE
          /\ \A e : In(g.table, e) <=> In(ht.table, e)
      BY <2>1, <2>3, Expands
    <2> QED
      BY <2>1, <2>2, <2>4 DEF g
  <1>3. CASE ht.size # 0 /\ ht.used = ht.size
    <2>1. g = dictExpand(ht, ht.size * 2) /\ ht.size * 2 \in Nat /\ ht.used <= ht.size * 2 /\ ht.used < ht.size * 2
      BY <1>1, <1>3 DEF _dictExpandIfNeeded
    <2> DEFINE size == ht.size * 2
    <2> HIDE DEF g, size
    <2>2. /\ IsTable(g, V) /\ g.used = ht.used /\ g.size \in Nat \ {0} /\ g.size >= size
          /\ \A e : In(g.table, e) <=> In(ht.table, e)
      <3>1. g = dictExpand(ht, size) /\ size \in Nat /\ ht.used <= size
        BY <2>1 DEF size
      <3> QED
        BY <3>1, Expands
    <2>3. g.used < g.size
      BY <1>1, <2>1, <2>2 DEF size
    <2> QED
      BY <2>2, <2>3 DEF g
  <1>4. CASE ht.size # 0 /\ ht.used # ht.size
    <2>1. g = ht
      BY <1>4 DEF _dictExpandIfNeeded
    <2> HIDE DEF g
    <2>2. g.size \in Nat \ {0} /\ g.used < g.size
      BY <1>1, <1>4, <2>1
    <2> QED
      BY <2>1, <2>2 DEF g
  <1> QED
    BY <1>2, <1>3, <1>4

\* dictReplace: the key finds the new value, the others what they found.
LEMMA Replaces ==
    ASSUME NEW V, NoEntry \notin V, NEW ht, IsTable(ht, V), NEW k \in Key, NEW v \in V
    PROVE  LET new == dictReplace(ht, k, v)
           IN  /\ IsTable(new, V)
               /\ dictFind(new, k) = v
               /\ \A q \in Key : q # k => dictFind(new, q) = dictFind(ht, q)
  <1> DEFINE g == _dictExpandIfNeeded(ht)
             n == g.size
             s == Slot(g, k)
             e == [key |-> k, val |-> v]
             i == First(Places(g, k))
             new == dictReplace(ht, k, v)
  <1>1. /\ IsTable(g, V) /\ n \in Nat \ {0} /\ g.used < n
        /\ \A x : In(g.table, x) <=> In(ht.table, x)
    BY Grows
  <1> HIDE DEF g
  <1>2. n \in Nat /\ Chains(g.table, n, V) /\ Tidy(g.table, n) /\ g.used = Len(Flat(g.table, n)) /\ g.used \in Nat
    BY <1>1, TableEntries DEF IsTable
  <1>3. s \in 0..(n - 1) /\ hash[e.key] % n = s /\ e \in Entry(V)
    BY <1>1, PlacesOf DEF Slot, Entry
  <1>4. g = [size |-> n, used |-> g.used, table |-> g.table]
    BY <1>1 DEF IsTable
  <1>5. CASE Places(g, k) = {}
    <2> DEFINE t == g.table
               u == PrependTo(t, s, e)
    <2>1. new = [size |-> n, used |-> g.used + 1, table |-> u]
      <3>1. new = [g EXCEPT !.table[s] = <<e>> \o @, !.used = @ + 1]
        BY <1>5 DEF dictReplace, g
      <3>2. g.table \in [0..(n - 1) -> Seq(Entry(V))]
        BY <1>2 DEF Chains, Rows
      <3> HIDE DEF new, s, e, n
      <3>3. new = [[g EXCEPT !.table[s] = <<e>> \o g.table[s]] EXCEPT !.used = g.used + 1]
        BY <3>1
      <3>4. g = [size |-> g.size, used |-> g.used, table |-> g.table] /\ n = g.size
        BY <1>4 DEF n
      <3>5. new = [size |-> g.size, used |-> g.used + 1, table |-> With(g.table, s, <<e>> \o g.table[s])]
        <4>1. PICK c : c = With(g.table, s, <<e>> \o g.table[s])
          OBVIOUS
        <4>2. PICK x : x = [g EXCEPT !.table[s] = <<e>> \o g.table[s]]
          OBVIOUS
        <4>3. x = [size |-> g.size, used |-> g.used, table |-> [g.table EXCEPT ![s] = <<e>> \o g.table[s]]]
          BY <3>4, <4>2
        <4>4. x = [size |-> g.size, used |-> g.used, table |-> c]
          BY <4>1, <4>3 DEF With
        <4>5. [x EXCEPT !.used = g.used + 1] = [size |-> g.size, used |-> g.used + 1, table |-> c]
          BY <4>4
        <4> QED
          BY <3>3, <4>1, <4>2, <4>5
      <3> QED
        BY <3>4, <3>5 DEF PrependTo
    <2>2. NewKey(g.table[s], e.key)
      <3>1. \A x : In(g.table, x) => x.key # k
        BY <1>1, <1>5, PlacesOf
      <3>2. DOMAIN g.table = 0..(n - 1)
        BY <1>2 DEF Chains, Rows
      <3> QED
        BY <1>3, <3>1, <3>2 DEF NewKey, In
    <2>3. /\ Chains(u, n, V) /\ Tidy(u, n)
          /\ (\A x : In(u, x) <=> x = e \/ In(t, x))
          /\ Len(Flat(u, n)) = Len(Flat(t, n)) + 1
      <3>1. Chains(t, n, V) /\ Tidy(t, n) /\ NewKey(t[s], e.key)
        BY <1>2, <2>2
      <3> HIDE DEF t, s, e, n
      <3> QED
        BY <1>2, <1>3, <3>1, Prepend
    <2> HIDE DEF u, new
    <2>4. new.size = n /\ new.used = g.used + 1 /\ new.table = u /\ new = [size |-> new.size, used |-> new.used, table |-> new.table]
      BY <2>1
    <2>5. IsTable(new, V)
      BY <1>1, <1>2, <2>3, <2>4 DEF IsTable
    <2>6. In(new.table, e) /\ e.key = k /\ e.val = v
      BY <2>3, <2>4
    <2>7. \A x : x.key # k => (In(ht.table, x) <=> In(new.table, x))
      BY <1>1, <2>3, <2>4
    <2>8. dictFind(new, k) = v
      BY <2>5, <2>6, FindIn
    <2>9. ASSUME NEW q \in Key, q # k PROVE dictFind(new, q) = dictFind(ht, q)
      BY <2>5, <2>7, <2>9, SameFinds
    <2> QED
      BY <2>5, <2>8, <2>9 DEF new
  <1>6. CASE Places(g, k) # {}
    <2>1. /\ i \in DOMAIN g.table[s] /\ g.table[s][i].key = k
      BY <1>1, <1>6, PlacesOf
    <2> DEFINE t == g.table
               u == SetAt(t, s, i, e)
    <2>2. new = [size |-> n, used |-> g.used, table |-> u]
      <3>1. new = [g EXCEPT !.table[s][i].val = v]
        BY <1>6 DEF dictReplace, g
      <3>2. g.table \in [0..(n - 1) -> Seq(Entry(V))]
        BY <1>2 DEF Chains, Rows
      <3>3. g.table[s] \in Seq(Entry(V)) /\ g.table[s][i] \in Entry(V)
        <4> HIDE DEF s, n, i
        <4>1. g.table[s] \in Seq(Entry(V))
          BY <1>3, <3>2
        <4> QED
          BY <2>1, <4>1
      <3>4. g.table[s][i] = [key |-> k, val |-> g.table[s][i].val]
        BY <2>1, <3>3 DEF Entry
      <3> HIDE DEF new, s, n, i
      <3>5. [g.table[s][i] EXCEPT !.val = v] = [key |-> g.table[s][i].key, val |-> v]
        BY <2>1, <3>4
      <3>6. [g EXCEPT !.table[s][i].val = v] = [size |-> n, used |-> g.used, table |-> [g.table EXCEPT ![s] = [g.table[s] EXCEPT ![i] = [g.table[s][i] EXCEPT !.val = v]]]]
        BY <1>4
      <3> QED
        BY <2>1, <3>1, <3>5, <3>6 DEF SetAt, With
    <2>3. /\ Chains(u, n, V) /\ Tidy(u, n)
          /\ (\A x : In(u, x) <=> x = e \/ (In(t, x) /\ x.key # t[s][i].key))
          /\ Len(Flat(u, n)) = Len(Flat(t, n))
      <3>1. Chains(t, n, V) /\ Tidy(t, n) /\ i \in DOMAIN t[s]
        BY <1>2, <2>1
      <3>2. n \in Nat /\ s \in 0..(n - 1) /\ e \in Entry(V) /\ e.key = t[s][i].key
        BY <1>2, <1>3, <2>1
      <3> HIDE DEF t, s, n, i, e
      <3> QED
        BY <3>1, <3>2, SetVal
    <2> HIDE DEF u, new
    <2>4. new.size = n /\ new.used = g.used /\ new.table = u /\ new = [size |-> new.size, used |-> new.used, table |-> new.table]
      BY <2>2
    <2>5. IsTable(new, V)
      BY <1>1, <1>2, <2>3, <2>4 DEF IsTable
    <2>6. In(new.table, e) /\ e.key = k /\ e.val = v
      BY <2>1, <2>3, <2>4
    <2>7. \A x : x.key # k => (In(ht.table, x) <=> In(new.table, x))
      BY <1>1, <2>1, <2>3, <2>4
    <2>8. dictFind(new, k) = v
      BY <2>5, <2>6, FindIn
    <2>9. ASSUME NEW q \in Key, q # k PROVE dictFind(new, q) = dictFind(ht, q)
      BY <2>5, <2>7, <2>9, SameFinds
    <2> QED
      BY <2>5, <2>8, <2>9 DEF new
  <1> QED
    BY <1>5, <1>6

\* dictDelete: the key finds nothing, the others what they found.
LEMMA Deletes ==
    ASSUME NEW V, NoEntry \notin V, NEW ht, IsTable(ht, V), NEW k \in Key
    PROVE  LET new == dictDelete(ht, k)
           IN  /\ IsTable(new, V)
               /\ dictFind(new, k) = NoEntry
               /\ \A q \in Key : q # k => dictFind(new, q) = dictFind(ht, q)
  <1> DEFINE n == ht.size
             s == Slot(ht, k)
             i == First(Places(ht, k))
             new == dictDelete(ht, k)
  <1>1. CASE Places(ht, k) = {}
    BY <1>1 DEF dictDelete, dictFind
  <1>2. CASE Places(ht, k) # {}
    <2>1. i \in DOMAIN ht.table[s] /\ ht.table[s][i].key = k /\ n > 0 /\ s \in 0..(n - 1)
      BY <1>2, PlacesOf
    <2>2. n \in Nat /\ Chains(ht.table, n, V) /\ Tidy(ht.table, n) /\ ht.used = Len(Flat(ht.table, n)) /\ ht.used \in Nat /\ (n > 0 => ht.used <= n)
      BY TableEntries DEF IsTable
    <2>3. ht = [size |-> n, used |-> ht.used, table |-> ht.table]
      BY DEF IsTable
    <2> DEFINE t == ht.table
               u == RemoveFrom(t, s, i)
    <2>4. new = [size |-> n, used |-> ht.used - 1, table |-> u]
      <3>1. new = [ht EXCEPT !.table[s] = RemoveAt(@, i), !.used = @ - 1]
        BY <1>2 DEF dictDelete
      <3>2. ht.table \in [0..(n - 1) -> Seq(Entry(V))]
        BY <2>2 DEF Chains, Rows
      <3> HIDE DEF new, s, n, i
      <3>3. new = [[ht EXCEPT !.table[s] = RemoveAt(ht.table[s], i)] EXCEPT !.used = ht.used - 1]
        BY <3>1
      <3>4. ht = [size |-> ht.size, used |-> ht.used, table |-> ht.table] /\ n = ht.size
        BY <2>3 DEF n
      <3>5. new = [size |-> ht.size, used |-> ht.used - 1, table |-> With(ht.table, s, RemoveAt(ht.table[s], i))]
        <4>1. PICK c : c = With(ht.table, s, RemoveAt(ht.table[s], i))
          OBVIOUS
        <4>2. PICK x : x = [ht EXCEPT !.table[s] = RemoveAt(ht.table[s], i)]
          OBVIOUS
        <4>3. x = [size |-> ht.size, used |-> ht.used, table |-> [ht.table EXCEPT ![s] = RemoveAt(ht.table[s], i)]]
          BY <3>4, <4>2
        <4>4. x = [size |-> ht.size, used |-> ht.used, table |-> c]
          BY <4>1, <4>3 DEF With
        <4>5. [x EXCEPT !.used = ht.used - 1] = [size |-> ht.size, used |-> ht.used - 1, table |-> c]
          BY <4>4
        <4> QED
          BY <3>3, <4>1, <4>2, <4>5
      <3> QED
        BY <3>4, <3>5 DEF RemoveFrom
    <2>5. /\ Chains(u, n, V) /\ Tidy(u, n)
          /\ (\A x : In(u, x) <=> In(t, x) /\ x.key # t[s][i].key)
          /\ Len(Flat(u, n)) = Len(Flat(t, n)) - 1 /\ Len(Flat(t, n)) > 0
      <3>1. Chains(t, n, V) /\ Tidy(t, n) /\ i \in DOMAIN t[s]
        BY <2>1, <2>2
      <3> HIDE DEF t, s, n, i
      <3> QED
        BY <2>1, <2>2, <3>1, TakeOut
    <2> HIDE DEF u, new
    <2>6. new.size = n /\ new.used = ht.used - 1 /\ new.table = u /\ new = [size |-> new.size, used |-> new.used, table |-> new.table]
      BY <2>4
    <2>7. IsTable(new, V)
      BY <2>2, <2>5, <2>6 DEF IsTable
    <2>8. dictFind(new, k) = NoEntry
      <3> SUFFICES ASSUME dictFind(new, k) # NoEntry PROVE FALSE
        OBVIOUS
      <3> DEFINE x == [key |-> k, val |-> dictFind(new, k)]
      <3>1. In(new.table, x) /\ x.key = k
        BY <2>7, FindsEntry
      <3> HIDE DEF x
      <3> QED
        BY <2>1, <2>5, <2>6, <3>1
    <2>9. \A x : x.key # k => (In(ht.table, x) <=> In(new.table, x))
      BY <2>1, <2>5, <2>6
    <2>10. ASSUME NEW q \in Key, q # k PROVE dictFind(new, q) = dictFind(ht, q)
      BY <2>7, <2>9, <2>10, SameFinds
    <2> QED
      BY <2>7, <2>8, <2>10 DEF new
  <1> QED
    BY <1>1, <1>2
(***************************************************************************)
(* The invariant.                                                          *)
(***************************************************************************)
ReplyTypes == {"ok", "error", "line", "message", "subscribe", "unsubscribe"}
ReplyOf == [type : ReplyTypes, p : BOOLEAN, name : Key \cup {""}, count : Nat, id : Nat]
Command == [op : Ops, p : BOOLEAN, names : Seq(Key), id : Nat, fn : BOOLEAN, subscribed : BOOLEAN]

\* The callbacks in the dictionaries.
Subs == [id : Nat \ {0}, fn : {TRUE}]

\* The context itself.
LocalTypes ==
    /\ flags \subseteq {"CONNECTED", "DISCONNECTING", "FREEING", "IN_CALLBACK", "SUBSCRIBED", "MONITORING"}
    /\ "IN_CALLBACK" \in flags <=> pc \in {"reply_cb", "free_cb"}
    /\ err \in BOOLEAN /\ half \in BOOLEAN
    /\ pc \in {"loop", "connect_cb", "process", "reply_cb", "free", "free_cb", "gone", "aborted"}
    /\ left \in {"not_called", "ok", "err"}
    /\ replies \in Seq(Callback) /\ invalid \in Seq(Callback) /\ cb \in Callback

\* Replies to subscriptions and messages carry a name.
Named(s) == \A i \in DOMAIN s : IsArray(s[i]) => s[i].name \in Key

\* What is on the wire, and the commands.
ServerTypes(srv) == srv \in [subs : SUBSET (BOOLEAN \X Key), monitor : BOOLEAN, open : BOOLEAN] /\ IsFiniteSet(srv.subs)
WireTypes ==
    /\ reader \in Seq(ReplyOf) /\ Named(reader)
    /\ inbuf \in Seq(ReplyOf) /\ Named(inbuf)
    /\ ServerTypes(server)
    /\ obuf \in Seq(Command) /\ issued \in Seq(Command)
    /\ Len(issued) <= MaxCmds
    /\ got \in Seq(Seq(ReplyOf \cup {NULL})) /\ Len(got) = Len(issued)

\* The dictionaries are tables with the callbacks of the last subscriptions.
Found(ht, p) ==
    \A n \in Key : dictFind(ht, n) = IF last[p][n] = 0 THEN NoEntry ELSE [id |-> last[p][n], fn |-> TRUE]
TableTypes ==
    /\ last \in [BOOLEAN -> [Key -> 0..MaxCmds]]
    /\ IsTable(channels, Subs) /\ Found(channels, FALSE)
    /\ IsTable(patterns, Subs) /\ Found(patterns, TRUE)

\* The dictionaries are walked when all other callbacks are done, and nothing
\* is subscribed meanwhile.
FreeTypes ==
    /\ pc \in {"free", "free_cb"} => flags \cap {"DISCONNECTING", "FREEING"} # {}
    /\ walk \in 0..Len(SubscriptionCbs)
    /\ walk > 0 => pc \in {"free", "free_cb", "gone"} /\ replies = <<>> /\ invalid = <<>>
    /\ pc = "gone" => replies = <<>> /\ invalid = <<>> /\ walk = Len(SubscriptionCbs)

Types == LocalTypes /\ WireTypes /\ TableTypes /\ FreeTypes

\* The commands and what refers to them.
IsOther(id) == id \in DOMAIN issued /\ issued[id].op \in Other
OfCommand(c) == c = NoCb \/ (c.id \in DOMAIN issued /\ c.fn = issued[c.id].fn)
Registered(p, n) == last[p][n] # 0
Commands ==
    /\ \A id \in DOMAIN issued : issued[id].id = id /\ (issued[id].op \notin Other => issued[id].fn)
    /\ \A p \in BOOLEAN, n \in Key : Registered(p, n) =>
          last[p][n] \in DOMAIN issued /\ issued[last[p][n]].op = "subscribe"
    /\ \A i \in DOMAIN replies : OfCommand(replies[i])
    /\ \A i \in DOMAIN invalid : OfCommand(invalid[i])
    /\ OfCommand(cb)

\* Before it is connected nothing has come.
Connecting ==
    "CONNECTED" \notin flags /\ pc # "gone" =>
        /\ inbuf = <<>> /\ reader = <<>> /\ server = [subs |-> {}, monitor |-> FALSE, open |-> TRUE]
        /\ pc \in {"loop", "free", "free_cb"}

Mon == "MONITORING" \in flags
Live == pc \in {"loop", "connect_cb", "process", "reply_cb"}

\* A monitoring context has nothing but monitor callbacks.
MonCb(c) == c.id = 0 \/ issued[c.id].op = "monitor"
Monitoring ==
    /\ \A id \in DOMAIN issued : issued[id].op = "monitor" => Mon
    /\ Mon => /\ invalid = <<>> /\ ~Subscribed
              /\ \A i \in DOMAIN replies : MonCb(replies[i])
              /\ pc \in {"process", "reply_cb"} => MonCb(cb)

\* The others are pending in the order of their commands.
Increasing(s) == \A i, j \in DOMAIN s : i < j => s[i].id < s[j].id
Ordered ==
    ~Mon => /\ Increasing(replies) /\ Increasing(invalid)
            /\ \A i \in DOMAIN replies, j \in DOMAIN invalid : replies[i].id < invalid[j].id
            /\ \A i \in DOMAIN replies : IsOther(replies[i].id)
            /\ \A i \in DOMAIN invalid : IsOther(invalid[i].id)

\* An item of s has the number id.
Waits(id, s) == \E i \in DOMAIN s : s[i].id = id
Pending(id) == Waits(id, replies) \/ Waits(id, invalid)

\* What the callbacks of the others were told.
Told ==
    \A id \in DOMAIN issued : issued[id].op \in Other =>
        /\ \A i \in DOMAIN got[id] : IsOwn(got[id][i], id)
        /\ IF issued[id].fn /\ ~Pending(id) THEN Len(got[id]) = 1 ELSE got[id] = <<>>

(* The pipeline: q the replies that come, o the commands not yet written,  *)
(* srv the server.                                                         *)
OfPubSub(cmd) == cmd.op \in {"subscribe", "unsubscribe"}

InOrder(q, o) ==
    /\ \A i, j \in DOMAIN q : i < j /\ q[i].id > 0 /\ q[j].id > 0 =>
          q[i].id <= q[j].id /\ (~IsArray(q[j]) => q[i].id < q[j].id)
    /\ \A k \in DOMAIN o : o[k].id \in DOMAIN issued /\ o[k] = issued[o[k].id]
    /\ Increasing(o)
    /\ \A i \in DOMAIN q, k \in DOMAIN o : q[i].id < o[k].id

Answer(r) ==
    /\ r.id > 0 => /\ r.id \in DOMAIN issued
                   /\ IF OfPubSub(issued[r.id]) THEN r.type = issued[r.id].op ELSE r.type \in {"ok", "error"}
    /\ r.id = 0 => r.type \in {"message", "line", "error"}
Answers(q, srv) ==
    \A i \in DOMAIN q : /\ Answer(q[i])
                        /\ q[i].id = 0 /\ q[i].type = "error" => Len(q) = 1 /\ ~srv.open
                        /\ q[i].type = "line" => Mon

InStep(q, o, srv) ==
    \A x \in DOMAIN issued : issued[x].op \in Other =>
        /\ Waits(x, q) => Pending(x)
        /\ srv.open /\ Pending(x) => Waits(x, q) \/ Waits(x, o)
        /\ srv.open /\ Waits(x, o) => Pending(x)
        /\ Pending(x) /\ ~Waits(x, q) => \A i \in DOMAIN q : q[i].id < x

\* A command issued before the context was subscribed is answered before
\* anything is published to it.
BeforeArrays(q, o, srv) ==
    \A x \in DOMAIN issued : issued[x].op \in Other /\ Waits(x, replies) =>
        /\ \A i \in DOMAIN q : IsArray(q[i]) => \E j \in DOMAIN q : j < i /\ q[j].id = x
        /\ srv.open /\ srv.subs # {} => Waits(x, q)
        /\ \A k \in DOMAIN o : OfPubSub(o[k]) => x < o[k].id

NamesRegistered(q, o, srv) ==
    /\ \A i \in DOMAIN q : IsArray(q[i]) => Registered(q[i].p, q[i].name)
    /\ \A p \in BOOLEAN, n \in Key : <<p, n>> \in srv.subs => Registered(p, n)
    /\ \A k \in DOMAIN o : OfPubSub(o[k]) => \A i \in DOMAIN o[k].names : Registered(o[k].p, o[k].names[i])

\* What is registered the server knows or will know, until it said farewell.
Subscribes(o, p, n) ==
    \E k \in DOMAIN o : o[k].op = "subscribe" /\ o[k].p = p /\ \E i \in DOMAIN o[k].names : o[k].names[i] = n
Farewell(q, p, n) == \E i \in DOMAIN q : q[i].type = "unsubscribe" /\ q[i].p = p /\ q[i].name = n
Known(q, o, srv) ==
    srv.open => \A p \in BOOLEAN, n \in Key :
        Registered(p, n) => <<p, n>> \in srv.subs \/ Subscribes(o, p, n) \/ Farewell(q, p, n)

\* An unsubscription is the last that happens to its names, and the last one
\* to the subscribed context.
Unsubscribes(q, o, srv) ==
    /\ \A k \in DOMAIN o : o[k].op = "unsubscribe" => o[k].id = Len(issued) /\ IsInjective(o[k].names)
    /\ \A i \in DOMAIN q : q[i].type = "unsubscribe" =>
          /\ q[i].id = Len(issued)
          /\ \A j \in DOMAIN q : i < j /\ IsArray(q[j]) => q[j].p # q[i].p \/ q[j].name # q[i].name
          /\ <<q[i].p, q[i].name>> \notin srv.subs
          /\ q[i].count = 0 => srv.subs = {} /\ \A j \in DOMAIN q : i < j => ~IsArray(q[j])

NotSubscribed(q, o, srv) ==
    ~Subscribed => /\ srv.subs = {} /\ invalid = <<>>
                   /\ \A i \in DOMAIN q : ~IsArray(q[i])
                   /\ \A k \in DOMAIN o : ~OfPubSub(o[k])

Pipe(q, o, srv) ==
    /\ InOrder(q, o) /\ Answers(q, srv) /\ InStep(q, o, srv) /\ BeforeArrays(q, o, srv)
    /\ NamesRegistered(q, o, srv) /\ Known(q, o, srv) /\ Unsubscribes(q, o, srv) /\ NotSubscribed(q, o, srv)
    /\ srv.monitor => Mon

Q == reader \o inbuf
Pipeline == Live => Pipe(Q, obuf, server)

(* What the callbacks were told when the context was freed.                *)
\* A command that waits with the invalid ones was issued while subscribed.
LateCommands == \A i \in DOMAIN invalid : IsOther(invalid[i].id) => issued[invalid[i].id].subscribed

\* Without an error or redisAsyncFree nothing is pending when it begins.
FreesLast == pc \in {"free", "free_cb"} /\ ~err /\ "FREEING" \notin flags => replies = <<>>

\* Nobody else is told NULL.
NullTold ==
    \A id \in DOMAIN issued : issued[id].op \in Other =>
        \A i \in DOMAIN got[id] : got[id][i] = NULL => err \/ "FREEING" \in flags \/ issued[id].subscribed

\* The subscriptions visited so far were told NULL.
Walked ==
    \A i \in 1..walk : LET id == SubscriptionCbs[i].id
                       IN  id \in DOMAIN issued /\ got[id] # <<>> /\ Last(got[id]) = NULL

LeftClean == pc = "gone" /\ left = "ok" /\ "FREEING" \notin flags => ~err

Leaving == LateCommands /\ FreesLast /\ NullTold /\ Walked /\ LeftClean

(***************************************************************************)
(* Types.                                                                  *)
(***************************************************************************)
LEMMA SubsHasNoEntry == NoEntry \notin Subs
  BY NoEntryAssumption DEF Subs

LEMMA InitTypes == Init => Types
  <1> SUFFICES ASSUME Init PROVE Types
    OBVIOUS
  <1> USE DEF Init
  <1>1. LocalTypes
    <2>1. NoCb \in Callback
      BY BoundsAssumption DEF NoCb, Callback
    <2>2. <<>> \in Seq(Callback)
      OBVIOUS
    <2>3. "IN_CALLBACK" \in flags <=> pc \in {"reply_cb", "free_cb"}
      OBVIOUS
    <2> QED
      BY <2>1, <2>2, <2>3 DEF LocalTypes
  <1>2. WireTypes
    <2>1. IsFiniteSet({})
      BY FS_EmptySet
    <2> QED
      BY <2>1, BoundsAssumption DEF WireTypes, ServerTypes, Named
  <1>3. TableTypes
    <2>1. last \in [BOOLEAN -> [Key -> 0..MaxCmds]] /\ \A p \in BOOLEAN, n \in Key : last[p][n] = 0
      BY BoundsAssumption
    <2> QED
      BY <2>1, EmptyTable DEF TableTypes, Found
  <1>4. FreeTypes
    <2>1. SubscriptionCbs = <<>>
      <3>1. [i \in 1..EmptyDict.size |-> EmptyDict.table[i - 1]] = <<>>
        BY DEF EmptyDict
      <3>2. Entries(EmptyDict) = <<>>
        BY <3>1, FlattenEmpty DEF Entries
      <3>3. Len(Entries(channels) \o Entries(patterns)) = 0
        BY <3>2
      <3> QED
        BY <3>3 DEF SubscriptionCbs
    <2> QED
      BY <2>1 DEF FreeTypes
  <1> QED
    BY <1>1, <1>2, <1>3, <1>4 DEF Types

(***************************************************************************)
(* The subscription of several names.                                      *)
(***************************************************************************)
Tables == {t \in [size : Nat, used : Nat, table : UNION {[0..(n - 1) -> Seq(Entry(Subs))] : n \in Nat}] : IsTable(t, Subs)}

LEMMA TablesAreTables ==
    ASSUME NEW t
    PROVE  t \in Tables <=> IsTable(t, Subs)
  <1>1. t \in Tables => IsTable(t, Subs)
    BY DEF Tables
  <1>2. ASSUME IsTable(t, Subs) PROVE t \in Tables
    <2> DEFINE W == UNION {[0..(n - 1) -> Seq(Entry(Subs))] : n \in Nat}
    <2>1. t = [size |-> t.size, used |-> t.used, table |-> t.table] /\ t.size \in Nat
      BY <1>2 DEF IsTable
    <2>2. t.used \in Nat
      BY <1>2, TableEntries
    <2>3. t.table \in [0..(t.size - 1) -> Seq(Entry(Subs))]
      BY <1>2 DEF IsTable, Chains, Rows
    <2>4. t.table \in W
      BY <2>1, <2>3
    <2> HIDE DEF W
    <2>5. [size |-> t.size, used |-> t.used, table |-> t.table] \in [size : Nat, used : Nat, table : W]
      BY <2>1, <2>2, <2>4
    <2>6. t \in [size : Nat, used : Nat, table : W]
      BY <2>1, <2>5, Zenon
    <2> QED
      BY <1>2, <2>6 DEF Tables, W
  <1> QED
    BY <1>1, <1>2

\* Afterwards every name is found with the new callback, the others as before.
LEMMA Registers ==
    ASSUME NEW ht, IsTable(ht, Subs), NEW names \in Seq(Key), NEW c \in Subs
    PROVE  LET new == Register(ht, names, c)
           IN  /\ IsTable(new, Subs)
               /\ \A n \in Key : dictFind(new, n) = IF n \in ToSet(names) THEN c ELSE dictFind(ht, n)
  <1> DEFINE L == Len(names)
             put(t, k) == dictReplace(t, names[k], c)
             Is(with) == with = [k \in 0..L |-> IF k = 0 THEN ht ELSE put(with[k - 1], k)]
             h == [x \in (1..L) \X Tables |-> put(x[2], x[1])]
  <1>1. Register(ht, names, c) = (CHOOSE with : Is(with))[L]
    BY DEF Register
  <1>2. L \in Nat /\ ht \in Tables /\ \A k \in 1..L : names[k] \in Key
    BY TablesAreTables
  <1>3. ASSUME NEW k \in 1..L, NEW t, IsTable(t, Subs)
        PROVE  /\ IsTable(put(t, k), Subs) /\ dictFind(put(t, k), names[k]) = c
               /\ \A n \in Key : n # names[k] => dictFind(put(t, k), n) = dictFind(t, n)
    <2>1. names[k] \in Key
      BY <1>2
    <2> QED
      BY <1>3, <2>1, SubsHasNoEntry, Replaces
  <1> HIDE DEF put, L
  <1>4. h \in [(1..L) \X Tables -> Tables]
    <2>1. ASSUME NEW x \in (1..L) \X Tables PROVE put(x[2], x[1]) \in Tables
      <3>1. x[1] \in 1..L /\ x[2] \in Tables
        OBVIOUS
      <3>2. IsTable(x[2], Subs)
        BY <3>1, TablesAreTables
      <3>3. IsTable(put(x[2], x[1]), Subs)
        BY <1>3, <3>1, <3>2
      <3> QED
        BY <3>3, TablesAreTables
    <2> QED
      BY <2>1
  <1>5. PICK f \in [0..L -> Tables] : Iterates(f, L, ht, h)
    <2> HIDE DEF h
    <2> QED
      BY <1>2, <1>4, Recursion
  <1>6. Is(f)
    <2>1. ASSUME NEW k \in 0..L, k # 0 PROVE f[k] = put(f[k - 1], k)
      <3>1. k \in 1..L /\ k - 1 \in 0..L
        BY <1>2, <2>1
      <3>2. f[k] = h[<<k, f[k - 1]>>] /\ f[k - 1] \in Tables
        BY <1>5, <3>1 DEF Iterates
      <3> QED
        BY <3>1, <3>2
    <2>2. f[0] = ht /\ f = [k \in 0..L |-> f[k]]
      BY <1>5 DEF Iterates
    <2>3. [k \in 0..L |-> f[k]] = [k \in 0..L |-> IF k = 0 THEN ht ELSE put(f[k - 1], k)]
      BY <2>1, <2>2
    <2> QED
      BY <2>2, <2>3, Zenon
  <1> DEFINE with == CHOOSE with : Is(with)
  <1>7. Is(with)
    <2> HIDE DEF Is
    <2> QED
      BY <1>6, Zenon
  <1> HIDE DEF with
  <1>8. with[0] = ht /\ \A k \in 1..L : with[k] = put(with[k - 1], k)
    <2>1. 0 \in 0..L /\ \A k \in 1..L : k \in 0..L /\ k # 0
      BY <1>2
    <2> QED
      BY <1>7, <2>1
  <1> DEFINE At(k, n) == IF \E j \in 1..k : names[j] = n THEN c ELSE dictFind(ht, n)
             P(k) == IsTable(with[k], Subs) /\ \A n \in Key : dictFind(with[k], n) = At(k, n)
             T == {k \in Nat : k <= L => P(k)}
  <1>9. 0 \in T
    BY <1>8
  <1>10. ASSUME NEW k \in T, k + 1 <= L PROVE P(k + 1)
    <2>1. P(k) /\ k \in Nat /\ k + 1 \in 1..L /\ with[k + 1] = put(with[k], k + 1)
      BY <1>8, <1>10, <1>2
    <2>2. IsTable(with[k + 1], Subs) /\ dictFind(with[k + 1], names[k + 1]) = c
          /\ \A n \in Key : n # names[k + 1] => dictFind(with[k + 1], n) = dictFind(with[k], n)
      BY <1>3, <2>1
    <2>3. ASSUME NEW n \in Key PROVE dictFind(with[k + 1], n) = At(k + 1, n)
      <3>1. CASE n = names[k + 1]
        <4>1. k + 1 \in 1..(k + 1)
          BY <2>1
        <4> QED
          BY <2>2, <3>1, <4>1
      <3>2. CASE n # names[k + 1]
        <4>1. \A j \in 1..(k + 1) : j # k + 1 => j \in 1..k
          BY <2>1
        <4>2. \A j \in 1..k : j \in 1..(k + 1)
          BY <2>1
        <4>3. (\E j \in 1..(k + 1) : names[j] = n) <=> (\E j \in 1..k : names[j] = n)
          BY <3>2, <4>1, <4>2
        <4>4. At(k + 1, n) = At(k, n)
          BY <4>3
        <4>5. dictFind(with[k], n) = At(k, n)
          BY <2>1
        <4> QED
          BY <2>2, <3>2, <4>4, <4>5
      <3> QED
        BY <3>1, <3>2
    <2> QED
      BY <2>2, <2>3
  <1>11. T = Nat
    <2> HIDE DEF P
    <2>1. \A k \in T : k + 1 \in T
      BY <1>10
    <2> HIDE DEF T
    <2>2. T \subseteq Nat
      BY DEF T
    <2> QED
      BY <1>9, <2>1, <2>2, SetInduction
  <1>12. P(L)
    <2> HIDE DEF P
    <2>1. L \in T /\ L <= L
      BY <1>2, <1>11
    <2> QED
      BY <2>1
  <1>13. ASSUME NEW n \in Key PROVE At(L, n) = IF n \in ToSet(names) THEN c ELSE dictFind(ht, n)
    BY <1>2 DEF L, ToSet
  <1> QED
    BY <1>1, <1>12, <1>13 DEF with

(***************************************************************************)
(* The answers of the server.                                              *)
(***************************************************************************)
\* The subscriptions after k names of an (un)subscription, without recursion.
NamesOf(cmd, k) == {<<cmd.p, cmd.names[j]>> : j \in 1..k}
SubsAfter(cmd, subs, k) ==
    IF cmd.op = "subscribe" THEN subs \cup NamesOf(cmd, k) ELSE subs \ NamesOf(cmd, k)
PubSubReplies(cmd, subs) ==
    [k \in 1..Len(cmd.names) |->
        Reply(cmd.op, cmd.p, cmd.names[k], Cardinality(SubsAfter(cmd, subs, k)), cmd.id)]

LEMMA SubsAfterStep ==
    ASSUME NEW cmd, NEW subs, NEW k \in Nat
    PROVE  SubsAfter(cmd, subs, k + 1) =
               IF cmd.op = "subscribe" THEN SubsAfter(cmd, subs, k) \cup {<<cmd.p, cmd.names[k + 1]>>}
               ELSE SubsAfter(cmd, subs, k) \ {<<cmd.p, cmd.names[k + 1]>>}
  <1>1. \A j : j \in 1..(k + 1) <=> j \in 1..k \/ j = k + 1
    OBVIOUS
  <1>2. NamesOf(cmd, k + 1) = NamesOf(cmd, k) \cup {<<cmd.p, cmd.names[k + 1]>>}
    BY <1>1, Zenon DEF NamesOf
  <1> QED
    BY <1>2 DEF SubsAfter

LEMMA AnswersOf ==
    ASSUME NEW cmd, NEW subs, Len(cmd.names) \in Nat
    PROVE  /\ PubSubAnswers(cmd, subs).subs = SubsAfter(cmd, subs, Len(cmd.names))
           /\ PubSubAnswers(cmd, subs).replies = PubSubReplies(cmd, subs)
  <1> DEFINE L == Len(cmd.names)
             S(k) == SubsAfter(cmd, subs, k)
             put(s, k) == IF cmd.op = "subscribe" THEN s \cup {<<cmd.p, cmd.names[k]>>}
                          ELSE s \ {<<cmd.p, cmd.names[k]>>}
             Is(after) == after = [k \in 0..L |-> IF k = 0 THEN subs
                                                  ELSE IF cmd.op = "subscribe" THEN after[k - 1] \cup {<<cmd.p, cmd.names[k]>>}
                                                  ELSE after[k - 1] \ {<<cmd.p, cmd.names[k]>>}]
             after == CHOOSE after : Is(after)
             replies_ == [k \in 1..L |-> Reply(cmd.op, cmd.p, cmd.names[k], Cardinality(after[k]), cmd.id)]
  <1>1. PubSubAnswers(cmd, subs) = [subs |-> after[L], replies |-> replies_]
    BY DEF PubSubAnswers
  <1>2. S(0) = subs
    <2>1. 1..0 = {}
      OBVIOUS
    <2>2. NamesOf(cmd, 0) = {}
      BY <2>1 DEF NamesOf
    <2> QED
      BY <2>2 DEF SubsAfter
  <1>3. ASSUME NEW k \in 0..L, k # 0 PROVE k - 1 \in 0..L /\ S(k) = put(S(k - 1), k)
    <2>1. k - 1 \in Nat /\ (k - 1) + 1 = k /\ k - 1 \in 0..L
      BY <1>3
    <2>2. S((k - 1) + 1) = put(S(k - 1), (k - 1) + 1)
      BY <2>1, SubsAfterStep
    <2> QED
      BY <2>1, <2>2
  <1> HIDE DEF S
  <1>4. Is([k \in 0..L |-> S(k)])
    <2> DEFINE f == [k \in 0..L |-> S(k)]
    <2>1. ASSUME NEW k \in 0..L, k # 0 PROVE f[k] = put(f[k - 1], k)
      BY <1>3, <2>1
    <2>2. f[0] = subs
      BY <1>2
    <2>3. f = [k \in 0..L |-> f[k]]
      OBVIOUS
    <2> HIDE DEF f
    <2>4. [k \in 0..L |-> f[k]] = [k \in 0..L |-> IF k = 0 THEN subs ELSE put(f[k - 1], k)]
      BY <2>1, <2>2
    <2>5. f = [k \in 0..L |-> IF k = 0 THEN subs ELSE put(f[k - 1], k)]
      BY <2>3, <2>4, Zenon
    <2>6. Is(f)
      BY <2>5
    <2> QED
      BY <2>6 DEF f
  <1>5. Is(after)
    <2> HIDE DEF Is
    <2> QED
      BY <1>4, Zenon
  <1> HIDE DEF after
  <1>6. after[0] = subs /\ \A k \in 0..L : k # 0 => after[k] = put(after[k - 1], k)
    <2>1. 0 \in 0..L
      OBVIOUS
    <2> QED
      BY <1>5, <2>1
  <1> DEFINE T == {k \in Nat : k <= L => after[k] = S(k)}
  <1>7. 0 \in T
    BY <1>2, <1>6
  <1>8. ASSUME NEW k \in T PROVE k + 1 \in T
    <2>1. SUFFICES ASSUME k + 1 <= L PROVE after[k + 1] = S(k + 1)
      OBVIOUS
    <2>2. k + 1 \in 0..L /\ k + 1 # 0 /\ (k + 1) - 1 = k /\ after[k] = S(k)
      BY <2>1
    <2>3. after[k + 1] = put(after[k], k + 1)
      BY <1>6, <2>2
    <2>4. S(k + 1) = put(S(k), k + 1)
      BY <1>3, <2>2
    <2> QED
      BY <2>2, <2>3, <2>4
  <1>9. T = Nat
    <2>1. T \subseteq Nat
      OBVIOUS
    <2> HIDE DEF T
    <2> QED
      BY <1>7, <1>8, <2>1, SetInduction
  <1>10. \A k \in 0..L : after[k] = S(k)
    <2>1. \A k \in 0..L : k \in T /\ k <= L
      BY <1>9
    <2> QED
      BY <2>1
  <1>11. after[L] = S(L)
    BY <1>10
  <1>12. replies_ = [k \in 1..L |-> Reply(cmd.op, cmd.p, cmd.names[k], Cardinality(S(k)), cmd.id)]
    <2>1. \A k \in 1..L : after[k] = S(k)
      BY <1>10
    <2> QED
      BY <2>1
  <1> QED
    BY <1>1, <1>11, <1>12 DEF PubSubReplies, S

LEMMA SubsAfterFinite ==
    ASSUME NEW cmd, NEW subs, IsFiniteSet(subs), NEW k \in Nat
    PROVE  IsFiniteSet(SubsAfter(cmd, subs, k)) /\ Cardinality(SubsAfter(cmd, subs, k)) \in Nat
  <1> DEFINE f == [j \in 1..k |-> <<cmd.p, cmd.names[j]>>]
  <1>1. IsFiniteSet(1..k)
    BY FS_Interval
  <1>2. IsFiniteSet(NamesOf(cmd, k))
    <2>1. f \in Surjection(1..k, NamesOf(cmd, k))
      BY DEF Surjection, NamesOf
    <2> QED
      BY <1>1, <2>1, FS_Surjection
  <1>3. IsFiniteSet(subs \cup NamesOf(cmd, k)) /\ IsFiniteSet(subs \ NamesOf(cmd, k))
    BY <1>2, FS_Union, FS_Difference
  <1>4. IsFiniteSet(SubsAfter(cmd, subs, k))
    BY <1>3 DEF SubsAfter
  <1> QED
    BY <1>4, FS_CardinalityType

(***************************************************************************)
(* Types of what is on the wire.                                           *)
(***************************************************************************)
Wires == {w \in [server : [subs : SUBSET (BOOLEAN \X Key), monitor : BOOLEAN, open : BOOLEAN], inbuf : Seq(ReplyOf)] :
              ServerTypes(w.server) /\ Named(w.inbuf)}

LEMMA CommandFields ==
    ASSUME NEW cmd \in Command
    PROVE  /\ cmd.op \in {"regular", "quit", "subscribe", "unsubscribe", "monitor"} /\ cmd.p \in BOOLEAN
           /\ cmd.names \in Seq(Key) /\ cmd.id \in Nat /\ Len(cmd.names) \in Nat
           /\ cmd.fn \in BOOLEAN /\ cmd.subscribed \in BOOLEAN
  <1>1. /\ cmd.op \in Ops /\ cmd.p \in BOOLEAN /\ cmd.names \in Seq(Key) /\ cmd.id \in Nat
        /\ cmd.fn \in BOOLEAN /\ cmd.subscribed \in BOOLEAN
    BY DEF Command
  <1>2. Len(cmd.names) \in Nat
    BY <1>1
  <1>3. cmd.op \in {"regular", "quit", "subscribe", "unsubscribe", "monitor"}
    BY <1>1, OpsAssumption
  <1> QED
    BY <1>1, <1>2, <1>3

LEMMA PubSubTypes ==
    ASSUME NEW cmd \in Command, OfPubSub(cmd), NEW subs, subs \subseteq BOOLEAN \X Key, IsFiniteSet(subs)
    PROVE  LET a == PubSubAnswers(cmd, subs)
           IN  a.subs \subseteq BOOLEAN \X Key /\ IsFiniteSet(a.subs) /\ a.replies \in Seq(ReplyOf) /\ Named(a.replies)
  <1> DEFINE L == Len(cmd.names)
  <1>1. /\ L \in Nat /\ cmd.op \in {"subscribe", "unsubscribe"} /\ cmd.p \in BOOLEAN /\ cmd.id \in Nat
        /\ \A k \in 1..L : cmd.names[k] \in Key
    BY CommandFields DEF OfPubSub
  <1>2. \A k \in Nat : IsFiniteSet(SubsAfter(cmd, subs, k)) /\ Cardinality(SubsAfter(cmd, subs, k)) \in Nat
    BY SubsAfterFinite
  <1>3. SubsAfter(cmd, subs, L) \subseteq BOOLEAN \X Key
    BY <1>1 DEF SubsAfter, NamesOf
  <1>4. ASSUME NEW k \in 1..L
        PROVE  LET r == Reply(cmd.op, cmd.p, cmd.names[k], Cardinality(SubsAfter(cmd, subs, k)), cmd.id)
               IN  r \in ReplyOf /\ r.name \in Key
    <2>1. Cardinality(SubsAfter(cmd, subs, k)) \in Nat /\ cmd.names[k] \in Key
      BY <1>1, <1>2
    <2> QED
      BY <1>1, <2>1 DEF Reply, ReplyOf, ReplyTypes
  <1>5. PubSubReplies(cmd, subs) \in Seq(ReplyOf) /\ Named(PubSubReplies(cmd, subs))
    BY <1>1, <1>4 DEF PubSubReplies, Named
  <1> QED
    BY <1>1, <1>2, <1>3, <1>5, AnswersOf

LEMMA NamedParts ==
    ASSUME NEW s \in Seq(ReplyOf), Named(s), NEW t \in Seq(ReplyOf), Named(t), NEW n \in Nat, NEW m \in Nat, m <= Len(s)
    PROVE  /\ s \o t \in Seq(ReplyOf) /\ Named(s \o t)
           /\ SubSeq(s, n + 1, m) \in Seq(ReplyOf) /\ Named(SubSeq(s, n + 1, m))
  <1>1. s \o t \in Seq(ReplyOf) /\ Named(s \o t)
    BY DEF Named
  <1>2. SubSeq(s, n + 1, m) \in Seq(ReplyOf)
    BY SubSeqProperties
  <1>3. ASSUME NEW i \in DOMAIN SubSeq(s, n + 1, m) PROVE SubSeq(s, n + 1, m)[i] = s[n + i] /\ n + i \in DOMAIN s
    BY SubSeqProperties
  <1>4. Named(SubSeq(s, n + 1, m))
    BY <1>3 DEF Named
  <1> QED
    BY <1>1, <1>2, <1>4

LEMMA PlainReply ==
    ASSUME NEW type \in {"ok", "error", "line"}, NEW id \in Nat
    PROVE  Plain(type, id) \in ReplyOf /\ ~IsArray(Plain(type, id)) /\ Named(<<Plain(type, id)>>)
           /\ <<Plain(type, id)>> \in Seq(ReplyOf)
  <1>1. Plain(type, id) \in ReplyOf /\ ~IsArray(Plain(type, id))
    BY DEF Plain, Reply, ReplyOf, ReplyTypes, IsArray
  <1> HIDE DEF Plain
  <1> QED
    BY <1>1 DEF Named

IsWire(w, a, m, o, q) ==
    /\ w = [server |-> [subs |-> a, monitor |-> m, open |-> o], inbuf |-> q]
    /\ a \subseteq BOOLEAN \X Key /\ IsFiniteSet(a) /\ m \in BOOLEAN /\ o \in BOOLEAN
    /\ q \in Seq(ReplyOf) /\ Named(q)

LEMMA ServerFields ==
    ASSUME NEW v, ServerTypes(v), NEW d, NEW e
    PROVE  [v EXCEPT !.open = d, !.monitor = e] = [subs |-> v.subs, monitor |-> e, open |-> d]
  <1> DEFINE w == [subs |-> v.subs, monitor |-> v.monitor, open |-> v.open]
             x == [subs |-> v.subs, monitor |-> v.monitor, open |-> d]
  <1>1. [w EXCEPT !.open = d] = x
    OBVIOUS
  <1>2. [x EXCEPT !.monitor = e] = [subs |-> v.subs, monitor |-> e, open |-> d]
    OBVIOUS
  <1>3. [v EXCEPT !.open = d, !.monitor = e] = [[v EXCEPT !.open = d] EXCEPT !.monitor = e]
    OBVIOUS
  <1>4. v = w
    BY DEF ServerTypes
  <1> HIDE DEF w, x
  <1>5. [v EXCEPT !.open = d] = x
    BY <1>1, <1>4, Zenon
  <1> QED
    BY <1>2, <1>3, <1>5, Zenon

LEMMA AnsweredTypes ==
    ASSUME NEW s \in Wires, NEW cmd \in Command
    PROVE  Answered(s, cmd) \in Wires
  <1>1. /\ s.server.subs \subseteq BOOLEAN \X Key /\ IsFiniteSet(s.server.subs)
        /\ s.server.monitor \in BOOLEAN /\ s.server.open \in BOOLEAN
        /\ s.server = [subs |-> s.server.subs, monitor |-> s.server.monitor, open |-> s.server.open]
        /\ s.inbuf \in Seq(ReplyOf) /\ Named(s.inbuf) /\ s = [server |-> s.server, inbuf |-> s.inbuf]
    BY DEF Wires, ServerTypes
  <1>2. ASSUME NEW w, NEW a, NEW m, NEW o, NEW q, IsWire(w, a, m, o, q) PROVE w \in Wires
    BY <1>2 DEF IsWire, Wires, ServerTypes
  <1>3. CASE ~s.server.open
    BY <1>3 DEF Answered
  <1>4. CASE s.server.open /\ OfPubSub(cmd)
    <2> DEFINE a == PubSubAnswers(cmd, s.server.subs)
    <2>1. a.subs \subseteq BOOLEAN \X Key /\ IsFiniteSet(a.subs) /\ a.replies \in Seq(ReplyOf) /\ Named(a.replies)
      BY <1>1, <1>4, PubSubTypes
    <2>2. Answered(s, cmd) = [server |-> [s.server EXCEPT !.subs = a.subs], inbuf |-> s.inbuf \o a.replies]
      BY <1>4 DEF Answered, OfPubSub
    <2> HIDE DEF a
    <2>3. s.inbuf \o a.replies \in Seq(ReplyOf) /\ Named(s.inbuf \o a.replies)
      <3>1. 0 \in Nat /\ 0 <= Len(s.inbuf)
        BY <1>1
      <3> QED
        BY <1>1, <2>1, <3>1, NamedParts
    <2>4. [s.server EXCEPT !.subs = a.subs] = [subs |-> a.subs, monitor |-> s.server.monitor, open |-> s.server.open]
      BY <1>1
    <2> QED
      <3>1. IsWire(Answered(s, cmd), a.subs, s.server.monitor, s.server.open, s.inbuf \o a.replies)
        BY <1>1, <2>1, <2>2, <2>3, <2>4 DEF IsWire
      <3> QED
        BY <1>2, <3>1
  <1>5. CASE s.server.open /\ ~OfPubSub(cmd)
    <2> DEFINE allowed == cmd.op = "quit" \/ s.server.subs = {}
               r == Plain(IF allowed THEN "ok" ELSE "error", cmd.id)
               monitor == s.server.monitor \/ (cmd.op = "monitor" /\ allowed)
               open == cmd.op # "quit"
    <2>1. Answered(s, cmd) = [server |-> [s.server EXCEPT !.open = open, !.monitor = monitor],
                              inbuf |-> Append(s.inbuf, r)]
      BY <1>5 DEF Answered, OfPubSub
    <2>2. <<r>> \in Seq(ReplyOf) /\ Named(<<r>>) /\ r \in ReplyOf
      BY PlainReply, CommandFields
    <2>3. monitor \in BOOLEAN /\ open \in BOOLEAN
      BY <1>1
    <2> HIDE DEF r, monitor, open
    <2>4. [s.server EXCEPT !.open = open, !.monitor = monitor] = [subs |-> s.server.subs, monitor |-> monitor, open |-> open]
      <3>1. ServerTypes(s.server)
        BY DEF Wires
      <3> QED
        BY <3>1, ServerFields
    <2>5. Append(s.inbuf, r) = s.inbuf \o <<r>>
      BY <1>1, <2>2
    <2>6. s.inbuf \o <<r>> \in Seq(ReplyOf) /\ Named(s.inbuf \o <<r>>)
      <3>1. 0 \in Nat /\ 0 <= Len(s.inbuf)
        BY <1>1
      <3> QED
        BY <1>1, <2>2, <3>1, NamedParts
    <2> QED
      <3>1. IsWire(Answered(s, cmd), s.server.subs, monitor, open, s.inbuf \o <<r>>)
        BY <1>1, <2>1, <2>3, <2>4, <2>5, <2>6 DEF IsWire
      <3> QED
        BY <1>2, <3>1
  <1> QED
    BY <1>3, <1>4, <1>5

\* The server answers the commands one after the other.
LEMMA Delivers ==
    ASSUME WireTypes, NEW cmds \in Seq(Command), Deliver(cmds)
    PROVE  \E after \in [0..Len(cmds) -> Wires] :
              /\ after[0] = [server |-> server, inbuf |-> inbuf]
              /\ \A k \in 1..Len(cmds) : after[k] = Answered(after[k - 1], cmds[k])
              /\ server' = after[Len(cmds)].server /\ inbuf' = after[Len(cmds)].inbuf
  <1> DEFINE L == Len(cmds)
             base == [server |-> server, inbuf |-> inbuf]
             put(s, k) == Answered(s, cmds[k])
             Is(after) == after = [k \in 0..L |-> IF k = 0 THEN base ELSE put(after[k - 1], k)]
             after == CHOOSE after : Is(after)
             h == [x \in (1..L) \X Wires |-> put(x[2], x[1])]
  <1>1. server' = after[L].server /\ inbuf' = after[L].inbuf
    BY DEF Deliver
  <1>2. L \in Nat /\ (\A k \in 1..L : cmds[k] \in Command) /\ base \in Wires
    BY DEF WireTypes, ServerTypes, Wires
  <1>3. \A k \in 1..L, s \in Wires : put(s, k) \in Wires
    BY <1>2, AnsweredTypes
  <1> HIDE DEF put, base
  <1>4. h \in [(1..L) \X Wires -> Wires]
    <2>1. \A x \in (1..L) \X Wires : x[1] \in 1..L /\ x[2] \in Wires
      OBVIOUS
    <2> QED
      BY <1>3, <2>1
  <1>5. PICK f \in [0..L -> Wires] : Iterates(f, L, base, h)
    <2> HIDE DEF h, L
    <2> QED
      BY <1>2, <1>4, Recursion
  <1>6. Is(f)
    <2>1. ASSUME NEW k \in 0..L, k # 0 PROVE f[k] = put(f[k - 1], k)
      <3>1. k \in 1..L /\ k - 1 \in 0..L
        BY <1>2, <2>1
      <3>2. f[k] = h[<<k, f[k - 1]>>] /\ f[k - 1] \in Wires
        BY <1>5, <3>1 DEF Iterates
      <3> QED
        BY <3>1, <3>2
    <2>2. f[0] = base /\ f = [k \in 0..L |-> f[k]]
      BY <1>5 DEF Iterates
    <2>3. [k \in 0..L |-> f[k]] = [k \in 0..L |-> IF k = 0 THEN base ELSE put(f[k - 1], k)]
      BY <2>1, <2>2
    <2> QED
      BY <2>2, <2>3, Zenon
  <1>7. Is(after)
    <2> HIDE DEF Is
    <2> QED
      BY <1>6, Zenon
  <1> HIDE DEF after
  <1>8. after[0] = base /\ \A k \in 1..L : after[k] = put(after[k - 1], k)
    <2>1. 0 \in 0..L /\ \A k \in 1..L : k \in 0..L /\ k # 0
      BY <1>2
    <2> QED
      BY <1>7, <2>1
  <1> DEFINE T == {k \in Nat : k <= L => after[k] \in Wires}
  <1>9. 0 \in T
    BY <1>2, <1>8
  <1>10. ASSUME NEW k \in T PROVE k + 1 \in T
    <2>1. SUFFICES ASSUME k + 1 <= L PROVE after[k + 1] \in Wires
      OBVIOUS
    <2>2. k + 1 \in 1..L /\ (k + 1) - 1 = k /\ after[k] \in Wires
      BY <1>2, <2>1
    <2> QED
      BY <1>3, <1>8, <2>2
  <1>11. T = Nat
    <2>1. T \subseteq Nat
      OBVIOUS
    <2> HIDE DEF T
    <2> QED
      BY <1>9, <1>10, <2>1, SetInduction
  <1>12. after \in [0..L -> Wires]
    <2>1. \A k \in 0..L : after[k] \in Wires
      <3>1. \A k \in 0..L : k \in T /\ k <= L
        BY <1>11
      <3> QED
        BY <3>1
    <2>2. after = [k \in 0..L |-> IF k = 0 THEN base ELSE put(after[k - 1], k)]
      BY <1>7, Zenon
    <2>3. DOMAIN after = 0..L /\ after = [k \in 0..L |-> after[k]]
      BY <2>2
    <2> QED
      BY <2>1, <2>3
  <1> QED
    BY <1>1, <1>8, <1>12 DEF base, put

(***************************************************************************)
(* Each step keeps the types.                                              *)
(***************************************************************************)
LEMMA CallbackTypes ==
    /\ NoCb \in Callback
    /\ \A c \in Subs : c.id \in 0..MaxCmds => c \in Callback
    /\ \A c \in Callback : c.id \in Nat /\ c.fn \in BOOLEAN
    /\ NULL.type = "null" /\ NULL.id = 0 /\ NULL \notin ReplyOf
  <1>1. NoCb \in Callback
    BY BoundsAssumption DEF NoCb, Callback
  <1>2. \A c \in Subs : c.id \in 0..MaxCmds => c \in Callback
    BY DEF Subs, Callback
  <1>3. \A c \in Callback : c.id \in Nat /\ c.fn \in BOOLEAN
    BY BoundsAssumption DEF Callback
  <1>4. NULL.type = "null" /\ NULL.id = 0
    BY DEF NULL
  <1>5. \A r \in ReplyOf : r.type # "null"
    BY DEF ReplyOf, ReplyTypes
  <1> QED
    BY <1>1, <1>2, <1>3, <1>4, <1>5

LEMMA SubscriptionCbsTypes ==
    ASSUME TableTypes
    PROVE  /\ Len(SubscriptionCbs) \in Nat /\ DOMAIN SubscriptionCbs = 1..Len(SubscriptionCbs)
           /\ \A i \in 1..Len(SubscriptionCbs) :
                 /\ SubscriptionCbs[i] \in Subs /\ SubscriptionCbs[i] \in Callback
                 /\ \E p \in BOOLEAN, n \in Key : last[p][n] # 0 /\ SubscriptionCbs[i].id = last[p][n]
  <1> DEFINE ec == Entries(channels)
             ep == Entries(patterns)
             L == Len(ec \o ep)
  <1>1. IsTable(channels, Subs) /\ IsTable(patterns, Subs) /\ Found(channels, FALSE) /\ Found(patterns, TRUE)
        /\ last \in [BOOLEAN -> [Key -> 0..MaxCmds]]
    BY DEF TableTypes
  <1>2. ec \in Seq(Entry(Subs)) /\ ep \in Seq(Entry(Subs))
    BY <1>1, TableEntries
  <1>3. ASSUME NEW p \in BOOLEAN, NEW ht, IsTable(ht, Subs), Found(ht, p), NEW j \in DOMAIN Entries(ht)
        PROVE  LET e == Entries(ht)[j]
               IN  last[p][e.key] # 0 /\ e.val.id = last[p][e.key] /\ e.key \in Key /\ e.val \in Subs
    <2> DEFINE e == Entries(ht)[j]
    <2>1. In(ht.table, e)
      BY <1>3, ListedEntry
    <2>2. Entries(ht) \in Seq(Entry(Subs))
      BY <1>3, TableEntries
    <2>3. e \in Entry(Subs)
      BY <2>2
    <2> HIDE DEF e
    <2>4. e.key \in Key /\ e.val \in Subs
      BY <2>3 DEF Entry
    <2>5. dictFind(ht, e.key) = e.val /\ dictFind(ht, e.key) # NoEntry
      BY <1>3, <2>1, SubsHasNoEntry, FindIn
    <2>6. dictFind(ht, e.key) = IF last[p][e.key] = 0 THEN NoEntry ELSE [id |-> last[p][e.key], fn |-> TRUE]
      BY <1>3, <2>4 DEF Found
    <2>7. last[p][e.key] # 0 /\ e.val = [id |-> last[p][e.key], fn |-> TRUE]
      BY <2>5, <2>6
    <2> QED
      BY <2>4, <2>7 DEF e
  <1>4. SubscriptionCbs = [i \in 1..L |-> (ec \o ep)[i].val]
    BY DEF SubscriptionCbs
  <1>5. ASSUME NEW i \in 1..L
        PROVE  \E p \in BOOLEAN, n \in Key : last[p][n] # 0 /\ (ec \o ep)[i].val.id = last[p][n] /\ (ec \o ep)[i].val \in Subs
    <2> HIDE DEF ec, ep
    <2>0. Len(ec) \in Nat /\ Len(ep) \in Nat /\ L = Len(ec) + Len(ep) /\ DOMAIN ec = 1..Len(ec) /\ DOMAIN ep = 1..Len(ep)
      BY <1>2
    <2>1. CASE i <= Len(ec)
      <3>1. i \in DOMAIN ec /\ (ec \o ep)[i] = ec[i]
        BY <1>2, <2>0, <2>1
      <3>2. last[FALSE][ec[i].key] # 0 /\ ec[i].val.id = last[FALSE][ec[i].key] /\ ec[i].key \in Key /\ ec[i].val \in Subs
        BY <1>1, <1>3, <3>1 DEF ec
      <3> QED
        BY <3>1, <3>2
    <2>2. CASE i > Len(ec)
      <3> DEFINE j == i - Len(ec)
      <3>1. j \in DOMAIN ep /\ (ec \o ep)[i] = ep[j]
        BY <1>2, <2>0, <2>2
      <3> HIDE DEF j
      <3>2. last[TRUE][ep[j].key] # 0 /\ ep[j].val.id = last[TRUE][ep[j].key] /\ ep[j].key \in Key /\ ep[j].val \in Subs
        BY <1>1, <1>3, <3>1 DEF ep
      <3> QED
        BY <3>1, <3>2
    <2> QED
      BY <2>0, <2>1, <2>2
  <1>6. L \in Nat
    BY <1>2
  <1> HIDE DEF ec, ep, L
  <1> DEFINE v(i) == (ec \o ep)[i].val
  <1> HIDE DEF v
  <1>7. DOMAIN SubscriptionCbs = 1..L /\ Len(SubscriptionCbs) = L /\ \A i \in 1..L : SubscriptionCbs[i] = v(i)
    <2>1. SubscriptionCbs = [i \in 1..L |-> v(i)]
      BY <1>4, Zenon DEF v
    <2>2. DOMAIN SubscriptionCbs = 1..L /\ \A i \in 1..L : SubscriptionCbs[i] = v(i)
      BY <2>1
    <2>3. Len([i \in 1..L |-> v(i)]) = L
      BY <1>6
    <2> QED
      BY <2>1, <2>2, <2>3, Zenon
  <1>8. ASSUME NEW i \in 1..L
        PROVE  /\ SubscriptionCbs[i] \in Subs /\ SubscriptionCbs[i] \in Callback
               /\ \E p \in BOOLEAN, n \in Key : last[p][n] # 0 /\ SubscriptionCbs[i].id = last[p][n]
    <2>1. PICK p \in BOOLEAN, n \in Key : last[p][n] # 0 /\ SubscriptionCbs[i].id = last[p][n] /\ SubscriptionCbs[i] \in Subs
      <3>1. PICK p \in BOOLEAN, n \in Key : last[p][n] # 0 /\ v(i).id = last[p][n] /\ v(i) \in Subs
        BY <1>5 DEF v
      <3>2. SubscriptionCbs[i] = v(i)
        BY <1>7
      <3> QED
        BY <3>1, <3>2
    <2>2. last[p][n] \in 0..MaxCmds
      BY <1>1
    <2> QED
      BY <2>1, <2>2, CallbackTypes
  <1> QED
    BY <1>6, <1>7, <1>8

LEMMA CbsLength == TableTypes => Len(SubscriptionCbs) \in Nat
  BY SubscriptionCbsTypes

\* What a callback is run with is noted for its command only.
LEMMA RunGot ==
    ASSUME WireTypes, NEW c \in Callback, NEW r \in ReplyOf \cup {NULL}, NEW fl, NEW state, NEW otherwise,
           Run(c, r, fl, state, otherwise)
    PROVE  /\ got' \in Seq(Seq(ReplyOf \cup {NULL})) /\ Len(got') = Len(got)
           /\ \A id \in DOMAIN got : got'[id] = IF c.fn /\ id = c.id THEN Append(got[id], r) ELSE got[id]
           /\ c.fn => flags' = fl \cup {"IN_CALLBACK"} /\ pc' = state
           /\ ~c.fn => flags' = fl /\ pc' = otherwise
  <1> DEFINE R == ReplyOf \cup {NULL}
  <1> HIDE DEF R
  <1>1. got \in Seq(Seq(R)) /\ r \in R
    BY DEF WireTypes, R
  <1>2. CASE c.fn
    <2>1. got' = [got EXCEPT ![c.id] = Append(got[c.id], r)] /\ flags' = fl \cup {"IN_CALLBACK"} /\ pc' = state
      BY <1>2 DEF Run
    <2>2. \A id \in DOMAIN got : got'[id] = IF id = c.id THEN Append(got[id], r) ELSE got[id]
      BY <2>1
    <2> DEFINE N == Len(got)
    <2>3. DOMAIN got' = 1..N /\ DOMAIN got = 1..N /\ N \in Nat /\ got' = [id \in 1..N |-> got'[id]]
      <3>1. DOMAIN got = 1..N /\ N \in Nat
        BY <1>1
      <3>2. DOMAIN got' = DOMAIN got /\ got' = [id \in DOMAIN got |-> got'[id]]
        BY <2>1
      <3> HIDE DEF N
      <3> QED
        BY <3>1, <3>2
    <2>4. \A id \in 1..N : got'[id] \in Seq(R)
      <3>1. ASSUME NEW id \in 1..N PROVE got'[id] \in Seq(R)
        <4>1. id \in DOMAIN got
          BY <2>3
        <4>2. got[id] \in Seq(R)
          BY <1>1, <4>1
        <4>3. Append(got[id], r) \in Seq(R)
          BY <1>1, <4>2
        <4> QED
          BY <2>2, <4>1, <4>2, <4>3
      <3> QED
        BY <3>1
    <2>5. [id \in 1..N |-> got'[id]] \in Seq(Seq(R))
      <3> HIDE DEF N
      <3> QED
        BY <2>3, <2>4
    <2>6. got' \in Seq(Seq(R))
      BY <2>3, <2>5, Zenon
    <2>7. Len(got') = Len(got)
      BY <2>3, <2>6, LenProperties
    <2> QED
      BY <1>2, <2>1, <2>2, <2>6, <2>7 DEF R
  <1>3. CASE ~c.fn
    BY <1>1, <1>3 DEF Run, R
  <1> QED
    BY <1>2, <1>3

\* The callback and the command that __redisAsyncCommand makes.
NewCb(fn) == [id |-> Len(issued) + 1, fn |-> fn]
NewCommand(op, p, names, fn) ==
    [op |-> op, p |-> p, names |-> names, id |-> Len(issued) + 1, fn |-> fn, subscribed |-> Subscribed]

\* The arguments with which redisAsyncCommand is called.
Legal(op, p, names, fn) ==
    /\ op \in Ops /\ p \in BOOLEAN /\ names \in Seq(Key) /\ fn \in BOOLEAN
    /\ op \in {"subscribe", "unsubscribe"} => names # <<>>
    /\ op \notin {"subscribe", "unsubscribe"} => names = <<>>
    /\ fn <=> op # "quit"

LEMMA CommandIssued ==
    ASSUME redisAsyncCommand
    PROVE  \E op, p, names, fn : Legal(op, p, names, fn) /\ __redisAsyncCommand(op, p, names, fn)
  <1>1. <<>> \in Seq(Key)
    OBVIOUS
  <1>2. ASSUME NEW op \in Ops \cap Other, __redisAsyncCommand(op, FALSE, <<>>, op # "quit")
        PROVE  Legal(op, FALSE, <<>>, op # "quit")
    BY <1>1, <1>2 DEF Legal, Other
  <1>3. ASSUME "monitor" \in Ops PROVE Legal("monitor", FALSE, <<>>, TRUE)
    BY <1>1, <1>3 DEF Legal
  <1>4. ASSUME NEW op \in Ops \cap {"subscribe", "unsubscribe"}, NEW a \in Arguments
        PROVE  Legal(op, a[1], a[2], TRUE)
    BY ArgumentsAssumption DEF Legal
  <1>5. CASE \E op \in Ops \cap Other : __redisAsyncCommand(op, FALSE, <<>>, op # "quit")
    BY <1>2, <1>5
  <1>6. CASE "monitor" \in Ops /\ __redisAsyncCommand("monitor", FALSE, <<>>, TRUE)
    BY <1>3, <1>6
  <1>7. CASE \E op \in Ops \cap {"subscribe", "unsubscribe"}, a \in Arguments : __redisAsyncCommand(op, a[1], a[2], TRUE)
    BY <1>4, <1>7
  <1> QED
    BY <1>5, <1>6, <1>7 DEF redisAsyncCommand

\* What __redisAsyncCommand changes.
LEMMA CommandEffect ==
    ASSUME Types, NEW op, NEW p, NEW names, NEW fn, Legal(op, p, names, fn), __redisAsyncCommand(op, p, names, fn)
    PROVE  /\ Len(issued) + 1 \in 1..MaxCmds /\ NewCb(fn) \in Callback
           /\ NewCommand(op, p, names, fn) \in Command
           /\ pc \in {"loop", "reply_cb", "connect_cb"} /\ flags \cap {"DISCONNECTING", "FREEING"} = {} /\ walk = 0
           /\ op = "unsubscribe" => Subscribed
           /\ Careful => CarefulCommand(op, p, names)
           /\ flags' = flags \cup (IF op = "subscribe" THEN {"SUBSCRIBED"} ELSE {})
                             \cup (IF op = "monitor" THEN {"MONITORING"} ELSE {})
           /\ channels' = IF op = "subscribe" /\ ~p THEN Register(channels, names, NewCb(fn)) ELSE channels
           /\ patterns' = IF op = "subscribe" /\ p THEN Register(patterns, names, NewCb(fn)) ELSE patterns
           /\ replies' = IF op = "monitor" \/ (op \in Other /\ ~Subscribed) THEN Append(replies, NewCb(fn)) ELSE replies
           /\ invalid' = IF op \in Other /\ Subscribed THEN Append(invalid, NewCb(fn)) ELSE invalid
           /\ obuf' = Append(obuf, NewCommand(op, p, names, fn))
           /\ issued' = Append(issued, NewCommand(op, p, names, fn))
           /\ got' = Append(got, <<>>)
           /\ last' \in [BOOLEAN -> [Key -> 0..MaxCmds]]
           /\ \A v \in BOOLEAN, n \in Key :
                 last'[v][n] = IF op = "subscribe" /\ v = p /\ n \in ToSet(names) THEN Len(issued) + 1 ELSE last[v][n]
           /\ UNCHANGED <<err, reader, half, pc, cb, walk, left, peer>>
  <1> DEFINE id == Len(issued) + 1
  <1>1. UserRuns /\ Len(issued) < MaxCmds /\ ~Refuses(op) /\ (Careful => CarefulCommand(op, p, names))
    BY DEF __redisAsyncCommand
  <1>2. id \in 1..MaxCmds /\ id \in Nat
    <2>1. Len(issued) \in Nat
      BY DEF Types, WireTypes
    <2> QED
      BY <1>1, <2>1, BoundsAssumption
  <1>3. op \in Ops /\ p \in BOOLEAN /\ names \in Seq(Key) /\ fn \in BOOLEAN
    BY DEF Legal
  <1>4. NewCb(fn) \in Callback
    BY <1>2, <1>3 DEF NewCb, Callback
  <1>5. NewCommand(op, p, names, fn) \in Command
    BY <1>2, <1>3 DEF NewCommand, Command, Subscribed
  <1>6. flags \cap {"DISCONNECTING", "FREEING"} = {} /\ (op = "unsubscribe" => Subscribed)
    BY <1>1 DEF Refuses
  <1>7. pc \in {"loop", "reply_cb", "connect_cb"}
    BY <1>1, <1>6 DEF UserRuns, Types, FreeTypes
  <1>8. walk = 0
    <2>1. Len(SubscriptionCbs) \in Nat
      BY SubscriptionCbsTypes DEF Types
    <2> QED
      BY <1>7, <2>1 DEF Types, FreeTypes
  <1>9. /\ flags' = flags \cup (IF op = "subscribe" THEN {"SUBSCRIBED"} ELSE {})
                          \cup (IF op = "monitor" THEN {"MONITORING"} ELSE {})
        /\ channels' = IF op = "subscribe" /\ ~p THEN Register(channels, names, NewCb(fn)) ELSE channels
        /\ patterns' = IF op = "subscribe" /\ p THEN Register(patterns, names, NewCb(fn)) ELSE patterns
        /\ obuf' = Append(obuf, NewCommand(op, p, names, fn))
        /\ issued' = Append(issued, NewCommand(op, p, names, fn))
        /\ got' = Append(got, <<>>)
        /\ UNCHANGED <<err, reader, half, pc, cb, walk, left, peer>>
    BY DEF __redisAsyncCommand, NewCb, NewCommand
  <1>10. /\ replies' = IF op = "monitor" \/ (op \in Other /\ ~Subscribed) THEN Append(replies, NewCb(fn)) ELSE replies
         /\ invalid' = IF op \in Other /\ Subscribed THEN Append(invalid, NewCb(fn)) ELSE invalid
    BY DEF __redisAsyncCommand, PushCallback, NewCb
  <1>11. last' = IF op = "subscribe"
                 THEN [last EXCEPT ![p] = [n \in Key |-> IF n \in ToSet(names) THEN id ELSE last[p][n]]]
                 ELSE last
    BY DEF __redisAsyncCommand
  <1>12. last \in [BOOLEAN -> [Key -> 0..MaxCmds]]
    BY DEF Types, TableTypes
  <1>13. /\ last' \in [BOOLEAN -> [Key -> 0..MaxCmds]]
         /\ \A v \in BOOLEAN, n \in Key :
                 last'[v][n] = IF op = "subscribe" /\ v = p /\ n \in ToSet(names) THEN Len(issued) + 1 ELSE last[v][n]
    <2>1. CASE op # "subscribe"
      BY <1>11, <1>12, <2>1
    <2>2. CASE op = "subscribe"
      <3> DEFINE g == [n \in Key |-> IF n \in ToSet(names) THEN id ELSE last[p][n]]
      <3>0. last[p] \in [Key -> 0..MaxCmds] /\ id \in 0..MaxCmds
        BY <1>2, <1>3, <1>12
      <3>1. g \in [Key -> 0..MaxCmds] /\ \A n \in Key : g[n] = IF n \in ToSet(names) THEN id ELSE last[p][n]
        BY <3>0
      <3>2. last' = [last EXCEPT ![p] = g]
        BY <1>11, <2>2
      <3> HIDE DEF g, id
      <3>3. last' \in [BOOLEAN -> [Key -> 0..MaxCmds]] /\ \A v \in BOOLEAN : last'[v] = IF v = p THEN g ELSE last[v]
        BY <1>3, <1>12, <3>1, <3>2
      <3> QED
        BY <2>2, <3>1, <3>3 DEF id
    <2> QED
      BY <2>1, <2>2
  <1> QED
    BY <1>1, <1>2, <1>4, <1>5, <1>6, <1>7, <1>8, <1>9, <1>10, <1>13

LEMMA CommandKeepsTypes ==
    ASSUME Types, redisAsyncCommand
    PROVE  Types'
  <1>1. PICK op, p, names, fn : Legal(op, p, names, fn) /\ __redisAsyncCommand(op, p, names, fn)
    BY CommandIssued
  <1> DEFINE id == Len(issued) + 1
             c == NewCb(fn)
             cmd == NewCommand(op, p, names, fn)
  <1>2. /\ id \in 1..MaxCmds /\ c \in Callback /\ cmd \in Command
        /\ pc \in {"loop", "reply_cb", "connect_cb"} /\ flags \cap {"DISCONNECTING", "FREEING"} = {} /\ walk = 0
        /\ flags' = flags \cup (IF op = "subscribe" THEN {"SUBSCRIBED"} ELSE {})
                          \cup (IF op = "monitor" THEN {"MONITORING"} ELSE {})
        /\ replies' = IF op = "monitor" \/ (op \in Other /\ ~Subscribed) THEN Append(replies, c) ELSE replies
        /\ invalid' = IF op \in Other /\ Subscribed THEN Append(invalid, c) ELSE invalid
        /\ obuf' = Append(obuf, cmd) /\ issued' = Append(issued, cmd) /\ got' = Append(got, <<>>)
        /\ UNCHANGED <<err, reader, half, pc, cb, walk, left, inbuf, server, lines>>
    BY <1>1, CommandEffect DEF peer
  <1>3. /\ channels' = IF op = "subscribe" /\ ~p THEN Register(channels, names, c) ELSE channels
        /\ patterns' = IF op = "subscribe" /\ p THEN Register(patterns, names, c) ELSE patterns
        /\ last' \in [BOOLEAN -> [Key -> 0..MaxCmds]]
        /\ \A v \in BOOLEAN, n \in Key :
                 last'[v][n] = IF op = "subscribe" /\ v = p /\ n \in ToSet(names) THEN id ELSE last[v][n]
    BY <1>1, CommandEffect
  <1> HIDE DEF c, cmd
  <1>4. LocalTypes'
    <2>0. LocalTypes
      BY DEF Types
    <2>1. replies' \in Seq(Callback) /\ invalid' \in Seq(Callback)
      BY <1>2, <2>0 DEF LocalTypes
    <2>2. /\ flags' \subseteq {"CONNECTED", "DISCONNECTING", "FREEING", "IN_CALLBACK", "SUBSCRIBED", "MONITORING"}
          /\ "IN_CALLBACK" \in flags' <=> pc' \in {"reply_cb", "free_cb"}
      BY <1>2, <2>0 DEF LocalTypes
    <2> QED
      BY <1>2, <2>0, <2>1, <2>2 DEF LocalTypes
  <1>5. WireTypes'
    <2>0. WireTypes
      BY DEF Types
    <2> DEFINE R == Seq(ReplyOf \cup {NULL})
    <2> HIDE DEF R
    <2>1. got \in Seq(R) /\ <<>> \in R /\ Len(got) = Len(issued) /\ issued \in Seq(Command) /\ obuf \in Seq(Command)
      BY <2>0 DEF WireTypes, R
    <2>2. obuf' \in Seq(Command) /\ issued' \in Seq(Command) /\ Len(issued') = id /\ got' \in Seq(R) /\ Len(got') = id
      BY <1>2, <2>1
    <2>3. Len(issued') <= MaxCmds
      BY <1>2, <2>2, BoundsAssumption
    <2> QED
      BY <1>2, <2>0, <2>2, <2>3 DEF WireTypes, R
  <1>6. TableTypes'
    <2>0. IsTable(channels, Subs) /\ Found(channels, FALSE) /\ IsTable(patterns, Subs) /\ Found(patterns, TRUE)
      BY DEF Types, TableTypes
    <2>1. ASSUME NEW v \in BOOLEAN, NEW ht, IsTable(ht, Subs), Found(ht, v), NEW new,
                 new = IF op = "subscribe" /\ v = p THEN Register(ht, names, c) ELSE ht
          PROVE  /\ IsTable(new, Subs)
                 /\ \A n \in Key : dictFind(new, n) = IF last'[v][n] = 0 THEN NoEntry ELSE [id |-> last'[v][n], fn |-> TRUE]
      <3>1. CASE op = "subscribe" /\ v = p
        <4>1. names \in Seq(Key) /\ fn = TRUE
          BY <1>1, <3>1 DEF Legal
        <4>2. c \in Subs /\ c = [id |-> id, fn |-> TRUE]
          BY <1>2, <4>1 DEF Subs, NewCb, c
        <4>3. /\ IsTable(Register(ht, names, c), Subs)
              /\ \A n \in Key : dictFind(Register(ht, names, c), n) = IF n \in ToSet(names) THEN c ELSE dictFind(ht, n)
          BY <2>1, <4>1, <4>2, Registers
        <4>4. new = Register(ht, names, c)
          BY <2>1, <3>1
        <4>5. ASSUME NEW n \in Key
              PROVE  dictFind(new, n) = IF last'[v][n] = 0 THEN NoEntry ELSE [id |-> last'[v][n], fn |-> TRUE]
          <5>1. last'[v][n] = IF n \in ToSet(names) THEN id ELSE last[v][n]
            BY <1>3, <3>1
          <5>2. dictFind(ht, n) = IF last[v][n] = 0 THEN NoEntry ELSE [id |-> last[v][n], fn |-> TRUE]
            BY <2>1 DEF Found
          <5>3. dictFind(new, n) = IF n \in ToSet(names) THEN c ELSE dictFind(ht, n)
            BY <4>3, <4>4
          <5>4. id # 0
            BY <1>2
          <5> QED
            BY <4>2, <5>1, <5>2, <5>3, <5>4
        <4> QED
          BY <4>3, <4>4, <4>5
      <3>2. CASE ~(op = "subscribe" /\ v = p)
        <4>1. new = ht
          BY <2>1, <3>2
        <4>2. \A n \in Key : last'[v][n] = last[v][n]
          BY <1>3, <3>2
        <4> QED
          BY <2>1, <4>1, <4>2 DEF Found
      <3> QED
        BY <3>1, <3>2
    <2>2. p \in BOOLEAN
      BY <1>1 DEF Legal
    <2>3. /\ channels' = IF op = "subscribe" /\ FALSE = p THEN Register(channels, names, c) ELSE channels
          /\ patterns' = IF op = "subscribe" /\ TRUE = p THEN Register(patterns, names, c) ELSE patterns
      BY <1>3, <2>2
    <2>4. /\ IsTable(channels', Subs)
          /\ \A n \in Key : dictFind(channels', n) = IF last'[FALSE][n] = 0 THEN NoEntry ELSE [id |-> last'[FALSE][n], fn |-> TRUE]
      BY <2>0, <2>1, <2>3
    <2>5. /\ IsTable(patterns', Subs)
          /\ \A n \in Key : dictFind(patterns', n) = IF last'[TRUE][n] = 0 THEN NoEntry ELSE [id |-> last'[TRUE][n], fn |-> TRUE]
      BY <2>0, <2>1, <2>3
    <2> QED
      BY <1>3, <2>4, <2>5 DEF TableTypes, Found
  <1>7. FreeTypes'
    <2>1. (TableTypes => Len(SubscriptionCbs) \in Nat)'
      BY CbsLength, PTL
    <2>2. 0 \in 0..Len(SubscriptionCbs')
      BY <1>6, <2>1
    <2> QED
      BY <1>2, <2>2 DEF FreeTypes
  <1> QED
    BY <1>4, <1>5, <1>6, <1>7 DEF Types

LEMMA TablesKept ==
    ASSUME Types, UNCHANGED <<channels, patterns, last>>
    PROVE  TableTypes' /\ SubscriptionCbs' = SubscriptionCbs /\ Len(SubscriptionCbs) \in Nat
  <1>1. TableTypes
    BY DEF Types
  <1>2. TableTypes'
    BY <1>1 DEF TableTypes, Found
  <1>3. SubscriptionCbs' = SubscriptionCbs
    BY DEF SubscriptionCbs
  <1> QED
    BY <1>1, <1>2, <1>3, SubscriptionCbsTypes

LEMMA UserKeepsTypes ==
    ASSUME Types, redisAsyncDisconnect \/ redisAsyncFree
    PROVE  Types'
  <1>0. LocalTypes /\ WireTypes /\ FreeTypes
    BY DEF Types
  <1>1. /\ pc \in {"loop", "reply_cb", "free_cb"} /\ UNCHANGED <<err, replies, invalid, channels, patterns, half, cb, walk, left, last>>
        /\ UNCHANGED <<reader, inbuf, server, obuf, issued, got>>
        /\ \E f \in {"DISCONNECTING", "FREEING"} : flags' = flags \cup {f}
        /\ pc' = pc \/ ("IN_CALLBACK" \notin flags /\ pc' = "free")
    BY DEF redisAsyncDisconnect, redisAsyncFree, UserRuns, peer, told
  <1>2. LocalTypes'
    BY <1>0, <1>1 DEF LocalTypes
  <1>3. WireTypes'
    BY <1>0, <1>1 DEF WireTypes, ServerTypes, Named
  <1>4. TableTypes' /\ SubscriptionCbs' = SubscriptionCbs
    BY <1>1, TablesKept
  <1>5. FreeTypes'
    BY <1>0, <1>1, <1>4 DEF FreeTypes, LocalTypes
  <1> QED
    BY <1>2, <1>3, <1>4, <1>5 DEF Types

LEMMA ConnectKeepsTypes ==
    ASSUME Types, __redisAsyncHandleConnect
    PROVE  Types'
  <1>0. LocalTypes /\ WireTypes /\ FreeTypes
    BY DEF Types
  <1>1. /\ pc = "loop" /\ UNCHANGED <<replies, invalid, channels, patterns, half, cb, walk, left, last>>
        /\ UNCHANGED <<reader, obuf, issued, got>>
        /\ \/ /\ flags' = flags \cup {"CONNECTED"} /\ pc' = "connect_cb" /\ err' = err
              /\ \/ UNCHANGED <<server, inbuf>>
                 \/ server' = [server EXCEPT !.open = FALSE] /\ inbuf' = <<Plain("error", 0)>>
           \/ flags' = flags \cup {"DISCONNECTING"} /\ pc' = "free" /\ err' = TRUE /\ UNCHANGED <<server, inbuf>>
    BY DEF __redisAsyncHandleConnect, Disconnect, told
  <1>2. LocalTypes'
    BY <1>0, <1>1 DEF LocalTypes
  <1>3. WireTypes'
    <2>1. Plain("error", 0) \in ReplyOf /\ <<Plain("error", 0)>> \in Seq(ReplyOf) /\ Named(<<Plain("error", 0)>>)
      BY PlainReply
    <2>2. ServerTypes([server EXCEPT !.open = FALSE])
      BY <1>0 DEF WireTypes, ServerTypes
    <2>3. inbuf' \in Seq(ReplyOf) /\ Named(inbuf)'
      BY <1>0, <1>1, <2>1 DEF WireTypes, Named
    <2>4. ServerTypes(server)'
      <3>1. ServerTypes(server) /\ (server' = server \/ server' = [server EXCEPT !.open = FALSE])
        BY <1>0, <1>1 DEF WireTypes
      <3> QED
        BY <2>2, <3>1 DEF ServerTypes
    <2>5. Named(reader)'
      BY <1>0, <1>1 DEF WireTypes, Named
    <2> QED
      BY <1>0, <1>1, <2>3, <2>4, <2>5 DEF WireTypes
  <1>4. TableTypes' /\ SubscriptionCbs' = SubscriptionCbs
    BY <1>1, TablesKept
  <1>5. FreeTypes'
    BY <1>0, <1>1, <1>4 DEF FreeTypes
  <1> QED
    BY <1>2, <1>3, <1>4, <1>5 DEF Types

LEMMA WriteKeepsTypes ==
    ASSUME Types, redisAsyncHandleWrite
    PROVE  Types'
  <1>0. LocalTypes /\ WireTypes /\ FreeTypes
    BY DEF Types
  <1>1. /\ pc \in {"loop", "connect_cb"} /\ UNCHANGED <<replies, invalid, channels, patterns, half, cb, walk, left, last>>
        /\ UNCHANGED <<reader, issued, got>>
        /\ \/ /\ pc' = "loop" /\ UNCHANGED <<flags, err>>
              /\ \E n \in 0..Len(obuf) : obuf' = SubSeq(obuf, n + 1, Len(obuf)) /\ Deliver(SubSeq(obuf, 1, n))
           \/ flags' = flags \cup {"DISCONNECTING"} /\ pc' = "free" /\ err' = TRUE /\ UNCHANGED <<obuf, server, inbuf>>
    BY DEF redisAsyncHandleWrite, Disconnect, told
  <1>2. LocalTypes'
    BY <1>0, <1>1 DEF LocalTypes
  <1>3. WireTypes'
    <2>1. CASE UNCHANGED <<obuf, server, inbuf>>
      BY <1>0, <1>1, <2>1 DEF WireTypes, ServerTypes, Named
    <2>2. CASE \E n \in 0..Len(obuf) : obuf' = SubSeq(obuf, n + 1, Len(obuf)) /\ Deliver(SubSeq(obuf, 1, n))
      <3>1. PICK n \in 0..Len(obuf) : obuf' = SubSeq(obuf, n + 1, Len(obuf)) /\ Deliver(SubSeq(obuf, 1, n))
        BY <2>2
      <3>2. obuf \in Seq(Command) /\ Len(obuf) \in Nat
        BY <1>0 DEF WireTypes
      <3>3. SubSeq(obuf, 1, n) \in Seq(Command) /\ Len(SubSeq(obuf, 1, n)) \in Nat
        BY <3>2
      <3>4. PICK after \in [0..Len(SubSeq(obuf, 1, n)) -> Wires] :
               server' = after[Len(SubSeq(obuf, 1, n))].server /\ inbuf' = after[Len(SubSeq(obuf, 1, n))].inbuf
        BY <1>0, <3>1, <3>3, Delivers
      <3>5. after[Len(SubSeq(obuf, 1, n))] \in Wires
        BY <3>3, <3>4
      <3>6. ServerTypes(server)' /\ inbuf' \in Seq(ReplyOf) /\ Named(inbuf)'
        BY <3>4, <3>5 DEF Wires, ServerTypes, Named
      <3>7. obuf' \in Seq(Command)
        BY <3>1, <3>2, SubSeqProperties
      <3>8. reader' \in Seq(ReplyOf) /\ Named(reader)'
        BY <1>0, <1>1 DEF WireTypes, Named
      <3> QED
        BY <1>0, <1>1, <3>6, <3>7, <3>8 DEF WireTypes
    <2> QED
      BY <1>1, <2>1, <2>2
  <1>4. TableTypes' /\ SubscriptionCbs' = SubscriptionCbs
    BY <1>1, TablesKept
  <1>5. FreeTypes'
    BY <1>0, <1>1, <1>4 DEF FreeTypes
  <1> QED
    BY <1>2, <1>3, <1>4, <1>5 DEF Types

LEMMA ReadKeepsTypes ==
    ASSUME Types, redisAsyncHandleRead
    PROVE  Types'
  <1>0. LocalTypes /\ WireTypes /\ FreeTypes
    BY DEF Types
  <1>1. /\ pc = "loop" /\ UNCHANGED <<replies, invalid, channels, patterns, walk, left, last>>
        /\ UNCHANGED <<obuf, issued, got, server>>
        /\ \/ /\ pc' = "process" /\ UNCHANGED <<flags, err>> /\ half' \in BOOLEAN /\ cb' = NoCb
              /\ \E n \in 0..Len(inbuf) : reader' = reader \o SubSeq(inbuf, 1, n) /\ inbuf' = SubSeq(inbuf, n + 1, Len(inbuf))
           \/ flags' = flags \cup {"DISCONNECTING"} /\ pc' = "free" /\ err' = TRUE /\ UNCHANGED <<reader, inbuf, half, cb>>
    BY DEF redisAsyncHandleRead, Disconnect, told
  <1>2. LocalTypes'
    <2>1. NoCb \in Callback
      BY CallbackTypes
    <2> QED
      BY <1>0, <1>1, <2>1 DEF LocalTypes
  <1>3. WireTypes'
    <2>1. CASE UNCHANGED <<reader, inbuf>>
      BY <1>0, <1>1, <2>1 DEF WireTypes, ServerTypes, Named
    <2>2. CASE \E n \in 0..Len(inbuf) : reader' = reader \o SubSeq(inbuf, 1, n) /\ inbuf' = SubSeq(inbuf, n + 1, Len(inbuf))
      <3>1. PICK n \in 0..Len(inbuf) : reader' = reader \o SubSeq(inbuf, 1, n) /\ inbuf' = SubSeq(inbuf, n + 1, Len(inbuf))
        BY <2>2
      <3>2. inbuf \in Seq(ReplyOf) /\ Named(inbuf) /\ reader \in Seq(ReplyOf) /\ Named(reader) /\ Len(inbuf) \in Nat
        BY <1>0 DEF WireTypes
      <3>3. SubSeq(inbuf, n + 1, Len(inbuf)) \in Seq(ReplyOf) /\ Named(SubSeq(inbuf, n + 1, Len(inbuf)))
        <4>1. n \in Nat /\ Len(inbuf) <= Len(inbuf)
          BY <3>2
        <4> QED
          BY <3>2, <4>1, NamedParts
      <3>4. SubSeq(inbuf, 1, n) \in Seq(ReplyOf) /\ Named(SubSeq(inbuf, 1, n))
        <4>1. n \in Nat /\ n <= Len(inbuf) /\ 0 \in Nat
          BY <3>2
        <4>2. SubSeq(inbuf, 0 + 1, n) \in Seq(ReplyOf) /\ Named(SubSeq(inbuf, 0 + 1, n))
          BY <3>2, <4>1, NamedParts
        <4>3. 0 + 1 = 1
          OBVIOUS
        <4> QED
          BY <4>2, <4>3
      <3>5. reader \o SubSeq(inbuf, 1, n) \in Seq(ReplyOf) /\ Named(reader \o SubSeq(inbuf, 1, n))
        <4>1. 0 \in Nat /\ 0 <= Len(reader)
          BY <3>2
        <4> QED
          BY <3>2, <3>4, <4>1, NamedParts
      <3>6. Named(reader)' /\ Named(inbuf)'
        BY <3>1, <3>3, <3>5 DEF Named
      <3>7. ServerTypes(server)'
        BY <1>0, <1>1 DEF WireTypes, ServerTypes
      <3> QED
        BY <1>0, <1>1, <3>1, <3>3, <3>5, <3>6, <3>7 DEF WireTypes
    <2> QED
      BY <1>1, <2>1, <2>2
  <1>4. TableTypes' /\ SubscriptionCbs' = SubscriptionCbs
    BY <1>1, TablesKept
  <1>5. FreeTypes'
    BY <1>0, <1>1, <1>4 DEF FreeTypes
  <1> QED
    BY <1>2, <1>3, <1>4, <1>5 DEF Types

LEMMA HeadTypes ==
    ASSUME WireTypes, reader # <<>>
    PROVE  /\ Head(reader) \in ReplyOf /\ (IsArray(Head(reader)) => Head(reader).name \in Key)
           /\ Tail(reader) \in Seq(ReplyOf) /\ Named(Tail(reader))
  <1>1. reader \in Seq(ReplyOf) /\ Named(reader)
    BY DEF WireTypes
  <1>2. Head(reader) = reader[1] /\ 1 \in DOMAIN reader /\ Head(reader) \in ReplyOf /\ Tail(reader) \in Seq(ReplyOf)
    BY <1>1
  <1>3. \A i \in DOMAIN Tail(reader) : Tail(reader)[i] = reader[i + 1] /\ i + 1 \in DOMAIN reader
    BY <1>1
  <1> QED
    BY <1>1, <1>2, <1>3 DEF Named

LEMMA QueueTypes ==
    ASSUME NEW q \in Seq(Callback), q # <<>>
    PROVE  Head(q) \in Callback /\ Tail(q) \in Seq(Callback)
  OBVIOUS

\* A callback is run from redisProcessCallbacks.
LEMMA ReplyRun ==
    ASSUME Types, NEW c \in Callback, NEW r \in ReplyOf, NEW fl, fl \subseteq flags, pc = "process",
           Run(c, r, fl, "reply_cb", "process")
    PROVE  /\ flags' \subseteq {"CONNECTED", "DISCONNECTING", "FREEING", "IN_CALLBACK", "SUBSCRIBED", "MONITORING"}
           /\ "IN_CALLBACK" \in flags' <=> pc' \in {"reply_cb", "free_cb"}
           /\ pc' = (IF c.fn THEN "reply_cb" ELSE "process") /\ flags' \ {"IN_CALLBACK"} = fl
           /\ got' \in Seq(Seq(ReplyOf \cup {NULL})) /\ Len(got') = Len(got)
  <1>1. LocalTypes /\ WireTypes
    BY DEF Types
  <1>2. r \in ReplyOf \cup {NULL}
    OBVIOUS
  <1>3. /\ got' \in Seq(Seq(ReplyOf \cup {NULL})) /\ Len(got') = Len(got)
        /\ c.fn => flags' = fl \cup {"IN_CALLBACK"} /\ pc' = "reply_cb"
        /\ ~c.fn => flags' = fl /\ pc' = "process"
    BY <1>1, <1>2, RunGot
  <1>4. "IN_CALLBACK" \notin flags /\ flags \subseteq {"CONNECTED", "DISCONNECTING", "FREEING", "IN_CALLBACK", "SUBSCRIBED", "MONITORING"}
    BY <1>1 DEF LocalTypes
  <1>5. c.fn \in BOOLEAN
    BY CallbackTypes
  <1>6. CASE c.fn
    BY <1>3, <1>4, <1>6
  <1>7. CASE ~c.fn
    BY <1>3, <1>4, <1>7
  <1> QED
    BY <1>5, <1>6, <1>7

LEMMA ReplyKeepsTypes ==
    ASSUME Types, ShiftedReply \/ InvalidReply \/ OtherReply
    PROVE  Types'
  <1>0. LocalTypes /\ WireTypes /\ FreeTypes
    BY DEF Types
  <1>1. /\ pc = "process" /\ reader # <<>>
        /\ UNCHANGED <<err, half, left, channels, patterns, obuf, walk, inbuf, server, issued, last>>
    BY DEF ShiftedReply, InvalidReply, OtherReply, Unexpected, peer
  <1>2. Head(reader) \in ReplyOf /\ Tail(reader) \in Seq(ReplyOf) /\ Named(Tail(reader))
    BY <1>0, <1>1, HeadTypes
  <1>3. replies \in Seq(Callback) /\ invalid \in Seq(Callback) /\ cb \in Callback
    BY <1>0 DEF LocalTypes
  <1>4. \/ /\ reader' = Tail(reader) /\ cb' \in Callback /\ replies' \in Seq(Callback) /\ invalid' \in Seq(Callback)
           /\ Run(cb', Head(reader), flags, "reply_cb", "process")
        \/ pc' = "aborted" /\ UNCHANGED <<flags, reader, got, replies, invalid, cb>>
    <2>1. CASE ShiftedReply
      <3>1. Head(replies) \in Callback /\ Tail(replies) \in Seq(Callback)
        BY <1>3, <2>1, QueueTypes DEF ShiftedReply
      <3> QED
        BY <1>3, <2>1, <3>1 DEF ShiftedReply
    <2>2. CASE InvalidReply
      <3>1. invalid # <<>> => Head(invalid) \in Callback /\ Tail(invalid) \in Seq(Callback)
        BY <1>3, QueueTypes
      <3>2. cb' \in Callback /\ invalid' \in Seq(Callback)
        BY <1>3, <2>2, <3>1 DEF InvalidReply
      <3> QED
        BY <1>3, <2>2, <3>2 DEF InvalidReply
    <2>3. CASE OtherReply
      BY <1>3, <2>3 DEF OtherReply
    <2> QED
      BY <2>1, <2>2, <2>3
  <1>5. TableTypes' /\ SubscriptionCbs' = SubscriptionCbs /\ Len(SubscriptionCbs) \in Nat
    BY <1>1, TablesKept
  <1>6. walk = 0
    BY <1>0, <1>1, <1>5 DEF FreeTypes
  <1>7. CASE pc' = "aborted" /\ UNCHANGED <<flags, reader, got, replies, invalid, cb>>
    <2>1. LocalTypes'
      BY <1>0, <1>1, <1>7 DEF LocalTypes
    <2>2. WireTypes'
      BY <1>0, <1>1, <1>7 DEF WireTypes, ServerTypes, Named
    <2>3. FreeTypes'
      BY <1>0, <1>1, <1>5, <1>6, <1>7 DEF FreeTypes
    <2> QED
      BY <1>5, <2>1, <2>2, <2>3 DEF Types
  <1>8. CASE /\ reader' = Tail(reader) /\ cb' \in Callback /\ replies' \in Seq(Callback) /\ invalid' \in Seq(Callback)
             /\ Run(cb', Head(reader), flags, "reply_cb", "process")
    <2>1. /\ flags' \subseteq {"CONNECTED", "DISCONNECTING", "FREEING", "IN_CALLBACK", "SUBSCRIBED", "MONITORING"}
          /\ "IN_CALLBACK" \in flags' <=> pc' \in {"reply_cb", "free_cb"}
          /\ pc' = (IF cb'.fn THEN "reply_cb" ELSE "process")
          /\ got' \in Seq(Seq(ReplyOf \cup {NULL})) /\ Len(got') = Len(got)
      <3>1. flags \subseteq flags
        OBVIOUS
      <3> QED
        BY <1>1, <1>2, <1>8, <3>1, ReplyRun
    <2>2. LocalTypes'
      BY <1>0, <1>1, <1>8, <2>1 DEF LocalTypes
    <2>3. WireTypes'
      <3>1. Named(reader)' /\ reader' \in Seq(ReplyOf)
        BY <1>2, <1>8 DEF Named
      <3>2. Named(inbuf)' /\ ServerTypes(server)'
        BY <1>0, <1>1 DEF WireTypes, Named, ServerTypes
      <3> QED
        BY <1>0, <1>1, <2>1, <3>1, <3>2 DEF WireTypes
    <2>4. FreeTypes'
      BY <1>5, <1>6, <1>1, <2>1 DEF FreeTypes
    <2> QED
      BY <1>5, <2>2, <2>3, <2>4 DEF Types
  <1> QED
    BY <1>4, <1>7, <1>8

\* What PubSubReply finds and does.
LEMMA PubSubEffect ==
    ASSUME Types, PubSubReply
    PROVE  LET r == Head(reader)
               found == last[r.p][r.name] # 0
               gone == found /\ r.type = "unsubscribe"
           IN  /\ r \in ReplyOf /\ r.p \in BOOLEAN /\ r.name \in Key /\ pc = "process"
               /\ cb' \in Callback /\ cb' = IF found THEN [id |-> last[r.p][r.name], fn |-> TRUE] ELSE cb
               /\ channels' = IF gone /\ ~r.p THEN dictDelete(channels, r.name) ELSE channels
               /\ patterns' = IF gone /\ r.p THEN dictDelete(patterns, r.name) ELSE patterns
               /\ last' \in [BOOLEAN -> [Key -> 0..MaxCmds]]
               /\ \A v \in BOOLEAN, n \in Key : last'[v][n] = IF gone /\ v = r.p /\ n = r.name THEN 0 ELSE last[v][n]
               /\ Run(cb', r, IF gone THEN Unsubscribed(r) ELSE flags, "reply_cb", "process")
  <1> DEFINE r == Head(reader)
             found == dictFind(Dictionary(r.p), r.name)
             gone == found # NoEntry /\ r.type = "unsubscribe"
  <1>0. LocalTypes /\ WireTypes /\ TableTypes
    BY DEF Types
  <1>1. pc = "process" /\ reader # <<>> /\ IsArray(r)
    BY DEF PubSubReply, Unexpected
  <1>2. r \in ReplyOf /\ r.name \in Key
    BY <1>0, <1>1, HeadTypes
  <1>3. r.p \in BOOLEAN
    BY <1>2 DEF ReplyOf
  <1>4. last \in [BOOLEAN -> [Key -> 0..MaxCmds]] /\ Found(channels, FALSE) /\ Found(patterns, TRUE)
    BY <1>0 DEF TableTypes
  <1>5. /\ cb' = IF found # NoEntry THEN found ELSE cb
        /\ channels' = IF gone /\ ~r.p THEN dictDelete(channels, r.name) ELSE channels
        /\ patterns' = IF gone /\ r.p THEN dictDelete(patterns, r.name) ELSE patterns
        /\ last' = IF gone THEN [last EXCEPT ![r.p][r.name] = 0] ELSE last
        /\ Run(cb', r, IF gone THEN Unsubscribed(r) ELSE flags, "reply_cb", "process")
    BY DEF PubSubReply, IsVariant
  <1> HIDE DEF r
  <1>6. Found(Dictionary(r.p), r.p)
    <2>1. CASE r.p = TRUE
      BY <1>4, <2>1 DEF Dictionary
    <2>2. CASE r.p = FALSE
      BY <1>4, <2>2 DEF Dictionary
    <2> QED
      BY <1>3, <2>1, <2>2
  <1>7. found = IF last[r.p][r.name] = 0 THEN NoEntry ELSE [id |-> last[r.p][r.name], fn |-> TRUE]
    BY <1>2, <1>6 DEF Found
  <1>8. last[r.p][r.name] \in 0..MaxCmds
    BY <1>2, <1>3, <1>4
  <1> HIDE DEF found
  <1>9. last[r.p][r.name] # 0 => found # NoEntry /\ found = [id |-> last[r.p][r.name], fn |-> TRUE] /\ found \in Callback
    <2> SUFFICES ASSUME last[r.p][r.name] # 0 PROVE found # NoEntry /\ found = [id |-> last[r.p][r.name], fn |-> TRUE] /\ found \in Callback
      OBVIOUS
    <2>1. found = [id |-> last[r.p][r.name], fn |-> TRUE]
      BY <1>7
    <2>2. [id |-> last[r.p][r.name], fn |-> TRUE] \in Subs
      BY <1>8, BoundsAssumption DEF Subs
    <2>3. found \in Subs /\ found # NoEntry
      BY <2>1, <2>2, SubsHasNoEntry
    <2>4. found \in Callback
      BY <1>8, <2>1 DEF Callback
    <2> QED
      BY <2>1, <2>3, <2>4
  <1>10. last[r.p][r.name] # 0 <=> found # NoEntry
    BY <1>7, <1>9
  <1>11. cb' \in Callback /\ cb' = IF last[r.p][r.name] # 0 THEN [id |-> last[r.p][r.name], fn |-> TRUE] ELSE cb
    <2>1. cb \in Callback
      BY <1>0 DEF LocalTypes
    <2> QED
      BY <1>5, <1>9, <1>10, <2>1
  <1>12. gone <=> last[r.p][r.name] # 0 /\ r.type = "unsubscribe"
    BY <1>10
  <1> HIDE DEF gone
  <1>13. /\ last' \in [BOOLEAN -> [Key -> 0..MaxCmds]]
         /\ \A v \in BOOLEAN, n \in Key : last'[v][n] = IF gone /\ v = r.p /\ n = r.name THEN 0 ELSE last[v][n]
    <2>1. CASE ~gone
      BY <1>4, <1>5, <2>1
    <2>2. CASE gone
      <3> DEFINE g == [last[r.p] EXCEPT ![r.name] = 0]
      <3>1. last[r.p] \in [Key -> 0..MaxCmds] /\ 0 \in 0..MaxCmds
        BY <1>3, <1>4, BoundsAssumption
      <3>2. g \in [Key -> 0..MaxCmds] /\ \A n \in Key : g[n] = IF n = r.name THEN 0 ELSE last[r.p][n]
        BY <1>2, <3>1
      <3>3. last' = [last EXCEPT ![r.p] = g]
        BY <1>5, <2>2
      <3> HIDE DEF g
      <3>4. last' \in [BOOLEAN -> [Key -> 0..MaxCmds]] /\ \A v \in BOOLEAN : last'[v] = IF v = r.p THEN g ELSE last[v]
        BY <1>3, <1>4, <3>2, <3>3
      <3> QED
        BY <2>2, <3>2, <3>4
    <2> QED
      BY <2>1, <2>2
  <1> QED
    BY <1>1, <1>2, <1>3, <1>5, <1>11, <1>12, <1>13 DEF r

LEMMA PubSubKeepsTypes ==
    ASSUME Types, PubSubReply
    PROVE  Types'
  <1> DEFINE r == Head(reader)
             gone == last[r.p][r.name] # 0 /\ r.type = "unsubscribe"
             fl == IF gone THEN Unsubscribed(r) ELSE flags
  <1>0. LocalTypes /\ WireTypes /\ FreeTypes /\ TableTypes
    BY DEF Types
  <1>1. /\ r \in ReplyOf /\ r.p \in BOOLEAN /\ r.name \in Key /\ pc = "process"
        /\ cb' \in Callback
        /\ channels' = IF gone /\ ~r.p THEN dictDelete(channels, r.name) ELSE channels
        /\ patterns' = IF gone /\ r.p THEN dictDelete(patterns, r.name) ELSE patterns
        /\ last' \in [BOOLEAN -> [Key -> 0..MaxCmds]]
        /\ \A v \in BOOLEAN, n \in Key : last'[v][n] = IF gone /\ v = r.p /\ n = r.name THEN 0 ELSE last[v][n]
        /\ Run(cb', r, fl, "reply_cb", "process")
    BY PubSubEffect
  <1>2. /\ reader # <<>> /\ reader' = Tail(reader)
        /\ UNCHANGED <<err, replies, invalid, obuf, half, walk, left, inbuf, server, issued>>
    BY DEF PubSubReply, Unexpected, peer
  <1>3. Tail(reader) \in Seq(ReplyOf) /\ Named(Tail(reader))
    BY <1>0, <1>2, HeadTypes
  <1>4. fl \subseteq flags
    BY DEF Unsubscribed
  <1> HIDE DEF r, gone, fl
  <1>5. /\ flags' \subseteq {"CONNECTED", "DISCONNECTING", "FREEING", "IN_CALLBACK", "SUBSCRIBED", "MONITORING"}
        /\ "IN_CALLBACK" \in flags' <=> pc' \in {"reply_cb", "free_cb"}
        /\ pc' = (IF cb'.fn THEN "reply_cb" ELSE "process")
        /\ got' \in Seq(Seq(ReplyOf \cup {NULL})) /\ Len(got') = Len(got)
    BY <1>1, <1>4, ReplyRun
  <1>6. LocalTypes'
    BY <1>0, <1>1, <1>2, <1>5 DEF LocalTypes
  <1>7. WireTypes'
    <2>1. Named(reader)' /\ reader' \in Seq(ReplyOf)
      BY <1>2, <1>3 DEF Named
    <2>2. Named(inbuf)' /\ ServerTypes(server)'
      BY <1>0, <1>2 DEF WireTypes, Named, ServerTypes
    <2> QED
      BY <1>0, <1>2, <1>5, <2>1, <2>2 DEF WireTypes
  <1>8. TableTypes'
    <2>0. IsTable(channels, Subs) /\ Found(channels, FALSE) /\ IsTable(patterns, Subs) /\ Found(patterns, TRUE)
      BY <1>0 DEF TableTypes
    <2>1. ASSUME NEW v \in BOOLEAN, NEW ht, IsTable(ht, Subs), Found(ht, v), NEW new,
                 new = IF gone /\ v = r.p THEN dictDelete(ht, r.name) ELSE ht
          PROVE  /\ IsTable(new, Subs)
                 /\ \A n \in Key : dictFind(new, n) = IF last'[v][n] = 0 THEN NoEntry ELSE [id |-> last'[v][n], fn |-> TRUE]
      <3>1. CASE gone /\ v = r.p
        <4>1. /\ IsTable(dictDelete(ht, r.name), Subs) /\ dictFind(dictDelete(ht, r.name), r.name) = NoEntry
              /\ \A n \in Key : n # r.name => dictFind(dictDelete(ht, r.name), n) = dictFind(ht, n)
          BY <1>1, <2>1, SubsHasNoEntry, Deletes
        <4>2. new = dictDelete(ht, r.name)
          BY <2>1, <3>1
        <4>3. ASSUME NEW n \in Key
              PROVE  dictFind(new, n) = IF last'[v][n] = 0 THEN NoEntry ELSE [id |-> last'[v][n], fn |-> TRUE]
          <5>1. last'[v][n] = IF n = r.name THEN 0 ELSE last[v][n]
            BY <1>1, <3>1
          <5>2. dictFind(ht, n) = IF last[v][n] = 0 THEN NoEntry ELSE [id |-> last[v][n], fn |-> TRUE]
            BY <2>1 DEF Found
          <5> QED
            BY <4>1, <4>2, <5>1, <5>2
        <4> QED
          BY <4>1, <4>2, <4>3
      <3>2. CASE ~(gone /\ v = r.p)
        <4>1. new = ht
          BY <2>1, <3>2
        <4>2. \A n \in Key : last'[v][n] = last[v][n]
          BY <1>1, <3>2
        <4> QED
          BY <2>1, <4>1, <4>2 DEF Found
      <3> QED
        BY <3>1, <3>2
    <2>2. /\ channels' = IF gone /\ FALSE = r.p THEN dictDelete(channels, r.name) ELSE channels
          /\ patterns' = IF gone /\ TRUE = r.p THEN dictDelete(patterns, r.name) ELSE patterns
      BY <1>1
    <2>3. /\ IsTable(channels', Subs)
          /\ \A n \in Key : dictFind(channels', n) = IF last'[FALSE][n] = 0 THEN NoEntry ELSE [id |-> last'[FALSE][n], fn |-> TRUE]
      BY <2>0, <2>1, <2>2
    <2>4. /\ IsTable(patterns', Subs)
          /\ \A n \in Key : dictFind(patterns', n) = IF last'[TRUE][n] = 0 THEN NoEntry ELSE [id |-> last'[TRUE][n], fn |-> TRUE]
      BY <2>0, <2>1, <2>2
    <2> QED
      BY <1>1, <2>3, <2>4 DEF TableTypes, Found
  <1>9. FreeTypes'
    <2>1. (TableTypes => Len(SubscriptionCbs) \in Nat)'
      BY CbsLength, PTL
    <2>2. 0 \in 0..Len(SubscriptionCbs')
      BY <1>8, <2>1
    <2>3. Len(SubscriptionCbs) \in Nat
      BY <1>0, SubscriptionCbsTypes
    <2>4. walk = 0
      BY <1>0, <1>1, <2>3 DEF FreeTypes
    <2> QED
      BY <1>1, <1>2, <1>5, <2>2, <2>4 DEF FreeTypes
  <1> QED
    BY <1>6, <1>7, <1>8, <1>9 DEF Types

LEMMA ProcessKeepsTypes ==
    ASSUME Types, NoReply \/ SpontaneousError \/ ReplyCallbackReturns
    PROVE  Types'
  <1>0. LocalTypes /\ WireTypes /\ FreeTypes
    BY DEF Types
  <1>1. /\ pc \in {"process", "reply_cb"} /\ UNCHANGED <<half, left, channels, patterns, obuf, walk, inbuf, server, issued, last, invalid, cb, got>>
        /\ reader' = reader \/ (reader # <<>> /\ reader' = Tail(reader))
        /\ err' \in BOOLEAN
        /\ replies' = replies \/ replies' = Append(replies, cb)
        /\ \/ pc' = "free" /\ flags' = flags \cup {"DISCONNECTING"}
           \/ pc' = "aborted" /\ flags' = flags /\ pc = "process"
           \/ pc' = "free" /\ flags' = flags /\ "DISCONNECTING" \in flags /\ pc = "process"
           \/ pc' = "loop" /\ flags' = flags /\ pc = "process"
           \/ pc' = "free" /\ flags' = flags \ {"IN_CALLBACK"} /\ "FREEING" \in flags
           \/ pc' = "process" /\ flags' = flags \ {"IN_CALLBACK"}
        /\ flags' = flags \cup {"DISCONNECTING"} => pc = "process"
    <2>1. CASE NoReply
      BY <1>0, <2>1 DEF NoReply, Disconnect, peer, told, LocalTypes
    <2>2. CASE SpontaneousError
      BY <1>0, <2>2 DEF SpontaneousError, Disconnect, peer, told, LocalTypes
    <2>3. CASE ReplyCallbackReturns
      BY <1>0, <2>3 DEF ReplyCallbackReturns, peer, told, LocalTypes
    <2> QED
      BY <2>1, <2>2, <2>3
  <1>2. LocalTypes'
    <2>1. replies' \in Seq(Callback)
      BY <1>0, <1>1 DEF LocalTypes
    <2>2. /\ flags' \subseteq {"CONNECTED", "DISCONNECTING", "FREEING", "IN_CALLBACK", "SUBSCRIBED", "MONITORING"}
          /\ "IN_CALLBACK" \in flags' <=> pc' \in {"reply_cb", "free_cb"}
      BY <1>0, <1>1 DEF LocalTypes
    <2> QED
      BY <1>0, <1>1, <2>1, <2>2 DEF LocalTypes
  <1>3. WireTypes'
    <2>1. Named(reader)' /\ reader' \in Seq(ReplyOf)
      <3>1. CASE reader' = reader
        BY <1>0, <3>1 DEF WireTypes, Named
      <3>2. CASE reader # <<>> /\ reader' = Tail(reader)
        <4>1. Tail(reader) \in Seq(ReplyOf) /\ Named(Tail(reader))
          BY <1>0, <3>2, HeadTypes
        <4> QED
          BY <3>2, <4>1 DEF Named
      <3> QED
        BY <1>1, <3>1, <3>2
    <2>2. Named(inbuf)' /\ ServerTypes(server)'
      BY <1>0, <1>1 DEF WireTypes, Named, ServerTypes
    <2> QED
      BY <1>0, <1>1, <2>1, <2>2 DEF WireTypes
  <1>4. TableTypes' /\ SubscriptionCbs' = SubscriptionCbs /\ Len(SubscriptionCbs) \in Nat
    BY <1>1, TablesKept
  <1>5. FreeTypes'
    <2>1. walk = 0 /\ walk' = 0
      BY <1>0, <1>1, <1>4 DEF FreeTypes
    <2>2. pc' # "gone" /\ (pc' \in {"free", "free_cb"} => flags' \cap {"DISCONNECTING", "FREEING"} # {})
      BY <1>1
    <2> QED
      BY <1>4, <2>1, <2>2 DEF FreeTypes
  <1> QED
    BY <1>2, <1>3, <1>4, <1>5 DEF Types

LEMMA FreeKeepsTypes ==
    ASSUME Types, FreeShifts \/ FreeWalks
    PROVE  Types'
  <1>0. LocalTypes /\ WireTypes /\ FreeTypes /\ TableTypes
    BY DEF Types
  <1>1. /\ pc = "free" /\ UNCHANGED <<err, channels, patterns, obuf, reader, half, cb, left, inbuf, server, issued, last>>
    BY DEF FreeShifts, FreeWalks, peer
  <1>2. TableTypes' /\ SubscriptionCbs' = SubscriptionCbs /\ Len(SubscriptionCbs) \in Nat
    BY <1>1, TablesKept
  <1>3. \E c \in Callback :
           /\ Run(c, NULL, flags, "free_cb", "free")
           /\ replies' \in Seq(Callback) /\ invalid' \in Seq(Callback)
           /\ \/ walk' = walk /\ ~(replies = <<>> /\ invalid = <<>>)
              \/ walk' = walk + 1 /\ walk < Len(SubscriptionCbs) /\ replies = <<>> /\ invalid = <<>> /\ UNCHANGED <<replies, invalid>>
    <2>0. replies \in Seq(Callback) /\ invalid \in Seq(Callback)
      BY <1>0 DEF LocalTypes
    <2>1. CASE FreeShifts /\ replies # <<>>
      <3>1. Head(replies) \in Callback /\ Tail(replies) \in Seq(Callback)
        BY <2>0, <2>1, QueueTypes
      <3>2. Run(Head(replies), NULL, flags, "free_cb", "free") /\ replies' = Tail(replies) /\ UNCHANGED <<invalid, walk>>
        BY <2>1 DEF FreeShifts
      <3> QED
        BY <2>0, <2>1, <3>1, <3>2
    <2>2. CASE FreeShifts /\ replies = <<>>
      <3>0. invalid # <<>>
        BY <2>2 DEF FreeShifts
      <3>1. Head(invalid) \in Callback /\ Tail(invalid) \in Seq(Callback)
        BY <2>0, <3>0, QueueTypes
      <3>2. Run(Head(invalid), NULL, flags, "free_cb", "free") /\ invalid' = Tail(invalid) /\ UNCHANGED <<replies, walk>>
        BY <2>2 DEF FreeShifts
      <3> QED
        BY <2>0, <3>0, <3>1, <3>2
    <2>3. CASE FreeWalks
      <3>1. walk < Len(SubscriptionCbs) /\ walk' = walk + 1 /\ replies = <<>> /\ invalid = <<>> /\ UNCHANGED <<replies, invalid>>
            /\ Run(SubscriptionCbs[walk + 1], NULL, flags, "free_cb", "free")
        BY <2>3 DEF FreeWalks
      <3>2. walk + 1 \in 1..Len(SubscriptionCbs)
        BY <1>0, <1>2, <3>1 DEF FreeTypes
      <3>3. SubscriptionCbs[walk + 1] \in Callback
        BY <1>0, <3>2, SubscriptionCbsTypes
      <3> QED
        BY <2>0, <3>1, <3>3
    <2> QED
      BY <2>1, <2>2, <2>3
  <1>4. PICK c \in Callback :
           /\ Run(c, NULL, flags, "free_cb", "free")
           /\ replies' \in Seq(Callback) /\ invalid' \in Seq(Callback)
           /\ \/ walk' = walk /\ ~(replies = <<>> /\ invalid = <<>>)
              \/ walk' = walk + 1 /\ walk < Len(SubscriptionCbs) /\ replies = <<>> /\ invalid = <<>> /\ UNCHANGED <<replies, invalid>>
    BY <1>3
  <1>5. /\ got' \in Seq(Seq(ReplyOf \cup {NULL})) /\ Len(got') = Len(got)
        /\ c.fn => flags' = flags \cup {"IN_CALLBACK"} /\ pc' = "free_cb"
        /\ ~c.fn => flags' = flags /\ pc' = "free"
    BY <1>0, <1>4, RunGot
  <1>6. LocalTypes'
    BY <1>0, <1>1, <1>4, <1>5 DEF LocalTypes
  <1>7. WireTypes'
    BY <1>0, <1>1, <1>5 DEF WireTypes, ServerTypes, Named
  <1>8. FreeTypes'
    <2>1. pc' \in {"free", "free_cb"} /\ flags \subseteq flags'
      BY <1>5
    <2>2. walk' \in 0..Len(SubscriptionCbs') /\ (walk' > 0 => replies' = <<>> /\ invalid' = <<>>)
      BY <1>0, <1>2, <1>4 DEF FreeTypes
    <2> QED
      BY <1>0, <1>1, <2>1, <2>2 DEF FreeTypes
  <1> QED
    BY <1>2, <1>6, <1>7, <1>8 DEF Types

LEMMA FreeEndsKeepsTypes ==
    ASSUME Types, FreeCallbackReturns \/ FreeEnds
    PROVE  Types'
  <1>0. LocalTypes /\ WireTypes /\ FreeTypes
    BY DEF Types
  <1>1. UNCHANGED <<err, replies, invalid, channels, patterns, obuf, reader, half, cb, walk, inbuf, issued, got, last>>
    BY DEF FreeCallbackReturns, FreeEnds, peer, told
  <1>2. TableTypes' /\ SubscriptionCbs' = SubscriptionCbs
    BY <1>1, TablesKept
  <1>3. CASE FreeCallbackReturns
    <2>1. pc = "free_cb" /\ flags' = flags \ {"IN_CALLBACK"} /\ pc' = "free" /\ UNCHANGED <<server, left>>
      BY <1>3 DEF FreeCallbackReturns, peer
    <2>2. LocalTypes'
      BY <1>0, <1>1, <2>1 DEF LocalTypes
    <2>3. WireTypes'
      BY <1>0, <1>1, <2>1 DEF WireTypes, ServerTypes, Named
    <2>4. FreeTypes'
      BY <1>0, <1>1, <1>2, <2>1 DEF FreeTypes
    <2> QED
      BY <1>2, <2>2, <2>3, <2>4 DEF Types
  <1>4. CASE FreeEnds
    <2>1. /\ pc = "free" /\ flags' = flags /\ pc' = "gone" /\ server' = [server EXCEPT !.open = FALSE]
          /\ left' \in {"not_called", "ok", "err"} /\ replies = <<>> /\ invalid = <<>> /\ walk = Len(SubscriptionCbs)
      BY <1>4 DEF FreeEnds
    <2>2. LocalTypes'
      BY <1>0, <1>1, <2>1 DEF LocalTypes
    <2>3. WireTypes'
      <3>1. ServerTypes([server EXCEPT !.open = FALSE])
        BY <1>0 DEF WireTypes, ServerTypes
      <3>2. ServerTypes(server)' /\ Named(reader)' /\ Named(inbuf)'
        BY <1>0, <1>1, <2>1, <3>1 DEF WireTypes, ServerTypes, Named
      <3> QED
        BY <1>0, <1>1, <3>2 DEF WireTypes
    <2>4. FreeTypes'
      BY <1>0, <1>1, <1>2, <2>1 DEF FreeTypes
    <2> QED
      BY <1>2, <2>2, <2>3, <2>4 DEF Types
  <1> QED
    BY <1>3, <1>4

LEMMA ServerKeepsTypes ==
    ASSUME Types, ServerSpeaks \/ ServerCloses
    PROVE  Types'
  <1>0. LocalTypes /\ WireTypes /\ FreeTypes
    BY DEF Types
  <1>1. UNCHANGED <<flags, err, pc, left, replies, invalid, channels, patterns, obuf, reader, half, cb, walk, issued, got, last>>
    BY DEF ServerSpeaks, ServerCloses, local, told
  <1>2. TableTypes' /\ SubscriptionCbs' = SubscriptionCbs
    BY <1>1, TablesKept
  <1>3. LocalTypes'
    BY <1>0, <1>1 DEF LocalTypes
  <1>4. FreeTypes'
    BY <1>0, <1>1, <1>2 DEF FreeTypes
  <1>5. inbuf' \in Seq(ReplyOf) /\ Named(inbuf)' /\ ServerTypes(server)'
    <2>0. inbuf \in Seq(ReplyOf) /\ Named(inbuf) /\ ServerTypes(server)
      BY <1>0 DEF WireTypes
    <2>1. CASE ServerCloses
      <3>1. ServerTypes([server EXCEPT !.open = FALSE])
        BY <2>0 DEF ServerTypes
      <3>2. server' = [server EXCEPT !.open = FALSE] /\ inbuf' = inbuf
        BY <2>1 DEF ServerCloses
      <3> QED
        BY <2>0, <3>1, <3>2 DEF ServerTypes, Named
    <2>2. CASE ServerSpeaks
      <3>1. server' = server /\ \E r \in ReplyOf : inbuf' = Append(inbuf, r) /\ (IsArray(r) => r.name \in Key)
        <4>1. \A x \in server.subs : Reply("message", x[1], x[2], 0, 0) \in ReplyOf /\ Reply("message", x[1], x[2], 0, 0).name \in Key
          BY <2>0 DEF ServerTypes, Reply, ReplyOf, ReplyTypes
        <4>2. Plain("line", 0) \in ReplyOf /\ ~IsArray(Plain("line", 0))
          BY PlainReply
        <4> QED
          BY <2>2, <4>1, <4>2 DEF ServerSpeaks
      <3>2. PICK r \in ReplyOf : inbuf' = Append(inbuf, r) /\ (IsArray(r) => r.name \in Key)
        BY <3>1
      <3>3. inbuf' \in Seq(ReplyOf) /\ \A i \in DOMAIN inbuf' : (i \in DOMAIN inbuf /\ inbuf'[i] = inbuf[i]) \/ inbuf'[i] = r
        BY <2>0, <3>2
      <3>4. Named(inbuf)'
        BY <2>0, <3>2, <3>3 DEF Named
      <3> QED
        BY <2>0, <3>1, <3>3, <3>4 DEF ServerTypes
    <2> QED
      BY <2>1, <2>2
  <1>6. WireTypes'
    BY <1>0, <1>1, <1>5 DEF WireTypes, Named
  <1> QED
    BY <1>2, <1>3, <1>4, <1>6 DEF Types

LEMMA StutterKeepsTypes ==
    ASSUME Types, UNCHANGED vars
    PROVE  Types'
  <1>0. LocalTypes /\ WireTypes /\ FreeTypes
    BY DEF Types
  <1>1. /\ UNCHANGED <<flags, err, pc, left, replies, invalid, channels, patterns, obuf, reader, half, cb, walk>>
        /\ UNCHANGED <<inbuf, server, issued, got, last>>
    BY DEF vars, local, peer, told
  <1>2. TableTypes' /\ SubscriptionCbs' = SubscriptionCbs
    BY <1>1, TablesKept
  <1>3. LocalTypes'
    BY <1>0, <1>1 DEF LocalTypes
  <1>4. FreeTypes'
    BY <1>0, <1>1, <1>2 DEF FreeTypes
  <1>5. WireTypes'
    BY <1>0, <1>1 DEF WireTypes, ServerTypes, Named
  <1> QED
    BY <1>2, <1>3, <1>4, <1>5 DEF Types

LEMMA NextKeepsTypes == Types /\ [Next]_vars => Types'
  <1> SUFFICES ASSUME Types, [Next]_vars PROVE Types'
    OBVIOUS
  <1>1. CASE User
    BY <1>1, CommandKeepsTypes, UserKeepsTypes DEF User
  <1>2. CASE __redisAsyncHandleConnect \/ redisAsyncHandleWrite \/ redisAsyncHandleRead
    BY <1>2, ConnectKeepsTypes, WriteKeepsTypes, ReadKeepsTypes
  <1>3. CASE redisProcessCallbacks
    BY <1>3, ReplyKeepsTypes, PubSubKeepsTypes, ProcessKeepsTypes DEF redisProcessCallbacks
  <1>4. CASE __redisAsyncFree
    BY <1>4, FreeKeepsTypes, FreeEndsKeepsTypes DEF __redisAsyncFree
  <1>5. CASE ServerSpeaks \/ ServerCloses
    BY <1>5, ServerKeepsTypes
  <1>6. CASE UNCHANGED vars
    BY <1>6, StutterKeepsTypes
  <1> QED
    BY <1>1, <1>2, <1>3, <1>4, <1>5, <1>6 DEF Next, EventLoop

LEMMA TypesMeanSafe == Types => Safe
  <1> SUFFICES ASSUME Types PROVE Safe
    OBVIOUS
  <1>0. LocalTypes /\ TableTypes /\ FreeTypes
    BY DEF Types
  <1>1. IsTable(channels, Subs) /\ IsTable(patterns, Subs) /\ Found(channels, FALSE) /\ Found(patterns, TRUE)
    BY <1>0 DEF TableTypes
  <1>2. WellFormed(channels) /\ WellFormed(patterns)
    BY <1>1, TableWellFormed
  <1>3. \A q \in {replies, invalid} : \A i \in DOMAIN q : q[i] \in Callback
    BY <1>0 DEF LocalTypes
  <1>4. TypeOK
    BY <1>0, <1>2, <1>3 DEF TypeOK, LocalTypes, FreeTypes
  <1>5. DictIsMap
    <2> SUFFICES ASSUME NEW p \in BOOLEAN, NEW n \in Key
                 PROVE  LET found == dictFind(Dictionary(p), n)
                        IN  IF last[p][n] = 0 THEN found = NoEntry ELSE found # NoEntry /\ found.id = last[p][n]
      BY DEF DictIsMap
    <2>1. last[p][n] \in 0..MaxCmds
      BY <1>0 DEF TableTypes
    <2>2. dictFind(Dictionary(p), n) = IF last[p][n] = 0 THEN NoEntry ELSE [id |-> last[p][n], fn |-> TRUE]
      BY <1>1 DEF Dictionary, Found
    <2>3. [id |-> last[p][n], fn |-> TRUE] # NoEntry
      <3>1. [id |-> last[p][n], fn |-> TRUE] \in [id : Nat, fn : BOOLEAN]
        BY <2>1, BoundsAssumption
      <3> QED
        BY <3>1, NoEntryAssumption
    <2> QED
      BY <2>2, <2>3
  <1> QED
    BY <1>4, <1>5 DEF Safe

\* The context is of its types, and both of its hash tables are well formed
\* and map each subscribed name to the callback of its last subscription
\* (dict.c, async.c:560-579 and async.c:372-404), however large the tables
\* and whatever the hashes: no bound and no careful user is assumed.
THEOREM ContextIsSafe == Spec => []Safe
  <1>1. Spec => []Types
    BY InitTypes, NextKeepsTypes, PTL DEF Spec
  <1> QED
    BY <1>1, TypesMeanSafe, PTL

(***************************************************************************)
(* The commands, and the context before it is connected.                   *)
(***************************************************************************)
LEMMA InitCommands == Init => Commands /\ Connecting
  <1> SUFFICES ASSUME Init PROVE Commands /\ Connecting
    OBVIOUS
  <1>1. issued = <<>> /\ replies = <<>> /\ invalid = <<>> /\ cb = NoCb /\ (\A p \in BOOLEAN, n \in Key : last[p][n] = 0)
    BY DEF Init
  <1>2. Commands
    BY <1>1 DEF Commands, OfCommand, Registered
  <1>3. Connecting
    BY DEF Init, Connecting
  <1> QED
    BY <1>2, <1>3

LEMMA TailItems ==
    ASSUME NEW S, NEW q \in Seq(S), q # <<>>
    PROVE  /\ \A i \in DOMAIN Tail(q) : i + 1 \in DOMAIN q /\ Tail(q)[i] = q[i + 1]
           /\ 1 \in DOMAIN q /\ Head(q) = q[1] /\ Head(q) \in S /\ Tail(q) \in Seq(S)
           /\ \A i \in DOMAIN q : i # 1 => i - 1 \in DOMAIN Tail(q) /\ Tail(q)[i - 1] = q[i]
           /\ \A i, j \in DOMAIN q : i < j => j # 1
  OBVIOUS

LEMMA LastItem ==
    ASSUME NEW S, NEW q \in Seq(S), NEW e \in S
    PROVE  /\ \A i \in DOMAIN Append(q, e) : (i \in DOMAIN q /\ Append(q, e)[i] = q[i]) \/ (i = Len(q) + 1 /\ Append(q, e)[i] = e)
           /\ \A i \in DOMAIN q : i \in DOMAIN Append(q, e) /\ Append(q, e)[i] = q[i] /\ i \in Nat /\ i < Len(q) + 1
           /\ Len(q) + 1 \in DOMAIN Append(q, e) /\ Append(q, e)[Len(q) + 1] = e /\ Len(Append(q, e)) = Len(q) + 1
           /\ Len(q) + 1 \notin DOMAIN q
  OBVIOUS

LEMMA CommandKeepsCommands ==
    ASSUME Types, Commands, redisAsyncCommand
    PROVE  Commands'
  <1>1. PICK op, p, names, fn : Legal(op, p, names, fn) /\ __redisAsyncCommand(op, p, names, fn)
    BY CommandIssued
  <1> DEFINE id == Len(issued) + 1
             c == NewCb(fn)
             cmd == NewCommand(op, p, names, fn)
             OfAfter(x) == x = NoCb \/ (x.id \in DOMAIN issued' /\ x.fn = issued'[x.id].fn)
  <1>2. /\ id \in 1..MaxCmds /\ c \in Callback /\ cmd \in Command
        /\ replies' = IF op = "monitor" \/ (op \in Other /\ ~Subscribed) THEN Append(replies, c) ELSE replies
        /\ invalid' = IF op \in Other /\ Subscribed THEN Append(invalid, c) ELSE invalid
        /\ issued' = Append(issued, cmd)
        /\ \A v \in BOOLEAN, n \in Key :
              last'[v][n] = IF op = "subscribe" /\ v = p /\ n \in ToSet(names) THEN id ELSE last[v][n]
        /\ cb' = cb
    BY <1>1, CommandEffect
  <1>3. issued \in Seq(Command) /\ replies \in Seq(Callback) /\ invalid \in Seq(Callback)
    BY DEF Types, WireTypes, LocalTypes
  <1>4. cmd.op = op /\ cmd.id = id /\ cmd.fn = fn /\ c.id = id /\ c.fn = fn
    BY DEF NewCommand, NewCb
  <1> HIDE DEF c, cmd
  <1>5. /\ \A x \in DOMAIN issued' : (x \in DOMAIN issued /\ issued'[x] = issued[x]) \/ (x = id /\ issued'[x] = cmd)
        /\ \A x \in DOMAIN issued : x \in DOMAIN issued' /\ issued'[x] = issued[x]
        /\ id \in DOMAIN issued' /\ issued'[id] = cmd
    BY <1>2, <1>3, LastItem
  <1> HIDE DEF id
  <1>6. \A x : OfCommand(x) => OfAfter(x)
    BY <1>5 DEF OfCommand
  <1>7. OfAfter(c)
    BY <1>4, <1>5
  <1> HIDE DEF OfAfter
  <1>8. \A x \in DOMAIN issued' : issued'[x].id = x /\ (issued'[x].op \notin Other => issued'[x].fn)
    <2>1. op \notin Other => fn
      BY <1>1 DEF Legal, Other
    <2> QED
      BY <1>4, <1>5, <2>1 DEF Commands
  <1>9. \A v \in BOOLEAN, n \in Key : Registered(v, n)' => last'[v][n] \in DOMAIN issued' /\ issued'[last'[v][n]].op = "subscribe"
    <2> SUFFICES ASSUME NEW v \in BOOLEAN, NEW n \in Key, Registered(v, n)'
                 PROVE  last'[v][n] \in DOMAIN issued' /\ issued'[last'[v][n]].op = "subscribe"
      OBVIOUS
    <2>1. CASE op = "subscribe" /\ v = p /\ n \in ToSet(names)
      <3>1. last'[v][n] = id
        BY <1>2, <2>1
      <3> QED
        BY <1>4, <1>5, <2>1, <3>1
    <2>2. CASE ~(op = "subscribe" /\ v = p /\ n \in ToSet(names))
      <3>1. last'[v][n] = last[v][n]
        BY <1>2, <2>2
      <3>2. Registered(v, n)
        BY <3>1 DEF Registered
      <3> QED
        BY <1>5, <3>1, <3>2 DEF Commands
    <2> QED
      BY <2>1, <2>2
  <1>10. \A i \in DOMAIN replies' : OfAfter(replies'[i])
    <2>1. \A i \in DOMAIN Append(replies, c) : OfAfter(Append(replies, c)[i])
      <3>1. \A i \in DOMAIN Append(replies, c) : (i \in DOMAIN replies /\ Append(replies, c)[i] = replies[i]) \/ Append(replies, c)[i] = c
        BY <1>2, <1>3, LastItem
      <3> QED
        BY <1>6, <1>7, <3>1 DEF Commands
    <2>2. \A i \in DOMAIN replies : OfAfter(replies[i])
      BY <1>6 DEF Commands
    <2> QED
      BY <1>2, <2>1, <2>2
  <1>11. \A i \in DOMAIN invalid' : OfAfter(invalid'[i])
    <2>1. \A i \in DOMAIN Append(invalid, c) : OfAfter(Append(invalid, c)[i])
      <3>1. \A i \in DOMAIN Append(invalid, c) : (i \in DOMAIN invalid /\ Append(invalid, c)[i] = invalid[i]) \/ Append(invalid, c)[i] = c
        BY <1>2, <1>3, LastItem
      <3> QED
        BY <1>6, <1>7, <3>1 DEF Commands
    <2>2. \A i \in DOMAIN invalid : OfAfter(invalid[i])
      BY <1>6 DEF Commands
    <2> QED
      BY <1>2, <2>1, <2>2
  <1>12. OfAfter(cb')
    BY <1>2, <1>6 DEF Commands, OfCommand
  <1> QED
    BY <1>8, <1>9, <1>10, <1>11, <1>12 DEF Commands, OfCommand, OfAfter

\* What the queues and the dictionaries hold was there before.
LEMMA CommandsKept ==
    ASSUME Commands, issued' = issued,
           \A p \in BOOLEAN, n \in Key : last'[p][n] \in {0, last[p][n]},
           \A i \in DOMAIN replies' : OfCommand(replies'[i]),
           \A i \in DOMAIN invalid' : OfCommand(invalid'[i]), OfCommand(cb')
    PROVE  Commands'
  <1>2. \A p \in BOOLEAN, n \in Key : Registered(p, n)' => last'[p][n] \in DOMAIN issued' /\ issued'[last'[p][n]].op = "subscribe"
    BY DEF Commands, Registered
  <1> QED
    BY <1>2 DEF Commands, OfCommand

LEMMA NextKeepsCommands ==
    ASSUME Types, Commands, [Next]_vars
    PROVE  Commands'
  <1>0. /\ issued \in Seq(Command) /\ replies \in Seq(Callback) /\ invalid \in Seq(Callback)
        /\ (\A i \in DOMAIN replies : OfCommand(replies[i])) /\ (\A i \in DOMAIN invalid : OfCommand(invalid[i])) /\ OfCommand(cb)
        /\ OfCommand(NoCb)
    BY DEF Types, WireTypes, LocalTypes, Commands, OfCommand
  <1>1. \A q \in {replies, invalid} : q # <<>> =>
           OfCommand(Head(q)) /\ \A i \in DOMAIN Tail(q) : OfCommand(Tail(q)[i])
    BY <1>0, TailItems
  <1>2. CASE redisAsyncCommand
    BY <1>2, CommandKeepsCommands
  <1>3. CASE redisAsyncDisconnect \/ redisAsyncFree \/ __redisAsyncHandleConnect \/ redisAsyncHandleWrite
             \/ ServerSpeaks \/ ServerCloses \/ FreeCallbackReturns \/ FreeEnds \/ FreeWalks \/ ReplyCallbackReturns
             \/ SpontaneousError \/ OtherReply \/ UNCHANGED vars
    <2>1. UNCHANGED <<replies, invalid, cb, issued, last>>
      BY <1>3 DEF redisAsyncDisconnect, redisAsyncFree, __redisAsyncHandleConnect, redisAsyncHandleWrite, ServerSpeaks,
                  ServerCloses, FreeCallbackReturns, FreeEnds, FreeWalks, ReplyCallbackReturns, SpontaneousError, OtherReply,
                  vars, local, told
    <2> QED
      BY <1>0, <2>1, CommandsKept
  <1>4. CASE redisAsyncHandleRead
    <2>1. UNCHANGED <<replies, invalid, issued, last>> /\ cb' \in {cb, NoCb}
      BY <1>4 DEF redisAsyncHandleRead, told
    <2> QED
      BY <1>0, <2>1, CommandsKept
  <1>5. CASE NoReply
    <2>1. UNCHANGED <<invalid, cb, issued, last>> /\ replies' \in {replies, Append(replies, cb)}
      BY <1>5 DEF NoReply, told
    <2>2. \A i \in DOMAIN Append(replies, cb) : OfCommand(Append(replies, cb)[i])
      <3>1. cb \in Callback
        BY DEF Types, LocalTypes
      <3> QED
        BY <1>0, <3>1, LastItem
    <2> QED
      BY <1>0, <2>1, <2>2, CommandsKept
  <1>6. CASE ShiftedReply
    <2>1. UNCHANGED <<invalid, issued, last>> /\ replies # <<>> /\ replies' = Tail(replies) /\ cb' = Head(replies)
      BY <1>6 DEF ShiftedReply
    <2> QED
      BY <1>0, <1>1, <2>1, CommandsKept
  <1>7. CASE InvalidReply
    <2>1. UNCHANGED <<replies, issued, last>>
          /\ \/ UNCHANGED <<invalid, cb>>
             \/ invalid # <<>> /\ invalid' = Tail(invalid) /\ cb' = Head(invalid)
      BY <1>7 DEF InvalidReply
    <2> QED
      BY <1>0, <1>1, <2>1, CommandsKept
  <1>8. CASE PubSubReply
    <2> DEFINE r == Head(reader)
    <2>1. UNCHANGED <<replies, invalid, issued>>
      BY <1>8 DEF PubSubReply
    <2>2. /\ r.p \in BOOLEAN /\ r.name \in Key
          /\ \A v \in BOOLEAN, n \in Key : last'[v][n] \in {0, last[v][n]}
          /\ cb' = IF last[r.p][r.name] # 0 THEN [id |-> last[r.p][r.name], fn |-> TRUE] ELSE cb
      BY <1>8, PubSubEffect
    <2> HIDE DEF r
    <2>3. OfCommand(cb')
      <3>1. CASE last[r.p][r.name] = 0
        BY <1>0, <2>2, <3>1
      <3>2. CASE last[r.p][r.name] # 0
        <4>1. last[r.p][r.name] \in DOMAIN issued /\ issued[last[r.p][r.name]].op = "subscribe"
          BY <2>2, <3>2 DEF Commands, Registered
        <4>2. issued[last[r.p][r.name]].fn
          BY <4>1 DEF Commands, Other
        <4>3. issued[last[r.p][r.name]] \in Command
          BY <1>0, <4>1
        <4>4. issued[last[r.p][r.name]].fn = TRUE
          BY <4>2, <4>3, CommandFields
        <4> QED
          BY <2>2, <3>2, <4>1, <4>4 DEF OfCommand
      <3> QED
        BY <3>1, <3>2
    <2> QED
      BY <1>0, <2>1, <2>2, <2>3, CommandsKept
  <1>9. CASE FreeShifts
    <2>1. /\ UNCHANGED <<cb, issued, last>>
          /\ \/ replies # <<>> /\ replies' = Tail(replies) /\ invalid' = invalid
             \/ invalid # <<>> /\ invalid' = Tail(invalid) /\ replies' = replies
      BY <1>9 DEF FreeShifts
    <2> QED
      BY <1>0, <1>1, <2>1, CommandsKept
  <1> QED
    BY <1>2, <1>3, <1>4, <1>5, <1>6, <1>7, <1>8, <1>9
    DEF Next, User, EventLoop, redisProcessCallbacks, __redisAsyncFree

\* Only two flags are ever cleared, and an error stays.
Lasting == {"CONNECTED", "DISCONNECTING", "FREEING", "MONITORING"}
LEMMA FlagsStay ==
    ASSUME [Next]_vars
    PROVE  (\A f \in Lasting : f \in flags => f \in flags') /\ (err => err')
  <1> USE DEF Lasting
  <1>1. CASE redisAsyncCommand
    <2>1. ASSUME NEW op, NEW p, NEW names, NEW fn, __redisAsyncCommand(op, p, names, fn)
          PROVE  flags \subseteq flags' /\ err' = err
      BY <2>1 DEF __redisAsyncCommand
    <2>2. flags \subseteq flags' /\ err' = err
      BY <1>1, <2>1, CommandIssued
    <2> QED
      BY <2>2
  <1>2. CASE redisAsyncDisconnect \/ redisAsyncFree
    BY <1>2 DEF redisAsyncDisconnect, redisAsyncFree
  <1>3. CASE __redisAsyncHandleConnect \/ redisAsyncHandleWrite \/ redisAsyncHandleRead
    BY <1>3 DEF __redisAsyncHandleConnect, redisAsyncHandleWrite, redisAsyncHandleRead, Disconnect
  <1>4. CASE NoReply \/ SpontaneousError \/ ReplyCallbackReturns
    BY <1>4 DEF NoReply, SpontaneousError, ReplyCallbackReturns, Disconnect
  <1>5. CASE ShiftedReply \/ PubSubReply \/ InvalidReply \/ OtherReply
    BY <1>5 DEF ShiftedReply, PubSubReply, InvalidReply, OtherReply, Run, Unsubscribed
  <1>6. CASE FreeShifts \/ FreeWalks \/ FreeCallbackReturns \/ FreeEnds
    BY <1>6 DEF FreeShifts, FreeWalks, FreeCallbackReturns, FreeEnds, Run
  <1>7. CASE ServerSpeaks \/ ServerCloses \/ UNCHANGED vars
    BY <1>7 DEF ServerSpeaks, ServerCloses, vars, local
  <1> QED
    BY <1>1, <1>2, <1>3, <1>4, <1>5, <1>6, <1>7
    DEF Next, User, EventLoop, redisProcessCallbacks, __redisAsyncFree

\* The context is gone for good.
LEMMA GoneStays ==
    ASSUME [Next]_vars, pc = "gone"
    PROVE  UNCHANGED vars
  <1>1. ~User
    BY DEF User, redisAsyncCommand, __redisAsyncCommand, redisAsyncDisconnect, redisAsyncFree, UserRuns
  <1>2. ~__redisAsyncHandleConnect /\ ~redisAsyncHandleWrite /\ ~redisAsyncHandleRead
    BY DEF __redisAsyncHandleConnect, redisAsyncHandleWrite, redisAsyncHandleRead
  <1>3. ~redisProcessCallbacks
    BY DEF redisProcessCallbacks, NoReply, ShiftedReply, SpontaneousError, PubSubReply, InvalidReply, OtherReply,
           ReplyCallbackReturns, Unexpected
  <1>4. ~__redisAsyncFree /\ ~ServerSpeaks /\ ~ServerCloses
    BY DEF __redisAsyncFree, FreeShifts, FreeWalks, FreeCallbackReturns, FreeEnds, ServerSpeaks, ServerCloses
  <1> QED
    BY <1>1, <1>2, <1>3, <1>4 DEF Next, EventLoop

LEMMA NextKeepsConnecting ==
    ASSUME Types, Connecting, [Next]_vars
    PROVE  Connecting'
  <1>0. pc \in {"loop", "connect_cb", "process", "reply_cb", "free", "free_cb", "gone", "aborted"}
    BY DEF Types, LocalTypes
  <1> DEFINE Fresh == inbuf = <<>> /\ reader = <<>> /\ server = [subs |-> {}, monitor |-> FALSE, open |-> TRUE]
  <1> HIDE DEF Fresh
  <1>1. Connecting <=> ("CONNECTED" \notin flags /\ pc # "gone" => Fresh /\ pc \in {"loop", "free", "free_cb"})
    BY DEF Connecting, Fresh
  <1>2. ASSUME "CONNECTED" \in flags' \/ pc' = "gone" \/ (Fresh' /\ pc' \in {"loop", "free", "free_cb"})
        PROVE  Connecting'
    BY <1>2 DEF Connecting, Fresh
  <1>3. ASSUME UNCHANGED <<inbuf, reader, server>> PROVE Fresh' <=> Fresh
    BY <1>3 DEF Fresh
  <1>4. CASE "CONNECTED" \in flags
    <2>1. "CONNECTED" \in flags'
      BY <1>4, FlagsStay DEF Lasting
    <2> QED
      BY <1>2, <2>1
  <1>5. CASE pc = "gone"
    <2>1. UNCHANGED vars
      BY <1>5, GoneStays
    <2>2. pc' = "gone"
      BY <1>5, <2>1 DEF vars, local
    <2> QED
      BY <1>2, <2>2
  <1>6. CASE "CONNECTED" \notin flags /\ pc # "gone"
    <2>0. Fresh /\ pc \in {"loop", "free", "free_cb"}
      BY <1>1, <1>6
    <2>1. CASE redisAsyncCommand
      <3>1. PICK op, p, names, fn : Legal(op, p, names, fn) /\ __redisAsyncCommand(op, p, names, fn)
        BY <2>1, CommandIssued
      <3>2. UNCHANGED <<inbuf, reader, server, pc>>
        BY <3>1, CommandEffect DEF peer
      <3> QED
        BY <1>2, <1>3, <2>0, <3>2
    <2>2. CASE redisAsyncDisconnect \/ redisAsyncFree
      BY <1>2, <1>3, <2>0, <2>2 DEF redisAsyncDisconnect, redisAsyncFree, peer
    <2>3. CASE __redisAsyncHandleConnect
      BY <1>2, <1>3, <2>0, <2>3 DEF __redisAsyncHandleConnect, Disconnect
    <2>4. CASE FreeShifts \/ FreeWalks
      BY <1>2, <1>3, <2>0, <2>4 DEF FreeShifts, FreeWalks, Run, peer
    <2>5. CASE FreeCallbackReturns \/ FreeEnds
      BY <1>2, <1>3, <2>0, <2>5 DEF FreeCallbackReturns, FreeEnds, peer
    <2>6. CASE UNCHANGED vars
      BY <1>2, <1>3, <2>0, <2>6 DEF vars, local, peer
    <2>7. ~redisAsyncHandleWrite /\ ~redisAsyncHandleRead /\ ~redisProcessCallbacks
      BY <1>6, <2>0 DEF redisAsyncHandleWrite, redisAsyncHandleRead, redisProcessCallbacks, NoReply, ShiftedReply,
                  SpontaneousError, PubSubReply, InvalidReply, OtherReply, ReplyCallbackReturns, Unexpected
    <2>8. ~ServerSpeaks /\ ~ServerCloses
      <3>1. server.subs = {} /\ server.monitor = FALSE
        BY <2>0 DEF Fresh
      <3> QED
        BY <1>6, <3>1 DEF ServerSpeaks, ServerCloses
    <2> QED
      BY <2>1, <2>2, <2>3, <2>4, <2>5, <2>6, <2>7, <2>8 DEF Next, User, EventLoop, __redisAsyncFree
  <1> QED
    BY <1>4, <1>5, <1>6

(***************************************************************************)
(* Who is pending, and what the first reply is.                            *)
(***************************************************************************)
Inv == /\ Types /\ Commands /\ Connecting /\ pc # "aborted"
       /\ Monitoring /\ Ordered /\ Told /\ Pipeline /\ Leaving

\* The first of the replies is the first of all that are pending.
LEMMA HeadPending ==
    ASSUME Types, Ordered, ~Mon, replies # <<>>
    PROVE  /\ IsOther(Head(replies).id) /\ Waits(Head(replies).id, replies)
           /\ \A x : Pending(x) => Head(replies).id <= x /\ x \in Nat
           /\ \A x : Waits(x, Tail(replies)) <=> Waits(x, replies) /\ x # Head(replies).id
           /\ ~Waits(Head(replies).id, invalid)
  <1> DEFINE h == Head(replies).id
  <1>1. replies \in Seq(Callback) /\ invalid \in Seq(Callback)
    BY DEF Types, LocalTypes
  <1>2. /\ \A i \in DOMAIN Tail(replies) : i + 1 \in DOMAIN replies /\ Tail(replies)[i] = replies[i + 1]
        /\ 1 \in DOMAIN replies /\ Head(replies) = replies[1]
        /\ \A i \in DOMAIN replies : i # 1 => i - 1 \in DOMAIN Tail(replies) /\ Tail(replies)[i - 1] = replies[i]
    BY <1>1, TailItems
  <1>3. /\ \A i \in DOMAIN replies : replies[i].id \in Nat /\ i \in Nat /\ (i # 1 => 1 < i)
        /\ \A i \in DOMAIN invalid : invalid[i].id \in Nat
    BY <1>1, CallbackTypes
  <1>4. Increasing(replies) /\ (\A i \in DOMAIN replies, j \in DOMAIN invalid : replies[i].id < invalid[j].id)
        /\ (\A i \in DOMAIN replies : IsOther(replies[i].id))
    BY DEF Ordered
  <1>5. \A i \in DOMAIN replies : i # 1 => h < replies[i].id
    BY <1>2, <1>3, <1>4 DEF Increasing
  <1>6. h = replies[1].id /\ h \in Nat /\ IsOther(h)
    BY <1>2, <1>3, <1>4
  <1> HIDE DEF h
  <1>7. Waits(h, replies)
    BY <1>2, <1>6 DEF Waits
  <1>8. ASSUME NEW x, Pending(x) PROVE h <= x /\ x \in Nat
    <2>1. CASE Waits(x, replies)
      BY <1>3, <1>5, <1>6, <2>1 DEF Waits
    <2>2. CASE Waits(x, invalid)
      BY <1>2, <1>3, <1>4, <1>6, <2>2 DEF Waits
    <2> QED
      BY <1>8, <2>1, <2>2 DEF Pending
  <1>9. ~Waits(h, invalid)
    BY <1>2, <1>3, <1>4, <1>6 DEF Waits
  <1>10. ASSUME NEW x, Waits(x, Tail(replies)) PROVE Waits(x, replies) /\ x # h
    <2>1. PICK i \in DOMAIN Tail(replies) : Tail(replies)[i].id = x
      BY <1>10 DEF Waits
    <2>2. i + 1 \in DOMAIN replies /\ replies[i + 1].id = x /\ i \in Nat /\ i >= 1
      BY <1>1, <1>2, <2>1
    <2>3. h < x
      BY <1>5, <2>2
    <2> QED
      BY <1>6, <2>2, <2>3 DEF Waits
  <1>11. ASSUME NEW x, Waits(x, replies), x # h PROVE Waits(x, Tail(replies))
    <2>1. PICK i \in DOMAIN replies : replies[i].id = x
      BY <1>11 DEF Waits
    <2>2. i # 1
      BY <1>6, <1>11, <2>1
    <2> QED
      BY <1>2, <2>1, <2>2 DEF Waits
  <1> QED
    BY <1>6, <1>7, <1>8, <1>9, <1>10, <1>11 DEF h

\* If there are none, so is the first of the invalid commands.
LEMMA HeadInvalid ==
    ASSUME Types, Ordered, ~Mon, replies = <<>>, invalid # <<>>
    PROVE  /\ IsOther(Head(invalid).id) /\ Waits(Head(invalid).id, invalid)
           /\ \A x : Pending(x) => Head(invalid).id <= x /\ x \in Nat
           /\ \A x : Waits(x, Tail(invalid)) <=> Waits(x, invalid) /\ x # Head(invalid).id
  <1> DEFINE h == Head(invalid).id
  <1>1. invalid \in Seq(Callback)
    BY DEF Types, LocalTypes
  <1>2. /\ \A i \in DOMAIN Tail(invalid) : i + 1 \in DOMAIN invalid /\ Tail(invalid)[i] = invalid[i + 1]
        /\ 1 \in DOMAIN invalid /\ Head(invalid) = invalid[1]
        /\ \A i \in DOMAIN invalid : i # 1 => i - 1 \in DOMAIN Tail(invalid) /\ Tail(invalid)[i - 1] = invalid[i]
    BY <1>1, TailItems
  <1>3. \A i \in DOMAIN invalid : invalid[i].id \in Nat /\ i \in Nat /\ (i # 1 => 1 < i)
    BY <1>1, CallbackTypes
  <1>4. Increasing(invalid) /\ (\A i \in DOMAIN invalid : IsOther(invalid[i].id))
    BY DEF Ordered
  <1>5. \A i \in DOMAIN invalid : i # 1 => h < invalid[i].id
    BY <1>2, <1>3, <1>4 DEF Increasing
  <1>6. h = invalid[1].id /\ h \in Nat /\ IsOther(h)
    BY <1>2, <1>3, <1>4
  <1> HIDE DEF h
  <1>7. Waits(h, invalid)
    BY <1>2, <1>6 DEF Waits
  <1>8. ASSUME NEW x, Pending(x) PROVE h <= x /\ x \in Nat
    <2>1. ~Waits(x, replies)
      BY DEF Waits
    <2>2. PICK i \in DOMAIN invalid : invalid[i].id = x
      BY <1>8, <2>1 DEF Pending, Waits
    <2> QED
      BY <1>3, <1>5, <1>6, <2>2
  <1>10. ASSUME NEW x, Waits(x, Tail(invalid)) PROVE Waits(x, invalid) /\ x # h
    <2>1. PICK i \in DOMAIN Tail(invalid) : Tail(invalid)[i].id = x
      BY <1>10 DEF Waits
    <2>2. i + 1 \in DOMAIN invalid /\ invalid[i + 1].id = x /\ i \in Nat /\ i >= 1
      BY <1>1, <1>2, <2>1
    <2>3. h < x
      BY <1>5, <2>2
    <2> QED
      BY <1>6, <2>2, <2>3 DEF Waits
  <1>11. ASSUME NEW x, Waits(x, invalid), x # h PROVE Waits(x, Tail(invalid))
    <2>1. PICK i \in DOMAIN invalid : invalid[i].id = x
      BY <1>11 DEF Waits
    <2>2. i # 1
      BY <1>6, <1>11, <2>1
    <2> QED
      BY <1>2, <2>1, <2>2 DEF Waits
  <1> QED
    BY <1>6, <1>7, <1>8, <1>10, <1>11 DEF h

\* No command that waits for a reply of its own is pending in a context that
\* monitors.
LEMMA MonitorQuiet ==
    ASSUME Types, Monitoring, Mon, NEW x, IsOther(x)
    PROVE  ~Pending(x) /\ \A c : MonCb(c) => c.id # x
  <1>1. issued \in Seq(Command)
    BY DEF Types, WireTypes
  <1>2. x # 0 /\ issued[x].op # "monitor"
    BY <1>1 DEF IsOther, Other
  <1>3. \A c : MonCb(c) => c.id # x
    BY <1>2 DEF MonCb
  <1>4. ~Waits(x, replies) /\ ~Waits(x, invalid)
    BY <1>3 DEF Monitoring, Waits
  <1> QED
    BY <1>3, <1>4 DEF Pending

LEMMA ReplyFields ==
    ASSUME NEW r \in ReplyOf
    PROVE  r.id \in Nat /\ r.count \in Nat /\ r.p \in BOOLEAN /\ r # NULL
  <1>1. r.id \in Nat /\ r.count \in Nat /\ r.p \in BOOLEAN
    BY DEF ReplyOf
  <1> QED
    BY <1>1, CallbackTypes

LEMMA HeadOfQ ==
    ASSUME Types, reader # <<>>
    PROVE  /\ Q \in Seq(ReplyOf) /\ Q # <<>> /\ 1 \in DOMAIN Q /\ Q[1] = Head(reader) /\ Head(Q) = Head(reader)
           /\ Tail(Q) = Tail(reader) \o inbuf
           /\ Head(reader) \in ReplyOf /\ Head(reader).id \in Nat
  <1>1. reader \in Seq(ReplyOf) /\ inbuf \in Seq(ReplyOf)
    BY DEF Types, WireTypes
  <1>2. reader \o inbuf \in Seq(ReplyOf) /\ reader \o inbuf # <<>> /\ (reader \o inbuf)[1] = Head(reader)
        /\ Head(reader \o inbuf) = Head(reader)
    BY <1>1
  <1>3. Tail(reader \o inbuf) = Tail(reader) \o inbuf
    BY <1>1, CatAt
  <1>4. Head(reader) \in ReplyOf
    BY <1>1
  <1>5. Head(reader).id \in Nat
    BY <1>4, ReplyFields
  <1> QED
    BY <1>1, <1>2, <1>3, <1>4, <1>5 DEF Q

\* The parts of Pipe for the replies that come.
LEMMA Piped ==
    ASSUME Pipeline, Live
    PROVE  /\ InOrder(Q, obuf) /\ Answers(Q, server) /\ InStep(Q, obuf, server) /\ BeforeArrays(Q, obuf, server)
           /\ NamesRegistered(Q, obuf, server) /\ Known(Q, obuf, server) /\ Unsubscribes(Q, obuf, server)
           /\ NotSubscribed(Q, obuf, server) /\ (server.monitor => Mon)
  BY DEF Pipeline, Pipe

\* Nothing pending is older than the first reply.
LEMMA HeadBefore ==
    ASSUME Types, Pipeline, Live, reader # <<>>, NEW x, IsOther(x), Pending(x)
    PROVE  Head(reader).id <= x
  <1> DEFINE r == Head(reader)
  <1>1. Q \in Seq(ReplyOf) /\ 1 \in DOMAIN Q /\ Q[1] = r
    BY HeadOfQ
  <1>2. InOrder(Q, obuf) /\ InStep(Q, obuf, server)
    BY Piped
  <1>3. x \in DOMAIN issued /\ issued[x].op \in Other /\ x \in Nat /\ x > 0
    <2>1. issued \in Seq(Command)
      BY DEF Types, WireTypes
    <2> QED
      BY <2>1 DEF IsOther
  <1>4. r.id \in Nat
    BY HeadOfQ
  <1> SUFFICES r.id <= x
    OBVIOUS
  <1> HIDE DEF r
  <1>5. CASE ~Waits(x, Q)
    BY <1>1, <1>2, <1>3, <1>4, <1>5 DEF InStep
  <1>6. CASE Waits(x, Q)
    <2>1. PICK j \in DOMAIN Q : Q[j].id = x
      BY <1>6 DEF Waits
    <2>2. CASE j = 1
      BY <1>1, <1>3, <2>1, <2>2
    <2>3. CASE j # 1 /\ r.id > 0
      <3>1. 1 < j
        BY <1>1, <2>1, <2>3
      <3>2. Q[1].id > 0 /\ Q[j].id > 0
        BY <1>1, <1>3, <2>1, <2>3
      <3>3. Q[1].id <= Q[j].id
        BY <1>1, <1>2, <3>1, <3>2 DEF InOrder
      <3> QED
        BY <1>1, <2>1, <3>3
    <2>4. CASE r.id = 0
      BY <1>3, <2>4
    <2> QED
      BY <1>4, <2>2, <2>3, <2>4
  <1> QED
    BY <1>5, <1>6

\* A plain reply is the answer to a command that is pending.
LEMMA HeadAnswers ==
    ASSUME Types, Monitoring, Pipeline, Live, reader # <<>>, ~Mon, ~IsArray(Head(reader)), Head(reader).id # 0
    PROVE  IsOther(Head(reader).id) /\ Pending(Head(reader).id)
  <1> DEFINE r == Head(reader)
  <1>1. Q \in Seq(ReplyOf) /\ 1 \in DOMAIN Q /\ Q[1] = r
    BY HeadOfQ
  <1>2. Answers(Q, server) /\ InStep(Q, obuf, server)
    BY Piped
  <1>3. r.id \in Nat
    BY HeadOfQ
  <1>4. issued \in Seq(Command)
    BY DEF Types, WireTypes
  <1> HIDE DEF r
  <1>5. Answer(r)
    BY <1>1, <1>2 DEF Answers
  <1>6. r.id > 0
    BY <1>3 DEF r
  <1>7. r.id \in DOMAIN issued /\ ~OfPubSub(issued[r.id])
    BY <1>5, <1>6 DEF Answer, IsArray, OfPubSub, r
  <1>8. issued[r.id].op # "monitor"
    BY <1>7 DEF Monitoring
  <1>9. issued[r.id].op \in Other
    <2>1. issued[r.id] \in Command
      BY <1>4, <1>7
    <2>2. issued[r.id].op \in {"regular", "quit", "subscribe", "unsubscribe", "monitor"}
      BY <2>1, CommandFields
    <2> QED
      BY <1>7, <1>8, <2>2 DEF OfPubSub, Other
  <1>10. Waits(r.id, Q)
    BY <1>1 DEF Waits
  <1>11. Pending(r.id)
    BY <1>2, <1>7, <1>9, <1>10 DEF InStep
  <1> QED
    BY <1>7, <1>9, <1>11 DEF IsOther, r

\* The first pending callback waits for the reply that comes.
LEMMA OwnHead ==
    ASSUME Types, Monitoring, Ordered, Pipeline, Live, reader # <<>>, ~Mon, replies # <<>>
    PROVE  /\ ~IsArray(Head(reader))
           /\ \/ Head(reader).id = Head(replies).id
              \/ Head(reader).id = 0 /\ Head(reader).type = "error" /\ Len(Q) = 1 /\ ~server.open
  <1> DEFINE r == Head(reader)
             x == Head(replies).id
  <1>1. Q \in Seq(ReplyOf) /\ 1 \in DOMAIN Q /\ Q[1] = r
    BY HeadOfQ
  <1>2. Answers(Q, server) /\ BeforeArrays(Q, obuf, server)
    BY Piped
  <1>3. IsOther(x) /\ Waits(x, replies) /\ \A y : Pending(y) => x <= y /\ y \in Nat
    BY HeadPending
  <1>4. r.id \in Nat
    BY HeadOfQ
  <1> HIDE DEF r, x
  <1>5. ~IsArray(r)
    <2> SUFFICES ASSUME IsArray(r) PROVE FALSE
      OBVIOUS
    <2>1. \E j \in DOMAIN Q : j < 1 /\ Q[j].id = x
      BY <1>1, <1>2, <1>3 DEF BeforeArrays, IsOther
    <2> QED
      BY <1>1, <2>1
  <1>6. CASE r.id = 0
    <2>1. r.type \in {"message", "line", "error"} /\ (r.type = "line" => Mon)
          /\ (r.id = 0 /\ r.type = "error" => Len(Q) = 1 /\ ~server.open)
      BY <1>1, <1>2, <1>6 DEF Answers, Answer
    <2>2. r.type = "error"
      BY <1>5, <2>1 DEF IsArray
    <2> QED
      BY <1>5, <1>6, <2>1, <2>2 DEF r
  <1>7. CASE r.id # 0
    <2>1. IsOther(r.id) /\ Pending(r.id)
      BY <1>5, <1>7, HeadAnswers DEF r
    <2>2. x <= r.id
      BY <1>3, <2>1
    <2>3. Pending(x)
      BY <1>3 DEF Pending
    <2>4. r.id <= x
      BY <1>3, <2>3, HeadBefore DEF r
    <2>5. x \in Nat
      BY <1>3, <2>3
    <2>6. r.id = x
      BY <1>4, <2>2, <2>4, <2>5
    <2> QED
      BY <1>5, <2>6 DEF r, x
  <1> QED
    BY <1>6, <1>7

\* A plain reply that none of the replies waits for.
LEMMA OtherHead ==
    ASSUME Types, Monitoring, Ordered, Pipeline, Unexpected, ~Mon, ~IsArray(Head(reader))
    PROVE  invalid # <<>> /\ Head(reader).id = Head(invalid).id /\ Subscribed
  <1> DEFINE r == Head(reader)
  <1>0. reader # <<>> /\ replies = <<>> /\ Live /\ r.type # "error"
    BY DEF Unexpected, Live
  <1>1. Q \in Seq(ReplyOf) /\ 1 \in DOMAIN Q /\ Q[1] = r
    BY <1>0, HeadOfQ
  <1>2. Answers(Q, server) /\ NotSubscribed(Q, obuf, server)
    BY <1>0, Piped
  <1>3. r.id \in Nat
    BY <1>0, HeadOfQ
  <1> HIDE DEF r
  <1>4. r.id # 0
    <2> SUFFICES ASSUME r.id = 0 PROVE FALSE
      OBVIOUS
    <2>1. r.type \in {"message", "line", "error"} /\ (r.type = "line" => Mon)
      BY <1>1, <1>2 DEF Answers, Answer
    <2> QED
      BY <1>0, <2>1 DEF IsArray, r
  <1>5. IsOther(r.id) /\ Pending(r.id)
    BY <1>0, <1>4, HeadAnswers DEF r
  <1>6. ~Waits(r.id, replies)
    BY <1>0 DEF Waits
  <1>7. Waits(r.id, invalid)
    BY <1>5, <1>6 DEF Pending
  <1>8. invalid # <<>>
    BY <1>7 DEF Waits
  <1>9. IsOther(Head(invalid).id) /\ Waits(Head(invalid).id, invalid) /\ Head(invalid).id <= r.id /\ Head(invalid).id \in Nat
    <2>1. IsOther(Head(invalid).id) /\ Waits(Head(invalid).id, invalid)
          /\ \A y : Pending(y) => Head(invalid).id <= y /\ y \in Nat
      BY <1>0, <1>8, HeadInvalid
    <2>2. Pending(Head(invalid).id)
      BY <2>1 DEF Pending
    <2> QED
      BY <1>5, <2>1, <2>2
  <1>10. r.id <= Head(invalid).id
    <2>1. Pending(Head(invalid).id)
      BY <1>9 DEF Pending
    <2> QED
      BY <1>0, <1>9, <2>1, HeadBefore DEF r
  <1>11. r.id = Head(invalid).id
    BY <1>3, <1>9, <1>10
  <1>12. Subscribed
    BY <1>2, <1>8 DEF NotSubscribed
  <1> QED
    BY <1>8, <1>11, <1>12 DEF r

\* A reply to a subscription, or a message, comes to a name that is registered.
LEMMA ArrayHead ==
    ASSUME Types, Monitoring, Ordered, Pipeline, Live, reader # <<>>, IsArray(Head(reader))
    PROVE  /\ Subscribed /\ ~Mon /\ replies = <<>>
           /\ Head(reader).p \in BOOLEAN /\ Head(reader).name \in Key
           /\ Registered(Head(reader).p, Head(reader).name)
  <1> DEFINE r == Head(reader)
  <1>1. Q \in Seq(ReplyOf) /\ 1 \in DOMAIN Q /\ Q[1] = r
    BY HeadOfQ
  <1>2. NotSubscribed(Q, obuf, server) /\ NamesRegistered(Q, obuf, server)
    BY Piped
  <1>3. r \in ReplyOf /\ r.name \in Key
    BY HeadTypes DEF Types
  <1>4. r.p \in BOOLEAN
    BY <1>3 DEF ReplyOf
  <1>5. Subscribed
    BY <1>1, <1>2 DEF NotSubscribed
  <1>6. ~Mon
    BY <1>5 DEF Monitoring
  <1>7. replies = <<>>
    BY <1>6, OwnHead
  <1>8. Registered(r.p, r.name)
    BY <1>1, <1>2 DEF NamesRegistered
  <1> QED
    BY <1>3, <1>4, <1>5, <1>6, <1>7, <1>8

(***************************************************************************)
(* How the steps move the pipeline.                                        *)
(***************************************************************************)
\* Those who wait are the same, as far as commands that wait for a reply go.
SameWaits == /\ \A x \in DOMAIN issued : issued[x].op \in Other =>
                  (Waits(x, replies') <=> Waits(x, replies)) /\ (Waits(x, invalid') <=> Waits(x, invalid))
             /\ invalid = <<>> => invalid' = <<>>

LEMMA PipeSame ==
    ASSUME Pipeline, Live, UNCHANGED <<issued, last, obuf>>, Q' = Q, SameWaits,
           server' = server \/ server' = [server EXCEPT !.open = FALSE], ServerTypes(server),
           Subscribed' <=> Subscribed, Mon' <=> Mon
    PROVE  Pipeline'
  <1>1. /\ InOrder(Q, obuf) /\ Answers(Q, server) /\ InStep(Q, obuf, server) /\ BeforeArrays(Q, obuf, server)
        /\ NamesRegistered(Q, obuf, server) /\ Known(Q, obuf, server) /\ Unsubscribes(Q, obuf, server)
        /\ NotSubscribed(Q, obuf, server) /\ (server.monitor => Mon)
    BY Piped
  <1>2. server'.subs = server.subs /\ server'.monitor = server.monitor /\ (server'.open => server.open)
    BY DEF ServerTypes
  <1>3. InOrder(Q, obuf)'
    BY <1>1 DEF InOrder
  <1>4. Answers(Q, server)'
    BY <1>1, <1>2 DEF Answers, Answer
  <1>5. \A x \in DOMAIN issued : issued[x].op \in Other => (Pending(x)' <=> Pending(x))
    BY DEF SameWaits, Pending
  <1>6. InStep(Q, obuf, server)'
    <2>1. \A x : Waits(x, Q') = Waits(x, Q) /\ Waits(x, obuf') = Waits(x, obuf)
      OBVIOUS
    <2> QED
      BY <1>1, <1>2, <1>5, <2>1 DEF InStep
  <1>7. BeforeArrays(Q, obuf, server)'
    BY <1>1, <1>2 DEF BeforeArrays, SameWaits
  <1>8. NamesRegistered(Q, obuf, server)'
    BY <1>1, <1>2 DEF NamesRegistered, Registered
  <1>9. Known(Q, obuf, server)'
    BY <1>1, <1>2 DEF Known, Registered, Subscribes, Farewell
  <1>10. Unsubscribes(Q, obuf, server)'
    BY <1>1, <1>2 DEF Unsubscribes
  <1>11. NotSubscribed(Q, obuf, server)'
    BY <1>1, <1>2 DEF NotSubscribed, SameWaits
  <1> QED
    BY <1>1, <1>2, <1>3, <1>4, <1>6, <1>7, <1>8, <1>9, <1>10, <1>11 DEF Pipeline, Pipe

\* The first reply is taken: if a pending callback goes with it, it is the one
\* that waits for it, unless the connection is closed and nothing follows.
Takes(r) ==
    /\ reader # <<>> /\ reader' = Tail(reader) /\ UNCHANGED <<inbuf, obuf, server, issued>>
    /\ \A x \in DOMAIN issued : issued[x].op \in Other =>
          /\ Waits(x, replies') => Waits(x, replies)
          /\ Pending(x)' => Pending(x) /\ x # r.id
          /\ Pending(x) /\ ~Pending(x)' => x = r.id \/ (Len(Q) = 1 /\ ~server.open)
    /\ \A p \in BOOLEAN, n \in Key :
          last'[p][n] = IF r.type = "unsubscribe" /\ p = r.p /\ n = r.name THEN 0 ELSE last[p][n]
    /\ Subscribed' <=> Subscribed /\ ~(r.type = "unsubscribe" /\ r.count = 0)
    /\ Mon' <=> Mon
    /\ invalid = <<>> => invalid' = <<>>

LEMMA TailOfQ ==
    ASSUME Types, reader # <<>>, reader' = Tail(reader), inbuf' = inbuf
    PROVE  /\ Q' \in Seq(ReplyOf)
           /\ \A i \in DOMAIN Q' : i + 1 \in DOMAIN Q /\ Q'[i] = Q[i + 1] /\ i \in Nat /\ i > 0
           /\ \A i \in DOMAIN Q : i # 1 => i - 1 \in DOMAIN Q' /\ Q'[i - 1] = Q[i] /\ i > 1
           /\ Len(Q) = 1 => DOMAIN Q' = {}
           /\ \A i \in DOMAIN Q : i \in Nat /\ i > 0
  <1>1. Q \in Seq(ReplyOf) /\ Q # <<>> /\ Tail(Q) = Tail(reader) \o inbuf
    BY HeadOfQ
  <1>2. Q' = Tail(Q)
    BY <1>1 DEF Q
  <1> HIDE DEF Q
  <1>3. /\ Tail(Q) \in Seq(ReplyOf)
        /\ \A i \in DOMAIN Tail(Q) : i + 1 \in DOMAIN Q /\ Tail(Q)[i] = Q[i + 1] /\ i \in Nat /\ i > 0
        /\ \A i \in DOMAIN Q : i # 1 => i - 1 \in DOMAIN Tail(Q) /\ Tail(Q)[i - 1] = Q[i] /\ i > 1
        /\ Len(Q) = 1 => DOMAIN Tail(Q) = {}
        /\ \A i \in DOMAIN Q : i \in Nat /\ i > 0
    <2>1. /\ Tail(Q) \in Seq(ReplyOf)
          /\ \A i \in DOMAIN Tail(Q) : i + 1 \in DOMAIN Q /\ Tail(Q)[i] = Q[i + 1]
          /\ \A i \in DOMAIN Q : i # 1 => i - 1 \in DOMAIN Tail(Q) /\ Tail(Q)[i - 1] = Q[i]
      BY <1>1, TailItems
    <2>2. \A i \in DOMAIN Q : i \in Nat /\ i > 0
      BY <1>1
    <2>3. \A i \in DOMAIN Tail(Q) : i \in Nat /\ i > 0
      BY <2>1
    <2>4. \A i \in DOMAIN Q : i # 1 => i > 1
      BY <2>2
    <2>5. ASSUME Len(Q) = 1 PROVE DOMAIN Tail(Q) = {}
      <3>1. \A i \in DOMAIN Q : i \in Nat /\ i <= Len(Q)
        BY <1>1
      <3>2. \A i \in DOMAIN Tail(Q) : i + 1 <= 1 /\ i > 0 /\ i \in Nat
        BY <2>1, <2>3, <2>5, <3>1
      <3>3. \A i \in DOMAIN Tail(Q) : FALSE
        BY <3>2
      <3> QED
        BY <3>3
    <2> QED
      BY <2>1, <2>2, <2>3, <2>4, <2>5
  <1> QED
    BY <1>2, <1>3

LEMMA PipeTail ==
    ASSUME Types, Commands, Monitoring, Ordered, Pipeline, Live, Takes(Head(reader))
    PROVE  Pipeline'
  <1> DEFINE r == Head(reader)
  <1>0. reader # <<>> /\ reader' = Tail(reader) /\ UNCHANGED <<inbuf, obuf, server, issued>>
    BY DEF Takes
  <1>1. /\ InOrder(Q, obuf) /\ Answers(Q, server) /\ InStep(Q, obuf, server) /\ BeforeArrays(Q, obuf, server)
        /\ NamesRegistered(Q, obuf, server) /\ Known(Q, obuf, server) /\ Unsubscribes(Q, obuf, server)
        /\ NotSubscribed(Q, obuf, server) /\ (server.monitor => Mon)
    BY Piped
  <1>2. /\ Q' \in Seq(ReplyOf)
        /\ \A i \in DOMAIN Q' : i + 1 \in DOMAIN Q /\ Q'[i] = Q[i + 1] /\ i \in Nat /\ i > 0
        /\ \A i \in DOMAIN Q : i # 1 => i - 1 \in DOMAIN Q' /\ Q'[i - 1] = Q[i] /\ i > 1
        /\ Len(Q) = 1 => DOMAIN Q' = {}
        /\ \A i \in DOMAIN Q : i \in Nat /\ i > 0
    BY <1>0, TailOfQ
  <1>3. 1 \in DOMAIN Q /\ Q[1] = r /\ r \in ReplyOf /\ r.id \in Nat /\ Q \in Seq(ReplyOf)
    BY <1>0, HeadOfQ
  <1>4. issued \in Seq(Command) /\ \A x \in DOMAIN issued : x \in Nat /\ x > 0 /\ x <= Len(issued)
    <2>1. issued \in Seq(Command)
      BY DEF Types, WireTypes
    <2> QED
      BY <2>1
  <1> HIDE DEF r
  <1>5. Takes(r)
    BY DEF r
  <1>6. \A i \in DOMAIN Q : Q[i].id \in Nat
    BY <1>3, ReplyFields
  <1>7. ASSUME NEW x, Waits(x, Q') PROVE Waits(x, Q)
    BY <1>2, <1>7 DEF Waits
  <1>8. ASSUME NEW x, Waits(x, Q), x # r.id PROVE Waits(x, Q')
    <2>1. PICK i \in DOMAIN Q : Q[i].id = x
      BY <1>8 DEF Waits
    <2>2. i # 1
      BY <1>3, <1>8, <2>1
    <2>3. i - 1 \in DOMAIN Q' /\ Q'[i - 1].id = x
      BY <1>2, <2>1, <2>2
    <2> QED
      BY <2>3 DEF Waits
  <1>9. ASSUME NEW x \in DOMAIN issued, issued[x].op \in Other, Waits(x, Q') PROVE x # r.id
    <2> SUFFICES ASSUME x = r.id PROVE FALSE
      OBVIOUS
    <2>1. PICK i \in DOMAIN Q' : Q'[i].id = x
      BY <1>9 DEF Waits
    <2>2. i + 1 \in DOMAIN Q /\ Q[i + 1].id = x /\ 1 < i + 1 /\ x > 0
      BY <1>2, <1>4, <2>1
    <2>3. ~IsArray(Q[i + 1])
      <3>1. Answer(Q[i + 1])
        BY <1>1, <2>2 DEF Answers
      <3> QED
        BY <1>9, <2>2, <3>1 DEF Answer, OfPubSub, Other, IsArray
    <2>4. Q[1].id < Q[i + 1].id
      BY <1>1, <1>3, <2>2, <2>3 DEF InOrder
    <2> QED
      BY <1>3, <2>2, <2>4
  <1>10. InOrder(Q, obuf)'
    <2>1. ASSUME NEW i \in DOMAIN Q', NEW j \in DOMAIN Q', i < j, Q'[i].id > 0, Q'[j].id > 0
          PROVE  Q'[i].id <= Q'[j].id /\ (~IsArray(Q'[j]) => Q'[i].id < Q'[j].id)
      <3>1. i + 1 < j + 1 /\ i + 1 \in DOMAIN Q /\ j + 1 \in DOMAIN Q /\ Q'[i] = Q[i + 1] /\ Q'[j] = Q[j + 1]
        BY <1>2, <2>1
      <3> QED
        BY <1>1, <2>1, <3>1 DEF InOrder
    <2>2. \A i \in DOMAIN Q', k \in DOMAIN obuf : Q'[i].id < obuf[k].id
      BY <1>1, <1>2 DEF InOrder
    <2> QED
      BY <1>0, <1>1, <2>1, <2>2 DEF InOrder
  <1>11. Answers(Q, server)'
    <2>1. ASSUME NEW i \in DOMAIN Q', Q'[i].id = 0, Q'[i].type = "error" PROVE FALSE
      BY <1>1, <1>2, <2>1 DEF Answers
    <2>2. \A i \in DOMAIN Q' : Answer(Q'[i]) /\ (Q'[i].type = "line" => Mon)
      BY <1>1, <1>2 DEF Answers
    <2>3. Mon' <=> Mon
      BY <1>5 DEF Takes
    <2> QED
      BY <1>0, <2>1, <2>2, <2>3 DEF Answers, Answer
  <1>12. InStep(Q, obuf, server)'
    <2> SUFFICES ASSUME NEW x \in DOMAIN issued, issued[x].op \in Other
                 PROVE  /\ Waits(x, Q') => Pending(x)'
                        /\ server.open /\ Pending(x)' => Waits(x, Q') \/ Waits(x, obuf)
                        /\ server.open /\ Waits(x, obuf) => Pending(x)'
                        /\ Pending(x)' /\ ~Waits(x, Q') => \A i \in DOMAIN Q' : Q'[i].id < x
      BY <1>0 DEF InStep
    <2>1. /\ Pending(x)' => Pending(x) /\ x # r.id
          /\ Pending(x) /\ ~Pending(x)' => x = r.id \/ (Len(Q) = 1 /\ ~server.open)
      BY <1>5 DEF Takes
    <2>2. /\ Waits(x, Q) => Pending(x)
          /\ server.open /\ Pending(x) => Waits(x, Q) \/ Waits(x, obuf)
          /\ server.open /\ Waits(x, obuf) => Pending(x)
          /\ Pending(x) /\ ~Waits(x, Q) => \A i \in DOMAIN Q : Q[i].id < x
      BY <1>1 DEF InStep
    <2>3. Waits(x, Q') => Pending(x)'
      <3> SUFFICES ASSUME Waits(x, Q') PROVE Pending(x)'
        OBVIOUS
      <3>1. Waits(x, Q) /\ x # r.id /\ DOMAIN Q' # {}
        BY <1>7, <1>9 DEF Waits
      <3> QED
        BY <1>2, <2>1, <2>2, <3>1
    <2>4. server.open /\ Pending(x)' => Waits(x, Q') \/ Waits(x, obuf)
      BY <1>8, <2>1, <2>2
    <2>5. Waits(x, obuf) => x # r.id
      <3> SUFFICES ASSUME NEW k \in DOMAIN obuf, obuf[k].id = x PROVE x # r.id
        BY DEF Waits
      <3>1. r.id < x
        BY <1>1, <1>3 DEF InOrder
      <3> QED
        BY <1>3, <1>4, <3>1
    <2>6. server.open /\ Waits(x, obuf) => Pending(x)'
      BY <2>1, <2>2, <2>5
    <2>7. Pending(x)' /\ ~Waits(x, Q') => \A i \in DOMAIN Q' : Q'[i].id < x
      <3> SUFFICES ASSUME Pending(x)', ~Waits(x, Q') PROVE \A i \in DOMAIN Q' : Q'[i].id < x
        OBVIOUS
      <3>1. ~Waits(x, Q)
        BY <1>8, <2>1
      <3>2. \A i \in DOMAIN Q : Q[i].id < x
        BY <2>1, <2>2, <3>1
      <3> QED
        BY <1>2, <3>2
    <2> QED
      BY <2>3, <2>4, <2>6, <2>7
  <1>13. BeforeArrays(Q, obuf, server)'
    <2> SUFFICES ASSUME NEW x \in DOMAIN issued, issued[x].op \in Other, Waits(x, replies')
                 PROVE  /\ \A i \in DOMAIN Q' : IsArray(Q'[i]) => \E j \in DOMAIN Q' : j < i /\ Q'[j].id = x
                        /\ server.open /\ server.subs # {} => Waits(x, Q')
                        /\ \A k \in DOMAIN obuf : OfPubSub(obuf[k]) => x < obuf[k].id
      BY <1>0 DEF BeforeArrays
    <2>1. Waits(x, replies) /\ x # r.id
      <3>1. Pending(x)'
        BY DEF Pending
      <3> QED
        BY <1>5, <3>1 DEF Takes
    <2>2. /\ \A i \in DOMAIN Q : IsArray(Q[i]) => \E j \in DOMAIN Q : j < i /\ Q[j].id = x
          /\ server.open /\ server.subs # {} => Waits(x, Q)
          /\ \A k \in DOMAIN obuf : OfPubSub(obuf[k]) => x < obuf[k].id
      BY <1>1, <2>1 DEF BeforeArrays
    <2>3. ASSUME NEW i \in DOMAIN Q', IsArray(Q'[i]) PROVE \E j \in DOMAIN Q' : j < i /\ Q'[j].id = x
      <3>1. i + 1 \in DOMAIN Q /\ Q'[i] = Q[i + 1] /\ i \in Nat
        BY <1>2
      <3>2. PICK j \in DOMAIN Q : j < i + 1 /\ Q[j].id = x
        BY <2>2, <2>3, <3>1
      <3>3. j # 1
        BY <1>3, <2>1, <3>2
      <3>4. j - 1 \in DOMAIN Q' /\ Q'[j - 1].id = x /\ j - 1 < i
        BY <1>2, <3>1, <3>2, <3>3
      <3> QED
        BY <3>4
    <2>4. server.open /\ server.subs # {} => Waits(x, Q')
      BY <1>8, <2>1, <2>2
    <2> QED
      BY <2>2, <2>3, <2>4
  <1>14. r.type = "unsubscribe" =>
            /\ r.id = Len(issued) /\ obuf = <<>>
            /\ \A j \in DOMAIN Q : 1 < j /\ IsArray(Q[j]) => Q[j].p # r.p \/ Q[j].name # r.name
            /\ <<r.p, r.name>> \notin server.subs
            /\ r.count = 0 => server.subs = {} /\ \A j \in DOMAIN Q : 1 < j => ~IsArray(Q[j])
    <2> SUFFICES ASSUME r.type = "unsubscribe"
                 PROVE  /\ r.id = Len(issued) /\ obuf = <<>>
                        /\ \A j \in DOMAIN Q : 1 < j /\ IsArray(Q[j]) => Q[j].p # r.p \/ Q[j].name # r.name
                        /\ <<r.p, r.name>> \notin server.subs
                        /\ r.count = 0 => server.subs = {} /\ \A j \in DOMAIN Q : 1 < j => ~IsArray(Q[j])
      OBVIOUS
    <2>1. /\ r.id = Len(issued)
          /\ \A j \in DOMAIN Q : 1 < j /\ IsArray(Q[j]) => Q[j].p # r.p \/ Q[j].name # r.name
          /\ <<r.p, r.name>> \notin server.subs
          /\ r.count = 0 => server.subs = {} /\ \A j \in DOMAIN Q : 1 < j => ~IsArray(Q[j])
      BY <1>1, <1>3 DEF Unsubscribes
    <2>2. obuf \in Seq(Command)
      BY DEF Types, WireTypes
    <2>3. \A k \in DOMAIN obuf : FALSE
      <3>1. \A k \in DOMAIN obuf : obuf[k].id \in DOMAIN issued /\ Q[1].id < obuf[k].id
        BY <1>1, <1>3 DEF InOrder
      <3> QED
        BY <1>3, <1>4, <2>1, <3>1
    <2>4. obuf = <<>>
      BY <2>2, <2>3
    <2> QED
      BY <2>1, <2>4
  <1>15. NamesRegistered(Q, obuf, server)'
    <2>1. \A p \in BOOLEAN, n \in Key : Registered(p, n)' <=> Registered(p, n) /\ ~(r.type = "unsubscribe" /\ p = r.p /\ n = r.name)
      BY <1>5 DEF Takes, Registered
    <2>2. ASSUME NEW i \in DOMAIN Q', IsArray(Q'[i]) PROVE last'[Q'[i].p][Q'[i].name] # 0
      <3>1. i + 1 \in DOMAIN Q /\ Q'[i] = Q[i + 1] /\ 1 < i + 1
        BY <1>2
      <3>2. Registered(Q'[i].p, Q'[i].name)
        BY <1>1, <2>2, <3>1 DEF NamesRegistered
      <3>3. r.type = "unsubscribe" => ~(Q'[i].p = r.p /\ Q'[i].name = r.name)
        BY <1>14, <2>2, <3>1
      <3>4. Q'[i].p \in BOOLEAN /\ Q'[i].name \in Key
        <4>1. Q'[i] \in ReplyOf
          BY <1>2
        <4>2. Q'[i].name \in Key
          <5>1. Named(reader) /\ Named(inbuf) /\ reader \in Seq(ReplyOf) /\ inbuf \in Seq(ReplyOf)
            BY DEF Types, WireTypes
          <5>2. 0 \in Nat /\ 0 <= Len(reader)
            BY <5>1
          <5>3. Named(reader \o inbuf)
            BY <5>1, <5>2, NamedParts
          <5> QED
            BY <2>2, <3>1, <5>3 DEF Named, Q
        <4> QED
          BY <4>1, <4>2, ReplyFields
      <3> HIDE DEF Registered
      <3>5. \A p \in BOOLEAN, n \in Key : Registered(p, n) /\ ~(r.type = "unsubscribe" /\ p = r.p /\ n = r.name) => last'[p][n] # 0
        BY <1>5 DEF Takes, Registered
      <3> QED
        BY <3>2, <3>3, <3>4, <3>5
    <2>3. \A p \in BOOLEAN, n \in Key : <<p, n>> \in server.subs => Registered(p, n)'
      BY <1>1, <1>14, <2>1 DEF NamesRegistered
    <2>4. \A k \in DOMAIN obuf : OfPubSub(obuf[k]) => \A i \in DOMAIN obuf[k].names : last'[obuf[k].p][obuf[k].names[i]] # 0
      <3>1. ASSUME NEW k \in DOMAIN obuf, OfPubSub(obuf[k]), NEW i \in DOMAIN obuf[k].names
            PROVE  last'[obuf[k].p][obuf[k].names[i]] # 0
        <4>1. Registered(obuf[k].p, obuf[k].names[i])
          BY <1>1, <3>1 DEF NamesRegistered
        <4>2. r.type # "unsubscribe"
          BY <1>14
        <4>3. obuf[k].p \in BOOLEAN /\ obuf[k].names \in Seq(Key)
          <5>1. obuf[k] \in Command
            BY DEF Types, WireTypes
          <5> QED
            BY <5>1, CommandFields
        <4>4. obuf[k].names[i] \in Key
          BY <4>3
        <4> QED
          BY <1>5, <4>1, <4>2, <4>3, <4>4 DEF Takes, Registered
      <3> QED
        BY <3>1
    <2> QED
      BY <1>0, <2>2, <2>3, <2>4 DEF NamesRegistered, Registered
  <1>16. Known(Q, obuf, server)'
    <2> SUFFICES ASSUME server.open, NEW p \in BOOLEAN, NEW n \in Key, last'[p][n] # 0
                 PROVE  <<p, n>> \in server.subs \/ Subscribes(obuf, p, n) \/ Farewell(Q', p, n)
      BY <1>0 DEF Known, Registered, Subscribes, Farewell
    <2>1. last[p][n] # 0 /\ ~(r.type = "unsubscribe" /\ p = r.p /\ n = r.name)
      BY <1>5 DEF Takes
    <2>2. <<p, n>> \in server.subs \/ Subscribes(obuf, p, n) \/ Farewell(Q, p, n)
      BY <1>1, <2>1 DEF Known, Registered
    <2>3. Farewell(Q, p, n) => Farewell(Q', p, n)
      <3> SUFFICES ASSUME NEW i \in DOMAIN Q, Q[i].type = "unsubscribe", Q[i].p = p, Q[i].name = n
                   PROVE  Farewell(Q', p, n)
        BY DEF Farewell
      <3>1. i # 1
        BY <1>3, <2>1
      <3>2. i - 1 \in DOMAIN Q' /\ Q'[i - 1] = Q[i]
        BY <1>2, <3>1
      <3> QED
        BY <3>2 DEF Farewell
    <2> QED
      BY <2>2, <2>3
  <1>17. Unsubscribes(Q, obuf, server)'
    <2>1. ASSUME NEW i \in DOMAIN Q', Q'[i].type = "unsubscribe"
          PROVE  /\ Q'[i].id = Len(issued)
                 /\ \A j \in DOMAIN Q' : i < j /\ IsArray(Q'[j]) => Q'[j].p # Q'[i].p \/ Q'[j].name # Q'[i].name
                 /\ <<Q'[i].p, Q'[i].name>> \notin server.subs
                 /\ Q'[i].count = 0 => server.subs = {} /\ \A j \in DOMAIN Q' : i < j => ~IsArray(Q'[j])
      <3>1. i + 1 \in DOMAIN Q /\ Q'[i] = Q[i + 1] /\ i \in Nat
        BY <1>2
      <3>2. \A j \in DOMAIN Q' : i < j => j + 1 \in DOMAIN Q /\ Q'[j] = Q[j + 1] /\ i + 1 < j + 1
        BY <1>2, <3>1
      <3>3. /\ Q[i + 1].id = Len(issued)
            /\ \A j \in DOMAIN Q : i + 1 < j /\ IsArray(Q[j]) => Q[j].p # Q[i + 1].p \/ Q[j].name # Q[i + 1].name
            /\ <<Q[i + 1].p, Q[i + 1].name>> \notin server.subs
            /\ Q[i + 1].count = 0 => server.subs = {} /\ \A j \in DOMAIN Q : i + 1 < j => ~IsArray(Q[j])
        BY <1>1, <2>1, <3>1 DEF Unsubscribes
      <3> QED
        BY <3>1, <3>2, <3>3
    <2>2. \A k \in DOMAIN obuf : obuf[k].op = "unsubscribe" => obuf[k].id = Len(issued) /\ IsInjective(obuf[k].names)
      BY <1>1 DEF Unsubscribes
    <2> QED
      BY <1>0, <2>1, <2>2 DEF Unsubscribes
  <1>18. NotSubscribed(Q, obuf, server)'
    <2> SUFFICES ASSUME ~Subscribed'
                 PROVE  /\ server.subs = {} /\ invalid' = <<>>
                        /\ \A i \in DOMAIN Q' : ~IsArray(Q'[i])
                        /\ \A k \in DOMAIN obuf : ~OfPubSub(obuf[k])
      BY <1>0 DEF NotSubscribed
    <2>1. CASE ~Subscribed
      <3>1. server.subs = {} /\ invalid = <<>> /\ (\A i \in DOMAIN Q : ~IsArray(Q[i])) /\ \A k \in DOMAIN obuf : ~OfPubSub(obuf[k])
        BY <1>1, <2>1 DEF NotSubscribed
      <3> QED
        BY <1>2, <1>5, <3>1 DEF Takes
    <2>2. CASE Subscribed
      <3>1. r.type = "unsubscribe" /\ r.count = 0
        BY <1>5, <2>2 DEF Takes
      <3>2. server.subs = {} /\ obuf = <<>> /\ r.id = Len(issued) /\ \A i \in DOMAIN Q' : ~IsArray(Q'[i])
        BY <1>2, <1>14, <3>1
      <3>3. invalid = <<>>
        <4> SUFFICES ASSUME invalid # <<>> PROVE FALSE
          OBVIOUS
        <4>1. ~Mon
          BY <2>2 DEF Monitoring
        <4>2. invalid \in Seq(Callback)
          BY DEF Types, LocalTypes
        <4>3. 1 \in DOMAIN invalid /\ IsOther(invalid[1].id) /\ Waits(invalid[1].id, invalid)
          BY <4>1, <4>2 DEF Ordered, Waits
        <4>4. r.id <= invalid[1].id
          BY <1>0, <4>3, HeadBefore DEF Pending, r
        <4>5. invalid[1].id \in DOMAIN issued /\ issued[invalid[1].id].op \in Other
          BY <4>3 DEF IsOther
        <4>6. invalid[1].id = r.id /\ r.id > 0
          BY <1>3, <1>4, <3>2, <4>4, <4>5
        <4>7. Answer(r)
          BY <1>1, <1>3 DEF Answers
        <4> QED
          BY <3>1, <4>5, <4>6, <4>7 DEF Answer, OfPubSub, Other
      <3> QED
        BY <1>5, <3>2, <3>3 DEF Takes
    <2> QED
      BY <2>1, <2>2
  <1>19. server'.monitor => Mon'
    BY <1>0, <1>1, <1>5 DEF Takes
  <1> QED
    BY <1>10, <1>11, <1>12, <1>13, <1>15, <1>16, <1>17, <1>18, <1>19 DEF Pipeline, Pipe

\* The first command that is not yet written.
LEMMA HeadCommand ==
    ASSUME Types, NEW q, NEW o \in Seq(Command), o # <<>>, InOrder(q, o)
    PROVE  /\ 1 \in DOMAIN o /\ Head(o) = o[1] /\ Head(o) \in Command /\ Tail(o) \in Seq(Command)
           /\ Head(o).id \in DOMAIN issued /\ Head(o) = issued[Head(o).id]
           /\ Head(o).id \in Nat /\ Head(o).id > 0 /\ Head(o).id <= Len(issued) /\ Len(issued) \in Nat
           /\ \A k \in DOMAIN Tail(o) : k + 1 \in DOMAIN o /\ Tail(o)[k] = o[k + 1] /\ Head(o).id < Tail(o)[k].id
           /\ \A k \in DOMAIN o : k # 1 => k - 1 \in DOMAIN Tail(o) /\ Tail(o)[k - 1] = o[k]
           /\ \A i \in DOMAIN q : q[i].id < Head(o).id
           /\ \A x : Waits(x, o) <=> x = Head(o).id \/ Waits(x, Tail(o))
           /\ \A x : Waits(x, o) => Head(o).id <= x /\ x \in Nat
  <1> DEFINE t == Tail(o)
             cmd == Head(o)
  <1>1. /\ \A k \in DOMAIN t : k + 1 \in DOMAIN o /\ t[k] = o[k + 1]
        /\ 1 \in DOMAIN o /\ cmd = o[1] /\ cmd \in Command /\ t \in Seq(Command)
        /\ \A k \in DOMAIN o : k # 1 => k - 1 \in DOMAIN t /\ t[k - 1] = o[k]
    BY TailItems
  <1>2. issued \in Seq(Command)
    BY DEF Types, WireTypes
  <1>3. cmd.id \in DOMAIN issued /\ cmd = issued[cmd.id] /\ Increasing(o) /\ \A i \in DOMAIN q : q[i].id < cmd.id
    BY <1>1 DEF InOrder
  <1>4. \A k \in DOMAIN o : o[k].id \in Nat /\ k \in Nat /\ (k # 1 => 1 < k)
    <2>1. \A k \in DOMAIN o : o[k] \in Command /\ k \in Nat /\ (k # 1 => 1 < k)
      OBVIOUS
    <2> QED
      BY <2>1, CommandFields
  <1>5. cmd.id \in Nat /\ cmd.id > 0 /\ cmd.id <= Len(issued) /\ Len(issued) \in Nat
    BY <1>2, <1>3
  <1> HIDE DEF t, cmd
  <1>6. \A k \in DOMAIN o : k # 1 => cmd.id < o[k].id
    BY <1>1, <1>3, <1>4 DEF Increasing
  <1>7. \A k \in DOMAIN t : k \in Nat /\ k > 0
    BY <1>1
  <1>8. ASSUME NEW k \in DOMAIN t PROVE cmd.id < t[k].id
    <2>1. k + 1 \in DOMAIN o /\ t[k] = o[k + 1] /\ k + 1 # 1
      BY <1>1, <1>7
    <2> QED
      BY <1>6, <2>1
  <1>9. ASSUME NEW x PROVE Waits(x, o) <=> x = cmd.id \/ Waits(x, t)
    <2>1. ASSUME Waits(x, o) PROVE x = cmd.id \/ Waits(x, t)
      <3>1. PICK k \in DOMAIN o : o[k].id = x
        BY <2>1 DEF Waits
      <3>2. k = 1 \/ (k - 1 \in DOMAIN t /\ t[k - 1].id = x)
        BY <1>1, <3>1
      <3> QED
        BY <1>1, <3>1, <3>2 DEF Waits
    <2>2. ASSUME Waits(x, t) PROVE Waits(x, o)
      <3>1. PICK k \in DOMAIN t : t[k].id = x
        BY <2>2 DEF Waits
      <3>2. k + 1 \in DOMAIN o /\ o[k + 1].id = x
        BY <1>1, <3>1
      <3> QED
        BY <3>2 DEF Waits
    <2>3. Waits(cmd.id, o)
      BY <1>1 DEF Waits
    <2> QED
      BY <2>1, <2>2, <2>3
  <1>10. ASSUME NEW x, Waits(x, o) PROVE cmd.id <= x /\ x \in Nat
    BY <1>1, <1>4, <1>6, <1>10 DEF Waits
  <1> QED
    BY <1>1, <1>3, <1>5, <1>8, <1>9, <1>10 DEF t, cmd

\* The rest of the commands is in order too.
LEMMA TailCommands ==
    ASSUME Types, NEW q, NEW o \in Seq(Command), o # <<>>, NEW srv, Pipe(q, o, srv)
    PROVE  /\ Increasing(Tail(o)) /\ \A k \in DOMAIN Tail(o) : Tail(o)[k].id \in DOMAIN issued /\ Tail(o)[k] = issued[Tail(o)[k].id]
           /\ \A k \in DOMAIN Tail(o) : OfPubSub(Tail(o)[k]) =>
                 \A i \in DOMAIN Tail(o)[k].names : Registered(Tail(o)[k].p, Tail(o)[k].names[i])
           /\ \A k \in DOMAIN Tail(o) : Tail(o)[k].op = "unsubscribe" =>
                 Tail(o)[k].id = Len(issued) /\ IsInjective(Tail(o)[k].names)
           /\ \A i \in DOMAIN q : q[i].type # "unsubscribe"
  <1>1. InOrder(q, o) /\ NamesRegistered(q, o, srv) /\ Unsubscribes(q, o, srv)
    BY DEF Pipe
  <1>2. \A k \in DOMAIN Tail(o) : k + 1 \in DOMAIN o /\ Tail(o)[k] = o[k + 1] /\ k \in Nat
    BY <1>1, HeadCommand
  <1>3. Increasing(o)
    BY <1>1 DEF InOrder
  <1>4. ASSUME NEW i \in DOMAIN Tail(o), NEW j \in DOMAIN Tail(o), i < j PROVE Tail(o)[i].id < Tail(o)[j].id
    <2>1. i + 1 \in DOMAIN o /\ j + 1 \in DOMAIN o /\ i + 1 < j + 1 /\ Tail(o)[i] = o[i + 1] /\ Tail(o)[j] = o[j + 1]
      BY <1>2, <1>4
    <2> QED
      BY <1>3, <2>1 DEF Increasing
  <1>5. \A k \in DOMAIN Tail(o) : Tail(o)[k].id \in DOMAIN issued /\ Tail(o)[k] = issued[Tail(o)[k].id]
    BY <1>1, <1>2 DEF InOrder
  <1>6. \A k \in DOMAIN Tail(o) : OfPubSub(Tail(o)[k]) =>
                 \A i \in DOMAIN Tail(o)[k].names : Registered(Tail(o)[k].p, Tail(o)[k].names[i])
    BY <1>1, <1>2 DEF NamesRegistered
  <1>7. \A k \in DOMAIN Tail(o) : Tail(o)[k].op = "unsubscribe" =>
                 Tail(o)[k].id = Len(issued) /\ IsInjective(Tail(o)[k].names)
    BY <1>1, <1>2 DEF Unsubscribes
  <1>8. ASSUME NEW i \in DOMAIN q, q[i].type = "unsubscribe" PROVE FALSE
    <2>1. q[i].id = Len(issued)
      BY <1>1, <1>8 DEF Unsubscribes
    <2>2. q[i].id < Head(o).id /\ Head(o).id <= Len(issued) /\ Head(o).id \in Nat /\ Len(issued) \in Nat
      BY <1>1, HeadCommand
    <2> QED
      BY <2>1, <2>2
  <1> QED
    BY <1>4, <1>5, <1>6, <1>7, <1>8 DEF Increasing

\* The server has closed: the command is lost.
LEMMA PipeClosed ==
    ASSUME Types, NEW q, NEW o \in Seq(Command), o # <<>>, NEW srv, Pipe(q, o, srv), ~srv.open
    PROVE  Pipe(q, Tail(o), srv)
  <1>1. /\ InOrder(q, o) /\ Answers(q, srv) /\ InStep(q, o, srv) /\ BeforeArrays(q, o, srv)
        /\ NamesRegistered(q, o, srv) /\ Known(q, o, srv) /\ Unsubscribes(q, o, srv)
        /\ NotSubscribed(q, o, srv) /\ (srv.monitor => Mon)
    BY DEF Pipe
  <1>2. \A k \in DOMAIN Tail(o) : k + 1 \in DOMAIN o /\ Tail(o)[k] = o[k + 1]
    BY <1>1, HeadCommand
  <1>3. /\ Increasing(Tail(o)) /\ \A k \in DOMAIN Tail(o) : Tail(o)[k].id \in DOMAIN issued /\ Tail(o)[k] = issued[Tail(o)[k].id]
        /\ \A k \in DOMAIN Tail(o) : OfPubSub(Tail(o)[k]) =>
              \A i \in DOMAIN Tail(o)[k].names : Registered(Tail(o)[k].p, Tail(o)[k].names[i])
        /\ \A k \in DOMAIN Tail(o) : Tail(o)[k].op = "unsubscribe" =>
              Tail(o)[k].id = Len(issued) /\ IsInjective(Tail(o)[k].names)
    BY TailCommands
  <1>4. InOrder(q, Tail(o))
    <2>1. \A i \in DOMAIN q, k \in DOMAIN Tail(o) : q[i].id < Tail(o)[k].id
      BY <1>1, <1>2 DEF InOrder
    <2> QED
      BY <1>1, <1>3, <2>1 DEF InOrder
  <1>5. InStep(q, Tail(o), srv)
    BY <1>1 DEF InStep
  <1>6. BeforeArrays(q, Tail(o), srv)
    BY <1>1, <1>2 DEF BeforeArrays
  <1>7. NamesRegistered(q, Tail(o), srv)
    BY <1>1, <1>3 DEF NamesRegistered
  <1>8. Known(q, Tail(o), srv)
    BY DEF Known
  <1>9. Unsubscribes(q, Tail(o), srv)
    BY <1>1, <1>3 DEF Unsubscribes
  <1>10. NotSubscribed(q, Tail(o), srv)
    BY <1>1, <1>2 DEF NotSubscribed
  <1> QED
    BY <1>1, <1>4, <1>5, <1>6, <1>7, <1>8, <1>9, <1>10 DEF Pipe

\* The server answers a command that is no (un)subscription.
LEMMA PipePlain ==
    ASSUME Types, Monitoring, NEW q \in Seq(ReplyOf), NEW o \in Seq(Command), o # <<>>, NEW srv, ServerTypes(srv),
           Pipe(q, o, srv), srv.open, ~OfPubSub(Head(o)),
           NEW r, r = Plain("ok", Head(o).id) \/ r = Plain("error", Head(o).id),
           NEW v, v.subs = srv.subs, v.monitor => srv.monitor \/ Head(o).op = "monitor"
    PROVE  Pipe(Append(q, r), Tail(o), v)
  <1> DEFINE cmd == Head(o)
             t == Tail(o)
             Q2 == Append(q, r)
  <1>1. /\ InOrder(q, o) /\ Answers(q, srv) /\ InStep(q, o, srv) /\ BeforeArrays(q, o, srv)
        /\ NamesRegistered(q, o, srv) /\ Known(q, o, srv) /\ Unsubscribes(q, o, srv)
        /\ NotSubscribed(q, o, srv) /\ (srv.monitor => Mon)
    BY DEF Pipe
  <1>2. /\ 1 \in DOMAIN o /\ cmd = o[1] /\ cmd \in Command /\ t \in Seq(Command)
        /\ cmd.id \in DOMAIN issued /\ cmd = issued[cmd.id]
        /\ cmd.id \in Nat /\ cmd.id > 0
        /\ \A k \in DOMAIN t : k + 1 \in DOMAIN o /\ t[k] = o[k + 1] /\ cmd.id < t[k].id
        /\ \A k \in DOMAIN o : k # 1 => k - 1 \in DOMAIN t /\ t[k - 1] = o[k]
        /\ \A i \in DOMAIN q : q[i].id < cmd.id
        /\ \A x : Waits(x, o) <=> x = cmd.id \/ Waits(x, t)
    BY <1>1, HeadCommand
  <1>3. /\ Increasing(t) /\ \A k \in DOMAIN t : t[k].id \in DOMAIN issued /\ t[k] = issued[t[k].id]
        /\ \A k \in DOMAIN t : OfPubSub(t[k]) =>
              \A i \in DOMAIN t[k].names : Registered(t[k].p, t[k].names[i])
        /\ \A k \in DOMAIN t : t[k].op = "unsubscribe" =>
              t[k].id = Len(issued) /\ IsInjective(t[k].names)
        /\ \A i \in DOMAIN q : q[i].type # "unsubscribe"
    BY TailCommands
  <1>4. r \in ReplyOf /\ ~IsArray(r) /\ r.id = cmd.id /\ r.type \in {"ok", "error"}
    <2>1. \A type, id : Plain(type, id).type = type /\ Plain(type, id).id = id
      BY DEF Plain, Reply
    <2>2. PICK type \in {"ok", "error"} : r = Plain(type, cmd.id)
      OBVIOUS
    <2>3. r \in ReplyOf /\ ~IsArray(r)
      BY <1>2, <2>2, PlainReply
    <2> QED
      BY <2>1, <2>2, <2>3
  <1>5. ~OfPubSub(cmd)
    OBVIOUS
  <1>6. \A k \in DOMAIN t : t[k].id \in Nat
    <2>1. \A k \in DOMAIN t : t[k] \in Command
      BY <1>2
    <2> QED
      BY <2>1, CommandFields
  <1>7. \A i \in DOMAIN q : q[i].id \in Nat
    <2>1. \A i \in DOMAIN q : q[i] \in ReplyOf
      OBVIOUS
    <2> QED
      BY <2>1, ReplyFields
  <1> HIDE DEF cmd, t
  <1>8. /\ \A i \in DOMAIN Q2 : (i \in DOMAIN q /\ Q2[i] = q[i]) \/ (i = Len(q) + 1 /\ Q2[i] = r)
        /\ \A i \in DOMAIN q : i \in DOMAIN Q2 /\ Q2[i] = q[i] /\ i \in Nat /\ i < Len(q) + 1
        /\ Len(q) + 1 \in DOMAIN Q2 /\ Q2[Len(q) + 1] = r /\ Len(q) \in Nat
    BY <1>4, LastItem
  <1> HIDE DEF Q2
  <1>9. \A x : Waits(x, Q2) <=> Waits(x, q) \/ x = cmd.id
    BY <1>4, <1>8 DEF Waits
  <1>10. InOrder(Q2, t)
    <2>1. ASSUME NEW i \in DOMAIN Q2, NEW j \in DOMAIN Q2, i < j, Q2[i].id > 0, Q2[j].id > 0
          PROVE  Q2[i].id <= Q2[j].id /\ (~IsArray(Q2[j]) => Q2[i].id < Q2[j].id)
      <3>1. i \in DOMAIN q /\ Q2[i] = q[i]
        BY <1>8, <2>1
      <3>2. CASE j \in DOMAIN q /\ Q2[j] = q[j]
        BY <1>1, <2>1, <3>1, <3>2 DEF InOrder
      <3>3. CASE Q2[j] = r
        BY <1>2, <1>4, <1>7, <3>1, <3>3
      <3> QED
        BY <1>8, <3>2, <3>3
    <2>2. ASSUME NEW i \in DOMAIN Q2, NEW k \in DOMAIN t PROVE Q2[i].id < t[k].id
      <3>1. CASE i \in DOMAIN q /\ Q2[i] = q[i]
        BY <1>2, <1>6, <1>7, <3>1
      <3>2. CASE Q2[i] = r
        BY <1>2, <1>4, <3>2
      <3> QED
        BY <1>8, <3>1, <3>2
    <2> QED
      BY <1>3, <2>1, <2>2 DEF InOrder
  <1>11. Answers(Q2, v)
    <2>1. Answer(r) /\ r.id # 0 /\ r.type # "line"
      BY <1>2, <1>4, <1>5 DEF Answer
    <2>2. \A i \in DOMAIN q : Answer(q[i]) /\ ~(q[i].id = 0 /\ q[i].type = "error") /\ (q[i].type = "line" => Mon)
      BY <1>1 DEF Answers
    <2> QED
      BY <1>8, <2>1, <2>2 DEF Answers
  <1>12. InStep(Q2, t, v)
    <2> SUFFICES ASSUME NEW x \in DOMAIN issued, issued[x].op \in Other
                 PROVE  /\ Waits(x, Q2) => Pending(x)
                        /\ v.open /\ Pending(x) => Waits(x, Q2) \/ Waits(x, t)
                        /\ v.open /\ Waits(x, t) => Pending(x)
                        /\ Pending(x) /\ ~Waits(x, Q2) => \A i \in DOMAIN Q2 : Q2[i].id < x
      BY DEF InStep
    <2>1. /\ Waits(x, q) => Pending(x)
          /\ Pending(x) => Waits(x, q) \/ Waits(x, o)
          /\ Waits(x, o) => Pending(x)
      BY <1>1 DEF InStep
    <2>2. ASSUME Pending(x), ~Waits(x, Q2), NEW i \in DOMAIN Q2 PROVE Q2[i].id < x
      <3>1. Waits(x, t)
        BY <1>2, <1>9, <2>1, <2>2
      <3>2. PICK k \in DOMAIN t : t[k].id = x
        BY <3>1 DEF Waits
      <3>3. Q2[i].id < t[k].id
        BY <1>10 DEF InOrder
      <3> QED
        BY <3>2, <3>3
    <2> QED
      BY <1>2, <1>9, <2>1, <2>2
  <1>13. BeforeArrays(Q2, t, v)
    <2> SUFFICES ASSUME NEW x \in DOMAIN issued, issued[x].op \in Other, Waits(x, replies)
                 PROVE  /\ \A i \in DOMAIN Q2 : IsArray(Q2[i]) => \E j \in DOMAIN Q2 : j < i /\ Q2[j].id = x
                        /\ v.open /\ v.subs # {} => Waits(x, Q2)
                        /\ \A k \in DOMAIN t : OfPubSub(t[k]) => x < t[k].id
      BY DEF BeforeArrays
    <2>1. /\ \A i \in DOMAIN q : IsArray(q[i]) => \E j \in DOMAIN q : j < i /\ q[j].id = x
          /\ srv.subs # {} => Waits(x, q)
          /\ \A k \in DOMAIN o : OfPubSub(o[k]) => x < o[k].id
      BY <1>1 DEF BeforeArrays
    <2>2. ASSUME NEW i \in DOMAIN Q2, IsArray(Q2[i]) PROVE \E j \in DOMAIN Q2 : j < i /\ Q2[j].id = x
      BY <1>4, <1>8, <2>1, <2>2
    <2>3. v.open /\ v.subs # {} => Waits(x, Q2)
      BY <1>9, <2>1
    <2>4. \A k \in DOMAIN t : OfPubSub(t[k]) => x < t[k].id
      BY <1>2, <2>1
    <2> QED
      BY <2>2, <2>3, <2>4
  <1>14. NamesRegistered(Q2, t, v)
    <2>1. \A i \in DOMAIN Q2 : IsArray(Q2[i]) => Registered(Q2[i].p, Q2[i].name)
      BY <1>1, <1>4, <1>8 DEF NamesRegistered
    <2>2. \A p \in BOOLEAN, n \in Key : <<p, n>> \in v.subs => Registered(p, n)
      BY <1>1 DEF NamesRegistered
    <2> QED
      BY <1>3, <2>1, <2>2 DEF NamesRegistered
  <1>15. Known(Q2, t, v)
    <2> SUFFICES ASSUME NEW p \in BOOLEAN, NEW n \in Key, Registered(p, n)
                 PROVE  <<p, n>> \in v.subs \/ Subscribes(t, p, n) \/ Farewell(Q2, p, n)
      BY DEF Known
    <2>1. <<p, n>> \in srv.subs \/ Subscribes(o, p, n) \/ Farewell(q, p, n)
      BY <1>1 DEF Known
    <2>2. Subscribes(o, p, n) => Subscribes(t, p, n)
      <3>1. \A k \in DOMAIN o : o[k].op = "subscribe" => k # 1
        BY <1>2, <1>5 DEF OfPubSub
      <3> SUFFICES ASSUME NEW k \in DOMAIN o, o[k].op = "subscribe", o[k].p = p,
                          \E i \in DOMAIN o[k].names : o[k].names[i] = n
                   PROVE  Subscribes(t, p, n)
        BY DEF Subscribes
      <3>2. k - 1 \in DOMAIN t /\ t[k - 1] = o[k]
        BY <1>2, <3>1
      <3> QED
        BY <3>2 DEF Subscribes
    <2>3. Farewell(q, p, n) => Farewell(Q2, p, n)
      BY <1>8 DEF Farewell
    <2> QED
      BY <2>1, <2>2, <2>3
  <1>16. Unsubscribes(Q2, t, v)
    <2>1. \A i \in DOMAIN Q2 : Q2[i].type # "unsubscribe"
      BY <1>3, <1>4, <1>8
    <2> QED
      BY <1>3, <2>1 DEF Unsubscribes
  <1>17. NotSubscribed(Q2, t, v)
    <2> SUFFICES ASSUME ~Subscribed
                 PROVE  /\ v.subs = {} /\ invalid = <<>>
                        /\ \A i \in DOMAIN Q2 : ~IsArray(Q2[i])
                        /\ \A k \in DOMAIN t : ~OfPubSub(t[k])
      BY DEF NotSubscribed
    <2>1. srv.subs = {} /\ invalid = <<>> /\ (\A i \in DOMAIN q : ~IsArray(q[i])) /\ \A k \in DOMAIN o : ~OfPubSub(o[k])
      BY <1>1 DEF NotSubscribed
    <2> QED
      BY <1>2, <1>4, <1>8, <2>1
  <1>18. v.monitor => Mon
    <2>1. cmd.op = "monitor" => Mon
      BY <1>2 DEF Monitoring
    <2> QED
      BY <1>1, <2>1 DEF cmd
  <1> QED
    BY <1>10, <1>11, <1>12, <1>13, <1>14, <1>15, <1>16, <1>17, <1>18 DEF Pipe, t, Q2

\* The server answers an (un)subscription: one reply for each name.
LEMMA RepliesOfNames ==
    ASSUME NEW q \in Seq(ReplyOf), NEW cmd \in Command, NEW subs
    PROVE  LET Q2 == q \o PubSubReplies(cmd, subs)
               L  == Len(cmd.names)
           IN  /\ L \in Nat /\ Len(q) \in Nat
               /\ \A i \in DOMAIN Q2 : \/ i \in DOMAIN q /\ Q2[i] = q[i] /\ i <= Len(q) /\ i \in Nat
                                       \/ \E k \in 1..L : i = Len(q) + k
               /\ \A i \in DOMAIN q : i \in DOMAIN Q2 /\ Q2[i] = q[i]
               /\ \A k \in 1..L : /\ Len(q) + k \in DOMAIN Q2
                                  /\ Q2[Len(q) + k].type = cmd.op /\ Q2[Len(q) + k].p = cmd.p
                                  /\ Q2[Len(q) + k].name = cmd.names[k] /\ Q2[Len(q) + k].id = cmd.id
                                  /\ Q2[Len(q) + k].count = Cardinality(SubsAfter(cmd, subs, k))
  <1> DEFINE L == Len(cmd.names)
             f == PubSubReplies(cmd, subs)
             Q2 == q \o f
  <1>1. L \in Nat
    BY CommandFields
  <1>2. f = [k \in 1..L |-> Reply(cmd.op, cmd.p, cmd.names[k], Cardinality(SubsAfter(cmd, subs, k)), cmd.id)]
    BY DEF PubSubReplies
  <1>3. f \in Seq({f[k] : k \in 1..L}) /\ Len(f) = L
    <2>1. \A k \in 1..L : f[k] \in {f[j] : j \in 1..L}
      OBVIOUS
    <2>2. DOMAIN f = 1..L /\ f = [k \in 1..L |-> f[k]]
      BY <1>2
    <2> HIDE DEF f
    <2> QED
      BY <1>1, <2>1, <2>2
  <1>4. \A k \in 1..L : /\ f[k].type = cmd.op /\ f[k].p = cmd.p
                        /\ f[k].name = cmd.names[k] /\ f[k].id = cmd.id
                        /\ f[k].count = Cardinality(SubsAfter(cmd, subs, k))
    BY <1>2 DEF Reply
  <1> HIDE DEF f
  <1>5. /\ Len(q) \in Nat
        /\ \A i \in DOMAIN Q2 : \/ i \in DOMAIN q /\ Q2[i] = q[i] /\ i <= Len(q) /\ i \in Nat
                                \/ i - Len(q) \in 1..L /\ i = Len(q) + (i - Len(q))
        /\ \A i \in DOMAIN q : i \in DOMAIN Q2 /\ Q2[i] = q[i]
        /\ \A k \in 1..L : Len(q) + k \in DOMAIN Q2 /\ Q2[Len(q) + k] = f[k]
    <2>1. PICK S : f \in Seq(S)
      BY <1>3
    <2>2. f \in Seq(S) /\ Len(f) = L /\ q \in Seq(ReplyOf)
      BY <1>3, <2>1
    <2> HIDE DEF L
    <2>3. Len(q) \in Nat /\ DOMAIN q = 1..Len(q) /\ DOMAIN f = 1..L /\ L \in Nat
      BY <2>2
    <2>4. DOMAIN Q2 = 1..(Len(q) + L)
      BY <2>2
    <2>5. \A i \in 1..(Len(q) + L) : Q2[i] = IF i <= Len(q) THEN q[i] ELSE f[i - Len(q)]
      BY <2>2
    <2> HIDE DEF Q2
    <2>6. \A k \in 1..L : Len(q) + k \in DOMAIN Q2 /\ Q2[Len(q) + k] = f[k]
      <3> TAKE k \in 1..L
      <3>1. Len(q) + k \in 1..(Len(q) + L) /\ ~(Len(q) + k <= Len(q)) /\ Len(q) + k - Len(q) = k
        BY <2>3
      <3> QED
        BY <2>4, <2>5, <3>1
    <2>7. \A i \in DOMAIN q : i \in DOMAIN Q2 /\ Q2[i] = q[i]
      BY <2>3, <2>4, <2>5
    <2>8. \A i \in DOMAIN Q2 : i <= Len(q) => i \in DOMAIN q /\ Q2[i] = q[i] /\ i \in Nat
      BY <2>3, <2>4, <2>5
    <2>9. \A i \in DOMAIN Q2 : ~(i <= Len(q)) => i - Len(q) \in 1..L /\ i = Len(q) + (i - Len(q))
      BY <2>3, <2>4
    <2> QED
      BY <2>3, <2>6, <2>7, <2>8, <2>9
  <1> HIDE DEF Q2
  <1>6. \A i \in DOMAIN Q2 : \/ i \in DOMAIN q /\ Q2[i] = q[i] /\ i <= Len(q) /\ i \in Nat
                             \/ \E k \in 1..L : i = Len(q) + k
    BY <1>5
  <1> QED
    BY <1>1, <1>4, <1>5, <1>6 DEF Q2, f

LEMMA PipePubSub ==
    ASSUME Types, NEW q \in Seq(ReplyOf), NEW o \in Seq(Command), o # <<>>, NEW srv, ServerTypes(srv),
           Pipe(q, o, srv), srv.open, OfPubSub(Head(o)),
           NEW v, v.subs = SubsAfter(Head(o), srv.subs, Len(Head(o).names)), v.monitor => srv.monitor, v.open
    PROVE  Pipe(q \o PubSubReplies(Head(o), srv.subs), Tail(o), v)
  <1> DEFINE cmd == Head(o)
             t == Tail(o)
             Q2 == q \o PubSubReplies(cmd, srv.subs)
             L == Len(cmd.names)
             M == Len(q)
             S(k) == SubsAfter(cmd, srv.subs, k)
  <1>1. /\ InOrder(q, o) /\ Answers(q, srv) /\ InStep(q, o, srv) /\ BeforeArrays(q, o, srv)
        /\ NamesRegistered(q, o, srv) /\ Known(q, o, srv) /\ Unsubscribes(q, o, srv)
        /\ NotSubscribed(q, o, srv) /\ (srv.monitor => Mon)
    BY DEF Pipe
  <1>2. /\ 1 \in DOMAIN o /\ cmd = o[1] /\ cmd \in Command /\ t \in Seq(Command)
        /\ cmd.id \in DOMAIN issued /\ cmd = issued[cmd.id]
        /\ cmd.id \in Nat /\ cmd.id > 0 /\ cmd.id <= Len(issued) /\ Len(issued) \in Nat
        /\ \A k \in DOMAIN t : k + 1 \in DOMAIN o /\ t[k] = o[k + 1] /\ cmd.id < t[k].id
        /\ \A k \in DOMAIN o : k # 1 => k - 1 \in DOMAIN t /\ t[k - 1] = o[k]
        /\ \A i \in DOMAIN q : q[i].id < cmd.id
        /\ \A x : Waits(x, o) <=> x = cmd.id \/ Waits(x, t)
        /\ \A x : Waits(x, o) => cmd.id <= x /\ x \in Nat
    BY <1>1, HeadCommand
  <1>3. /\ Increasing(t) /\ \A k \in DOMAIN t : t[k].id \in DOMAIN issued /\ t[k] = issued[t[k].id]
        /\ \A k \in DOMAIN t : OfPubSub(t[k]) =>
              \A i \in DOMAIN t[k].names : Registered(t[k].p, t[k].names[i])
        /\ \A k \in DOMAIN t : t[k].op = "unsubscribe" =>
              t[k].id = Len(issued) /\ IsInjective(t[k].names)
        /\ \A i \in DOMAIN q : q[i].type # "unsubscribe"
    BY TailCommands
  <1>4. OfPubSub(cmd) /\ cmd.op \in {"subscribe", "unsubscribe"} /\ cmd.p \in BOOLEAN /\ cmd.names \in Seq(Key)
        /\ \A k \in 1..L : k \in DOMAIN cmd.names /\ cmd.names[k] \in Key
    BY <1>2, CommandFields DEF OfPubSub
  <1>5. \A k \in DOMAIN t : t[k].id \in Nat /\ k \in Nat /\ k > 0
    <2>1. \A k \in DOMAIN t : t[k] \in Command /\ k \in Nat /\ k > 0
      BY <1>2
    <2> QED
      BY <2>1, CommandFields
  <1>6. \A i \in DOMAIN q : q[i].id \in Nat
    <2>1. \A i \in DOMAIN q : q[i] \in ReplyOf
      OBVIOUS
    <2> QED
      BY <2>1, ReplyFields
  <1>7. /\ L \in Nat /\ M \in Nat
        /\ \A i \in DOMAIN Q2 : \/ i \in DOMAIN q /\ Q2[i] = q[i] /\ i <= M /\ i \in Nat
                                \/ \E k \in 1..L : i = M + k
        /\ \A i \in DOMAIN q : i \in DOMAIN Q2 /\ Q2[i] = q[i]
        /\ \A k \in 1..L : /\ M + k \in DOMAIN Q2
                           /\ Q2[M + k].type = cmd.op /\ Q2[M + k].p = cmd.p
                           /\ Q2[M + k].name = cmd.names[k] /\ Q2[M + k].id = cmd.id
                           /\ Q2[M + k].count = Cardinality(S(k))
    <2>1. q \in Seq(ReplyOf) /\ cmd \in Command
      BY <1>2
    <2> HIDE DEF cmd
    <2> QED
      BY <2>1, RepliesOfNames
  <1>8. v.subs = S(L) /\ \A k \in Nat : IsFiniteSet(S(k))
    BY SubsAfterFinite DEF ServerTypes
  <1>9. \A k \in 1..L : M + k \notin DOMAIN q
    BY <1>7
  <1>10. ASSUME NEW k \in Nat, NEW p, NEW n
         PROVE  <<p, n>> \in S(k) <=>
                   IF cmd.op = "subscribe" THEN <<p, n>> \in srv.subs \/ (p = cmd.p /\ \E j \in 1..k : cmd.names[j] = n)
                   ELSE <<p, n>> \in srv.subs /\ ~(p = cmd.p /\ \E j \in 1..k : cmd.names[j] = n)
    BY DEF SubsAfter, NamesOf
  <1>11. srv.subs \subseteq BOOLEAN \X Key /\ S(L) \subseteq BOOLEAN \X Key
    BY <1>4, <1>7 DEF ServerTypes, SubsAfter, NamesOf
  <1> HIDE DEF cmd, t, Q2, L, M, S
  <1>12. \A k \in 1..L : Q2[M + k].id > 0 /\ IsArray(Q2[M + k])
    BY <1>2, <1>4, <1>7 DEF IsArray
  <1>13. \A x \in DOMAIN issued : issued[x].op \in Other => x # cmd.id /\ (Waits(x, Q2) <=> Waits(x, q)) /\ (Waits(x, o) <=> Waits(x, t))
    <2> SUFFICES ASSUME NEW x \in DOMAIN issued, issued[x].op \in Other
                 PROVE  x # cmd.id /\ (Waits(x, Q2) <=> Waits(x, q)) /\ (Waits(x, o) <=> Waits(x, t))
      OBVIOUS
    <2>1. x # cmd.id
      BY <1>2, <1>4 DEF Other
    <2>0. \A i \in DOMAIN Q2 : (i \in DOMAIN q /\ Q2[i] = q[i]) \/ Q2[i].id = cmd.id
      <3> TAKE i \in DOMAIN Q2
      <3>1. CASE \E k \in 1..L : i = M + k
        BY <1>7, <3>1
      <3> QED
        BY <1>7, <3>1
    <2>2. \A i \in DOMAIN Q2 : Q2[i].id = x => i \in DOMAIN q /\ q[i].id = x
      BY <2>0, <2>1
    <2>3. \A i \in DOMAIN q : q[i].id = x => i \in DOMAIN Q2 /\ Q2[i].id = x
      BY <1>7
    <2>4. Waits(x, Q2) <=> Waits(x, q)
      BY <2>2, <2>3 DEF Waits
    <2> QED
      BY <1>2, <2>1, <2>4
  <1>24. \A i \in DOMAIN Q2 : Q2[i].id \in Nat /\ Q2[i].id <= cmd.id
    <2> SUFFICES ASSUME NEW i \in DOMAIN Q2 PROVE Q2[i].id \in Nat /\ Q2[i].id <= cmd.id
      OBVIOUS
    <2>1. CASE i \in DOMAIN q /\ Q2[i] = q[i]
      BY <1>2, <1>6, <2>1
    <2>2. CASE \E k \in 1..L : i = M + k
      <3>1. Q2[i].id = cmd.id
        BY <1>7, <2>2
      <3> QED
        BY <1>2, <3>1
    <2> QED
      BY <1>7, <2>1, <2>2
  <1>14. InOrder(Q2, t)
    <2>1. ASSUME NEW i \in DOMAIN Q2, NEW j \in DOMAIN Q2, i < j, Q2[i].id > 0, Q2[j].id > 0
          PROVE  Q2[i].id <= Q2[j].id /\ (~IsArray(Q2[j]) => Q2[i].id < Q2[j].id)
      <3>1. CASE \E k \in 1..L : j = M + k
        <4>0. PICK k \in 1..L : j = M + k
          BY <3>1
        <4>1. Q2[j].id = cmd.id /\ IsArray(Q2[j])
          BY <1>7, <1>12, <4>0
        <4>2. Q2[i].id <= cmd.id
          BY <1>24
        <4> QED
          BY <4>1, <4>2
      <3>2. CASE j \in DOMAIN q /\ Q2[j] = q[j] /\ j <= M /\ j \in Nat
        <4>1. i \in DOMAIN q /\ Q2[i] = q[i]
          BY <1>7, <2>1, <3>2
        <4> QED
          BY <1>1, <2>1, <3>2, <4>1 DEF InOrder
      <3> QED
        BY <1>7, <3>1, <3>2
    <2>2. ASSUME NEW i \in DOMAIN Q2, NEW k \in DOMAIN t PROVE Q2[i].id < t[k].id
      <3>1. Q2[i].id <= cmd.id /\ Q2[i].id \in Nat
        BY <1>24
      <3> QED
        BY <1>2, <1>5, <3>1
    <2> QED
      BY <1>3, <2>1, <2>2 DEF InOrder
  <1>15. Answers(Q2, v)
    <2>1. ASSUME NEW k \in 1..L
          PROVE  Answer(Q2[M + k]) /\ Q2[M + k].id # 0 /\ Q2[M + k].type # "line"
      <3>1. Q2[M + k].id = cmd.id /\ Q2[M + k].type = cmd.op
        BY <1>7
      <3>2. Q2[M + k].id > 0 /\ Q2[M + k].id # 0
        BY <1>2, <3>1
      <3>3. Answer(Q2[M + k])
        <4>1. issued[cmd.id] = cmd
          BY <1>2
        <4> HIDE DEF OfPubSub
        <4> QED
          BY <1>2, <1>4, <3>1, <3>2, <4>1 DEF Answer
      <3> QED
        BY <1>4, <3>1, <3>2, <3>3
    <2>2. \A i \in DOMAIN q : Answer(q[i]) /\ ~(q[i].id = 0 /\ q[i].type = "error") /\ (q[i].type = "line" => Mon)
      BY <1>1 DEF Answers
    <2>3. ASSUME NEW i \in DOMAIN Q2
          PROVE  Answer(Q2[i]) /\ ~(Q2[i].id = 0 /\ Q2[i].type = "error") /\ (Q2[i].type = "line" => Mon)
      <3>1. CASE i \in DOMAIN q /\ Q2[i] = q[i]
        BY <2>2, <3>1
      <3>2. CASE \E k \in 1..L : i = M + k
        BY <2>1, <3>2
      <3> QED
        BY <1>7, <3>1, <3>2
    <2> QED
      BY <2>3 DEF Answers
  <1>16. InStep(Q2, t, v)
    <2> SUFFICES ASSUME NEW x \in DOMAIN issued, issued[x].op \in Other
                 PROVE  /\ Waits(x, Q2) => Pending(x)
                        /\ v.open /\ Pending(x) => Waits(x, Q2) \/ Waits(x, t)
                        /\ v.open /\ Waits(x, t) => Pending(x)
                        /\ Pending(x) /\ ~Waits(x, Q2) => \A i \in DOMAIN Q2 : Q2[i].id < x
      BY DEF InStep
    <2>1. /\ Waits(x, q) => Pending(x)
          /\ Pending(x) => Waits(x, q) \/ Waits(x, o)
          /\ Waits(x, o) => Pending(x)
      BY <1>1 DEF InStep
    <2>2. ASSUME Pending(x), ~Waits(x, Q2), NEW i \in DOMAIN Q2 PROVE Q2[i].id < x
      <3>1. Waits(x, t)
        BY <1>13, <2>1, <2>2
      <3>2. PICK k \in DOMAIN t : t[k].id = x
        BY <3>1 DEF Waits
      <3>3. Q2[i].id < t[k].id
        BY <1>14 DEF InOrder
      <3> QED
        BY <3>2, <3>3
    <2> QED
      BY <1>13, <2>1, <2>2
  <1>17. BeforeArrays(Q2, t, v)
    <2> SUFFICES ASSUME NEW x \in DOMAIN issued, issued[x].op \in Other, Waits(x, replies)
                 PROVE  /\ \A i \in DOMAIN Q2 : IsArray(Q2[i]) => \E j \in DOMAIN Q2 : j < i /\ Q2[j].id = x
                        /\ v.open /\ v.subs # {} => Waits(x, Q2)
                        /\ \A k \in DOMAIN t : OfPubSub(t[k]) => x < t[k].id
      BY DEF BeforeArrays
    <2>1. /\ \A i \in DOMAIN q : IsArray(q[i]) => \E j \in DOMAIN q : j < i /\ q[j].id = x
          /\ \A k \in DOMAIN o : OfPubSub(o[k]) => x < o[k].id
      BY <1>1 DEF BeforeArrays
    <2>2. x < cmd.id
      BY <1>2, <1>4, <2>1
    <2>3. Waits(x, q)
      <3>1. Waits(x, q) \/ Waits(x, o)
        BY <1>1 DEF InStep, Pending
      <3>2. ~Waits(x, o)
        BY <1>2, <2>2
      <3> QED
        BY <3>1, <3>2
    <2>4. PICK j \in DOMAIN q : q[j].id = x
      BY <2>3 DEF Waits
    <2>5. j \in DOMAIN Q2 /\ Q2[j].id = x /\ j <= M /\ j \in Nat
      BY <1>7, <1>9, <2>4
    <2>6. ASSUME NEW i \in DOMAIN Q2, IsArray(Q2[i]) PROVE \E l \in DOMAIN Q2 : l < i /\ Q2[l].id = x
      <3>1. CASE i \in DOMAIN q /\ Q2[i] = q[i]
        BY <1>7, <2>1, <2>6, <3>1
      <3>2. CASE \E k \in 1..L : i = M + k
        <4>1. j < i
          BY <1>7, <2>5, <3>2
        <4> QED
          BY <2>5, <4>1
      <3> QED
        BY <1>7, <3>1, <3>2
    <2>7. Waits(x, Q2)
      BY <1>13, <2>3
    <2>8. \A k \in DOMAIN t : OfPubSub(t[k]) => x < t[k].id
      BY <1>2, <2>1
    <2> QED
      BY <2>6, <2>7, <2>8
  <1>18. \A k \in 1..L : Registered(cmd.p, cmd.names[k])
    BY <1>1, <1>2, <1>4 DEF NamesRegistered
  <1>19. NamesRegistered(Q2, t, v)
    <2>1. ASSUME NEW i \in DOMAIN Q2, IsArray(Q2[i]) PROVE Registered(Q2[i].p, Q2[i].name)
      <3>1. CASE i \in DOMAIN q /\ Q2[i] = q[i]
        BY <1>1, <2>1, <3>1 DEF NamesRegistered
      <3>2. CASE \E k \in 1..L : i = M + k
        BY <1>7, <1>18, <3>2
      <3> QED
        BY <1>7, <3>1, <3>2
    <2>2. ASSUME NEW p \in BOOLEAN, NEW n \in Key, <<p, n>> \in v.subs PROVE Registered(p, n)
      <3>1. <<p, n>> \in srv.subs \/ (p = cmd.p /\ \E j \in 1..L : cmd.names[j] = n)
        <4>1. <<p, n>> \in S(L) /\ L \in Nat
          BY <1>7, <1>8, <2>2
        <4> QED
          BY <1>10, <4>1
      <3>2. <<p, n>> \in srv.subs => Registered(p, n)
        BY <1>1 DEF NamesRegistered
      <3> QED
        BY <1>18, <3>1, <3>2
    <2> QED
      BY <1>3, <2>1, <2>2 DEF NamesRegistered
  <1>20. Known(Q2, t, v)
    <2> SUFFICES ASSUME NEW p \in BOOLEAN, NEW n \in Key, Registered(p, n)
                 PROVE  <<p, n>> \in v.subs \/ Subscribes(t, p, n) \/ Farewell(Q2, p, n)
      BY DEF Known
    <2>1. <<p, n>> \in srv.subs \/ Subscribes(o, p, n) \/ Farewell(q, p, n)
      BY <1>1 DEF Known
    <2>2. CASE <<p, n>> \in srv.subs
      <3>1. CASE <<p, n>> \in S(L)
        BY <1>8, <3>1
      <3>2. CASE <<p, n>> \notin S(L)
        <4>1. cmd.op = "unsubscribe" /\ p = cmd.p /\ \E j \in 1..L : cmd.names[j] = n
          BY <1>4, <1>7, <1>10, <2>2, <3>2
        <4>2. Farewell(Q2, p, n)
          BY <1>7, <4>1 DEF Farewell
        <4> QED
          BY <4>2
      <3> QED
        BY <3>1, <3>2
    <2>3. CASE Subscribes(o, p, n)
      <3>1. PICK k \in DOMAIN o : o[k].op = "subscribe" /\ o[k].p = p /\ \E i \in DOMAIN o[k].names : o[k].names[i] = n
        BY <2>3 DEF Subscribes
      <3>2. CASE k = 1
        <4>1. cmd.op = "subscribe" /\ p = cmd.p /\ \E i \in DOMAIN cmd.names : cmd.names[i] = n
          BY <1>2, <3>1, <3>2
        <4>2. DOMAIN cmd.names = 1..L
          BY <1>4 DEF L
        <4>3. <<p, n>> \in S(L)
          BY <1>7, <1>10, <4>1, <4>2
        <4> QED
          BY <1>8, <4>3
      <3>3. CASE k # 1
        <4>1. k - 1 \in DOMAIN t /\ t[k - 1] = o[k]
          BY <1>2, <3>3
        <4> QED
          BY <3>1, <4>1 DEF Subscribes
      <3> QED
        BY <3>2, <3>3
    <2>4. CASE Farewell(q, p, n)
      BY <1>3, <2>4 DEF Farewell
    <2> QED
      BY <2>1, <2>2, <2>3, <2>4
  <1>21. ASSUME cmd.op = "unsubscribe", NEW k \in 1..L
         PROVE  /\ cmd.id = Len(issued)
                /\ \A l \in 1..L : cmd.names[l] = cmd.names[k] => l = k
                /\ <<cmd.p, cmd.names[k]>> \notin S(L)
                /\ S(k) = {} => S(L) = {} /\ k = L
    <2>1. cmd.id = Len(issued) /\ IsInjective(cmd.names)
      BY <1>1, <1>2, <1>21 DEF Unsubscribes
    <2>2. \A j, l \in 1..L : cmd.names[l] = cmd.names[j] => l = j
      <3>1. DOMAIN cmd.names = 1..L
        BY <1>4 DEF L
      <3> QED
        BY <2>1, <3>1 DEF IsInjective
    <2>3. <<cmd.p, cmd.names[k]>> \notin S(L)
      BY <1>7, <1>10, <1>21
    <2>4. ASSUME S(k) = {} PROVE S(L) = {} /\ k = L
      <3>1. \A j \in 1..k : j \in 1..L
        BY <1>7
      <3>2. ASSUME NEW p, NEW n, <<p, n>> \in S(L) PROVE <<p, n>> \in S(k)
        <4>1. k \in Nat /\ L \in Nat
          BY <1>7
        <4>2. <<p, n>> \in srv.subs /\ ~(p = cmd.p /\ \E j \in 1..L : cmd.names[j] = n)
          BY <1>10, <1>21, <3>2, <4>1
        <4>3. ~(p = cmd.p /\ \E j \in 1..k : cmd.names[j] = n)
          BY <3>1, <4>2
        <4> QED
          BY <1>10, <1>21, <4>1, <4>2, <4>3
      <3>3. S(L) = {}
        BY <1>11, <2>4, <3>2
      <3> SUFFICES ASSUME k # L PROVE FALSE
        BY <3>3
      <3>4. k + 1 \in 1..L /\ k \in Nat
        BY <1>7
      <3> DEFINE n == cmd.names[k + 1]
      <3>5. Registered(cmd.p, n) /\ n \in Key
        BY <1>4, <1>18, <3>4
      <3>6. <<cmd.p, n>> \in srv.subs \/ Subscribes(o, cmd.p, n) \/ Farewell(q, cmd.p, n)
        BY <1>1, <1>4, <3>5 DEF Known
      <3>7. ~Farewell(q, cmd.p, n)
        BY <1>3 DEF Farewell
      <3>8. ~Subscribes(o, cmd.p, n)
        <4>1. \A j \in DOMAIN o : j = 1
          <5> SUFFICES ASSUME NEW j \in DOMAIN o, j # 1 PROVE FALSE
            OBVIOUS
          <5>1. PICK l \in DOMAIN t : TRUE
            BY <1>2
          <5>2. cmd.id < t[l].id /\ t[l].id \in DOMAIN issued
            BY <1>2, <1>3
          <5>3. t[l].id <= Len(issued)
            <6>1. issued \in Seq(Command)
              BY DEF Types, WireTypes
            <6> QED
              BY <5>2, <6>1
          <5>4. t[l].id \in Nat /\ cmd.id \in Nat /\ Len(issued) \in Nat
            BY <1>2, <1>5
          <5> QED
            BY <2>1, <5>2, <5>3, <5>4
        <4>2. o[1].op # "subscribe"
          BY <1>2, <1>21
        <4> QED
          BY <4>1, <4>2 DEF Subscribes
      <3>9. <<cmd.p, n>> \in srv.subs
        BY <3>6, <3>7, <3>8
      <3>10. \A j \in 1..k : cmd.names[j] # n
        <4> SUFFICES ASSUME NEW j \in 1..k, cmd.names[j] = n PROVE FALSE
          OBVIOUS
        <4>1. j = k + 1
          BY <2>2, <3>1, <3>4
        <4> QED
          BY <3>4, <4>1
      <3>11. <<cmd.p, n>> \in S(k)
        BY <1>10, <1>21, <3>4, <3>9, <3>10
      <3> QED
        BY <2>4, <3>11
    <2> QED
      BY <2>1, <2>2, <2>3, <2>4
  <1>22. Unsubscribes(Q2, t, v)
    <2>1. ASSUME NEW i \in DOMAIN Q2, Q2[i].type = "unsubscribe"
          PROVE  /\ Q2[i].id = Len(issued)
                 /\ \A j \in DOMAIN Q2 : i < j /\ IsArray(Q2[j]) => Q2[j].p # Q2[i].p \/ Q2[j].name # Q2[i].name
                 /\ <<Q2[i].p, Q2[i].name>> \notin v.subs
                 /\ Q2[i].count = 0 => v.subs = {} /\ \A j \in DOMAIN Q2 : i < j => ~IsArray(Q2[j])
      <3>1. ~(i \in DOMAIN q /\ Q2[i] = q[i])
        BY <1>3, <2>1
      <3>2. PICK k \in 1..L : i = M + k
        BY <1>7, <3>1
      <3>3. cmd.op = "unsubscribe" /\ Q2[i].p = cmd.p /\ Q2[i].name = cmd.names[k] /\ Q2[i].id = cmd.id
            /\ Q2[i].count = Cardinality(S(k))
        BY <1>7, <2>1, <3>2
      <3>4. /\ cmd.id = Len(issued)
            /\ \A l \in 1..L : cmd.names[l] = cmd.names[k] => l = k
            /\ <<cmd.p, cmd.names[k]>> \notin S(L)
            /\ S(k) = {} => S(L) = {} /\ k = L
        BY <1>21, <3>3
      <3>5. ASSUME NEW j \in DOMAIN Q2, i < j PROVE \E l \in 1..L : j = M + l /\ k < l
        <4>1. ~(j <= M)
          BY <1>7, <3>2, <3>5
        <4>2. PICK l \in 1..L : j = M + l
          BY <1>7, <4>1
        <4> QED
          BY <1>7, <3>2, <3>5, <4>2
      <3>6. \A j \in DOMAIN Q2 : i < j => Q2[j].name # Q2[i].name
        <4> SUFFICES ASSUME NEW j \in DOMAIN Q2, i < j PROVE Q2[j].name # Q2[i].name
          OBVIOUS
        <4>1. PICK l \in 1..L : j = M + l /\ k < l
          BY <3>5
        <4>2. Q2[j].name = cmd.names[l] /\ Q2[i].name = cmd.names[k]
          BY <1>7, <3>3, <4>1
        <4>3. l # k
          BY <4>1
        <4> QED
          BY <3>4, <4>2, <4>3
      <3>7. Q2[i].count = 0 => S(k) = {}
        <4>1. IsFiniteSet(S(k))
          BY <1>7, <1>8
        <4> QED
          BY <3>3, <4>1, FS_EmptySet
      <3>8. k = L => \A j \in DOMAIN Q2 : ~(i < j)
        BY <1>7, <3>5
      <3> QED
        BY <1>8, <3>3, <3>4, <3>6, <3>7, <3>8
    <2> QED
      BY <1>3, <2>1 DEF Unsubscribes
  <1>23. NotSubscribed(Q2, t, v)
    <2>1. Subscribed
      BY <1>1, <1>2, <1>4 DEF NotSubscribed
    <2> QED
      BY <2>1 DEF NotSubscribed
  <1> QED
    BY <1>1, <1>14, <1>15, <1>16, <1>17, <1>19, <1>20, <1>22, <1>23 DEF Pipe, t, Q2, cmd

LEMMA PipeAnswered ==
    ASSUME Types, Monitoring, NEW o \in Seq(Command), o # <<>>, NEW s \in Wires, Pipe(reader \o s.inbuf, o, s.server)
    PROVE  Pipe(reader \o Answered(s, Head(o)).inbuf, Tail(o), Answered(s, Head(o)).server)
  <1> DEFINE cmd == Head(o)
             q == reader \o s.inbuf
  <1>1. reader \in Seq(ReplyOf) /\ s.inbuf \in Seq(ReplyOf) /\ ServerTypes(s.server) /\ q \in Seq(ReplyOf)
    BY DEF Types, WireTypes, Wires
  <1>2. cmd \in Command
    BY TailItems
  <1>3. CASE ~s.server.open
    BY <1>1, <1>3, PipeClosed DEF Answered
  <1>4. CASE s.server.open /\ OfPubSub(cmd)
    <2> DEFINE a == PubSubAnswers(cmd, s.server.subs)
               R == PubSubReplies(cmd, s.server.subs)
    <2>1. Answered(s, cmd) = [server |-> [s.server EXCEPT !.subs = a.subs], inbuf |-> s.inbuf \o a.replies]
      BY <1>4 DEF Answered, OfPubSub
    <2>2. a.subs = SubsAfter(cmd, s.server.subs, Len(cmd.names)) /\ a.replies = R
      BY <1>2, CommandFields, AnswersOf
    <2>3. R \in Seq(ReplyOf)
      BY <1>1, <1>2, <1>4, <2>2, PubSubTypes DEF ServerTypes
    <2> HIDE DEF a, R
    <2>4. Answered(s, cmd).inbuf = s.inbuf \o R
      BY <2>1, <2>2
    <2> DEFINE v == [s.server EXCEPT !.subs = a.subs]
    <2>5. v = Answered(s, cmd).server
      BY <2>1
    <2>6. v.subs = a.subs /\ v.monitor = s.server.monitor /\ v.open
      BY <1>1, <1>4 DEF ServerTypes
    <2> HIDE DEF v
    <2>7. Pipe(q \o R, Tail(o), v)
      <3> HIDE DEF q
      <3>1. v.subs = SubsAfter(Head(o), s.server.subs, Len(Head(o).names)) /\ (v.monitor => s.server.monitor)
        BY <2>2, <2>6
      <3> QED
        BY <1>1, <1>4, <2>6, <3>1, PipePubSub DEF q, R
    <2>8. reader \o (s.inbuf \o R) = q \o R
      <3> DEFINE i == s.inbuf
      <3>1. reader \in Seq(ReplyOf) /\ i \in Seq(ReplyOf) /\ R \in Seq(ReplyOf)
        BY <1>1, <2>3
      <3> HIDE DEF i, R
      <3>2. (reader \o i) \o R = reader \o (i \o R)
        BY <3>1, ConcatAssociative
      <3> QED
        BY <3>2 DEF i
    <2> QED
      BY <2>4, <2>5, <2>7, <2>8
  <1>5. CASE s.server.open /\ ~OfPubSub(cmd)
    <2> DEFINE allowed == cmd.op = "quit" \/ s.server.subs = {}
               r == Plain(IF allowed THEN "ok" ELSE "error", cmd.id)
               monitor == s.server.monitor \/ (cmd.op = "monitor" /\ allowed)
               open == cmd.op # "quit"
               v == [s.server EXCEPT !.open = open, !.monitor = monitor]
    <2>1. Answered(s, cmd) = [server |-> v, inbuf |-> Append(s.inbuf, r)]
      BY <1>5 DEF Answered, OfPubSub
    <2>9. monitor => s.server.monitor \/ cmd.op = "monitor"
      OBVIOUS
    <2> HIDE DEF monitor, open
    <2>2. v = [subs |-> s.server.subs, monitor |-> monitor, open |-> open]
      BY <1>1, ServerFields
    <2>3. v.subs = s.server.subs /\ (v.monitor => s.server.monitor \/ cmd.op = "monitor")
      BY <2>2, <2>9
    <2>4. r = Plain("ok", cmd.id) \/ r = Plain("error", cmd.id)
      OBVIOUS
    <2>5. r \in ReplyOf
      BY <1>2, <2>4, CommandFields, PlainReply
    <2> HIDE DEF v, r
    <2>6. Pipe(Append(q, r), Tail(o), v)
      <3> HIDE DEF q
      <3> QED
        BY <1>1, <1>5, <2>3, <2>4, PipePlain DEF q
    <2>7. reader \o Append(s.inbuf, r) = Append(q, r)
      BY <1>1, <2>5
    <2>8. Answered(s, cmd).inbuf = Append(s.inbuf, r) /\ Answered(s, cmd).server = v
      BY <2>1
    <2> QED
      BY <2>6, <2>7, <2>8
  <1> QED
    BY <1>3, <1>4, <1>5

\* The server answers what is written.
LEMMA PipeDelivered ==
    ASSUME Types, Monitoring, Pipeline, Live, NEW n \in 0..Len(obuf), Deliver(SubSeq(obuf, 1, n))
    PROVE  Pipe(reader \o inbuf', SubSeq(obuf, n + 1, Len(obuf)), server')
  <1> DEFINE cmds == SubSeq(obuf, 1, n)
             o(k) == SubSeq(obuf, k + 1, Len(obuf))
  <1>1. obuf \in Seq(Command) /\ n \in Nat /\ n <= Len(obuf) /\ Len(obuf) \in Nat
    BY DEF Types, WireTypes
  <1>2. cmds \in Seq(Command) /\ Len(cmds) = n /\ \A k \in 1..n : cmds[k] = obuf[k]
    BY <1>1
  <1>3. PICK after \in [0..n -> Wires] :
              /\ after[0] = [server |-> server, inbuf |-> inbuf]
              /\ \A k \in 1..n : after[k] = Answered(after[k - 1], cmds[k])
              /\ server' = after[n].server /\ inbuf' = after[n].inbuf
    <2>1. WireTypes
      BY DEF Types
    <2> HIDE DEF cmds
    <2> QED
      BY <1>2, <2>1, Delivers DEF cmds
  <1> HIDE DEF cmds
  <1>4. o(0) = obuf
    BY <1>1
  <1>5. ASSUME NEW k \in Nat, k < n
        PROVE  o(k) \in Seq(Command) /\ o(k) # <<>> /\ Head(o(k)) = obuf[k + 1] /\ Tail(o(k)) = o(k + 1)
    <2>1. o(k) \in Seq(Command) /\ Len(o(k)) = Len(obuf) - k /\ \A i \in 1..(Len(obuf) - k) : o(k)[i] = obuf[k + i]
      BY <1>1, <1>5
    <2>2. o(k) # <<>> /\ Head(o(k)) = obuf[k + 1]
      <3>1. Len(obuf) - k >= 1
        BY <1>1, <1>5
      <3> HIDE DEF o
      <3>2. o(k) # <<>>
        BY <2>1, <3>1
      <3>3. o(k)[1] = obuf[k + 1]
        BY <1>1, <2>1, <3>1
      <3> QED
        BY <2>1, <3>2, <3>3
    <2>4. Tail(o(k)) = o(k + 1)
      BY <1>1, <1>5
    <2> QED
      BY <2>1, <2>2, <2>4
  <1> HIDE DEF o
  <1> DEFINE T == {k \in Nat : k <= n => Pipe(reader \o after[k].inbuf, o(k), after[k].server)}
  <1>6. 0 \in T
    <2>1. Pipe(reader \o inbuf, obuf, server)
      BY DEF Pipeline, Q
    <2> QED
      BY <1>3, <1>4, <2>1
  <1>7. ASSUME NEW k \in T PROVE k + 1 \in T
    <2> SUFFICES ASSUME k + 1 <= n PROVE Pipe(reader \o after[k + 1].inbuf, o(k + 1), after[k + 1].server)
      OBVIOUS
    <2>1. k \in Nat /\ k < n /\ k \in 0..n /\ k + 1 \in 1..n /\ (k + 1) - 1 = k
      BY <1>1
    <2>2. Pipe(reader \o after[k].inbuf, o(k), after[k].server) /\ after[k] \in Wires
      BY <2>1
    <2>3. after[k + 1] = Answered(after[k], Head(o(k)))
      BY <1>2, <1>3, <1>5, <2>1
    <2>4. o(k) \in Seq(Command) /\ o(k) # <<>> /\ Tail(o(k)) = o(k + 1)
      BY <1>5, <2>1
    <2>5. Pipe(reader \o Answered(after[k], Head(o(k))).inbuf, Tail(o(k)), Answered(after[k], Head(o(k))).server)
      BY <2>2, <2>4, PipeAnswered
    <2> QED
      BY <2>3, <2>4, <2>5
  <1>8. T = Nat
    <2>1. T \subseteq Nat
      OBVIOUS
    <2> HIDE DEF T
    <2> QED
      BY <1>6, <1>7, <2>1, SetInduction
  <1>9. Pipe(reader \o after[n].inbuf, o(n), after[n].server)
    BY <1>1, <1>8
  <1> QED
    BY <1>3, <1>9 DEF o

\* The parts of the pipeline, moved by a step that changes nothing else.
LEMMA PipeMoved ==
    ASSUME Pipe(Q', obuf', server'), UNCHANGED <<issued, last, replies, invalid>>,
           Subscribed' <=> Subscribed, Mon' <=> Mon
    PROVE  Pipeline'
  <1>1. /\ InOrder(Q', obuf') /\ Answers(Q', server') /\ InStep(Q', obuf', server') /\ BeforeArrays(Q', obuf', server')
        /\ NamesRegistered(Q', obuf', server') /\ Known(Q', obuf', server') /\ Unsubscribes(Q', obuf', server')
        /\ NotSubscribed(Q', obuf', server') /\ (server'.monitor => Mon)
    BY DEF Pipe
  <1>2. InOrder(Q, obuf)'
    BY <1>1 DEF InOrder
  <1>3. Answers(Q, server)'
    BY <1>1 DEF Answers, Answer
  <1>4. InStep(Q, obuf, server)'
    BY <1>1 DEF InStep, Pending
  <1>5. BeforeArrays(Q, obuf, server)'
    BY <1>1 DEF BeforeArrays
  <1>6. NamesRegistered(Q, obuf, server)'
    BY <1>1 DEF NamesRegistered, Registered
  <1>7. Known(Q, obuf, server)'
    BY <1>1 DEF Known, Registered
  <1>8. Unsubscribes(Q, obuf, server)'
    BY <1>1 DEF Unsubscribes
  <1>9. NotSubscribed(Q, obuf, server)'
    BY <1>1 DEF NotSubscribed
  <1> QED
    BY <1>1, <1>2, <1>3, <1>4, <1>5, <1>6, <1>7, <1>8, <1>9 DEF Pipeline, Pipe

LEMMA WritePipe ==
    ASSUME Types, Monitoring, Pipeline, redisAsyncHandleWrite
    PROVE  Pipeline'
  <1> SUFFICES ASSUME Live' PROVE Pipeline'
    BY DEF Pipeline
  <1>1. PICK n \in 0..Len(obuf) : obuf' = SubSeq(obuf, n + 1, Len(obuf)) /\ Deliver(SubSeq(obuf, 1, n)) /\ UNCHANGED flags
    BY DEF redisAsyncHandleWrite, Disconnect, Live
  <1>2. UNCHANGED <<replies, invalid, reader, issued, last>> /\ Live
    BY DEF redisAsyncHandleWrite, told, Live
  <1>3. Pipe(reader \o inbuf', SubSeq(obuf, n + 1, Len(obuf)), server')
    BY <1>1, <1>2, PipeDelivered
  <1>4. Q' = reader \o inbuf'
    BY <1>2 DEF Q
  <1>5. Pipe(Q', obuf', server')
    BY <1>1, <1>3, <1>4
  <1> QED
    BY <1>1, <1>2, <1>5, PipeMoved DEF Subscribed, Mon

LEMMA ReadPipe ==
    ASSUME Types, Pipeline, redisAsyncHandleRead
    PROVE  Pipeline'
  <1> SUFFICES ASSUME Live' PROVE Pipeline'
    BY DEF Pipeline
  <1>1. PICK n \in 0..Len(inbuf) : reader' = reader \o SubSeq(inbuf, 1, n) /\ inbuf' = SubSeq(inbuf, n + 1, Len(inbuf)) /\ UNCHANGED flags
    BY DEF redisAsyncHandleRead, Disconnect, Live
  <1>2. UNCHANGED <<replies, invalid, obuf, server, issued, last>> /\ Live
    BY DEF redisAsyncHandleRead, told, Live
  <1>3. Q' = Q
    <2>1. reader \in Seq(ReplyOf) /\ inbuf \in Seq(ReplyOf) /\ n \in Nat /\ n <= Len(inbuf) /\ Len(inbuf) \in Nat
      BY DEF Types, WireTypes
    <2> DEFINE a == SubSeq(inbuf, 1, n)
               b == SubSeq(inbuf, n + 1, Len(inbuf))
    <2>2. a \in Seq(ReplyOf) /\ b \in Seq(ReplyOf) /\ a \o b = inbuf
      <3>1. a \in Seq(ReplyOf) /\ Len(a) = n /\ \A i \in 1..n : a[i] = inbuf[i]
        BY <2>1
      <3>2. b \in Seq(ReplyOf) /\ Len(b) = Len(inbuf) - n /\ \A i \in 1..(Len(inbuf) - n) : b[i] = inbuf[n + i]
        BY <2>1
      <3> HIDE DEF a, b
      <3>3. a \o b \in Seq(ReplyOf) /\ Len(a \o b) = Len(inbuf)
        BY <2>1, <3>1, <3>2
      <3>4. ASSUME NEW i \in 1..Len(inbuf) PROVE (a \o b)[i] = inbuf[i]
        <4>1. CASE i <= n
          BY <2>1, <3>1, <3>2, <4>1
        <4>2. CASE ~(i <= n)
          <5>1. i - n \in 1..(Len(inbuf) - n) /\ n + (i - n) = i
            BY <2>1, <4>2
          <5>2. (a \o b)[i] = b[i - n]
            BY <2>1, <3>1, <3>2, <4>2
          <5> QED
            BY <3>2, <5>1, <5>2
        <4> QED
          BY <4>1, <4>2
      <3> QED
        BY <2>1, <3>1, <3>2, <3>3, <3>4, SeqEqual
    <2> HIDE DEF a, b
    <2>3. (reader \o a) \o b = reader \o (a \o b)
      <3>1. reader \in Seq(ReplyOf) /\ a \in Seq(ReplyOf) /\ b \in Seq(ReplyOf)
        BY <2>1, <2>2
      <3> QED
        BY <3>1, ConcatAssociative
    <2> QED
      BY <1>1, <2>2, <2>3 DEF Q, a, b
  <1>4. SameWaits
    BY <1>2 DEF SameWaits
  <1>5. ServerTypes(server)
    BY DEF Types, WireTypes
  <1> QED
    BY <1>1, <1>2, <1>3, <1>4, <1>5, PipeSame DEF Subscribed, Mon

\* The server accepted the connection to refuse it.
LEMMA ConnectPipe ==
    ASSUME Types, Connecting, Pipeline, __redisAsyncHandleConnect
    PROVE  Pipeline'
  <1> SUFFICES ASSUME Live' PROVE Pipeline'
    BY DEF Pipeline
  <1>1. UNCHANGED <<replies, invalid, reader, obuf, issued, last>> /\ Live /\ "CONNECTED" \notin flags /\ pc # "gone"
    BY DEF __redisAsyncHandleConnect, told, Live
  <1>2. /\ flags' = flags \cup {"CONNECTED"}
        /\ \/ UNCHANGED <<server, inbuf>>
           \/ server' = [server EXCEPT !.open = FALSE] /\ inbuf' = <<Plain("error", 0)>>
    <2>1. ~(Disconnect(TRUE))
      BY DEF Disconnect, Live
    <2> QED
      BY <2>1 DEF __redisAsyncHandleConnect
  <1>3. (Subscribed' <=> Subscribed) /\ (Mon' <=> Mon)
    <2>1. flags' = flags \cup {"CONNECTED"}
      BY <1>2
    <2> QED
      BY <2>1 DEF Subscribed, Mon
  <1>4. ServerTypes(server)
    BY DEF Types, WireTypes
  <1>5. CASE UNCHANGED <<server, inbuf>>
    <2>1. Q' = Q
      BY <1>1, <1>5 DEF Q
    <2>2. SameWaits
      BY <1>1 DEF SameWaits
    <2> QED
      BY <1>1, <1>3, <1>4, <1>5, <2>1, <2>2, PipeSame
  <1>6. CASE server' = [server EXCEPT !.open = FALSE] /\ inbuf' = <<Plain("error", 0)>>
    <2>1. inbuf = <<>> /\ reader = <<>> /\ server = [subs |-> {}, monitor |-> FALSE, open |-> TRUE]
      BY <1>1 DEF Connecting
    <2>2. server'.subs = {} /\ server'.monitor = FALSE /\ server'.open = FALSE
      BY <1>6, <2>1
    <2>3. Q = <<>> /\ Q' = <<Plain("error", 0)>>
      BY <1>1, <1>6, <2>1 DEF Q
    <2>4. DOMAIN Q' = {1} /\ Len(Q') = 1 /\ Q'[1].id = 0 /\ Q'[1].type = "error" /\ ~IsArray(Q'[1])
      <3>1. Plain("error", 0).id = 0 /\ Plain("error", 0).type = "error"
        BY DEF Plain, Reply
      <3>2. DOMAIN Q' = {1} /\ Len(Q') = 1 /\ Q'[1] = Plain("error", 0)
        BY <2>3
      <3> QED
        BY <3>1, <3>2 DEF IsArray
    <2>5. /\ InOrder(Q, obuf) /\ InStep(Q, obuf, server) /\ BeforeArrays(Q, obuf, server)
          /\ NamesRegistered(Q, obuf, server) /\ Unsubscribes(Q, obuf, server)
          /\ NotSubscribed(Q, obuf, server)
      BY <1>1, Piped
    <2>6. \A x \in DOMAIN issued : x \in Nat /\ x > 0
      <3>1. issued \in Seq(Command)
        BY DEF Types, WireTypes
      <3> QED
        BY <3>1
    <2> HIDE DEF Q
    <2>7. InOrder(Q', obuf')
      BY <1>1, <2>4, <2>5, <2>6 DEF InOrder
    <2>8. Answers(Q', server')
      BY <2>2, <2>4 DEF Answers, Answer
    <2>9. InStep(Q', obuf', server')
      BY <2>2, <2>4, <2>6 DEF InStep, Waits
    <2>10. BeforeArrays(Q', obuf', server')
      BY <1>1, <2>2, <2>4, <2>5 DEF BeforeArrays
    <2>11. NamesRegistered(Q', obuf', server')
      BY <1>1, <2>2, <2>4, <2>5 DEF NamesRegistered
    <2>12. Known(Q', obuf', server')
      BY <2>2 DEF Known
    <2>13. Unsubscribes(Q', obuf', server')
      BY <1>1, <2>4, <2>5 DEF Unsubscribes
    <2>14. NotSubscribed(Q', obuf', server')
      BY <1>1, <2>2, <2>4, <2>5 DEF NotSubscribed
    <2>15. Pipe(Q', obuf', server')
      BY <2>2, <2>7, <2>8, <2>9, <2>10, <2>11, <2>12, <2>13, <2>14 DEF Pipe
    <2> QED
      BY <1>1, <1>3, <2>15, PipeMoved
  <1> QED
    BY <1>2, <1>5, <1>6

\* Something is published, or shown to the monitor.
LEMMA SpeaksPipe ==
    ASSUME Types, Pipeline, ServerSpeaks
    PROVE  Pipeline'
  <1> SUFFICES ASSUME Live' PROVE Pipeline'
    BY DEF Pipeline
  <1>1. UNCHANGED <<replies, invalid, reader, obuf, issued, last, flags, pc, server>> /\ server.open /\ Live
    BY DEF ServerSpeaks, local, told, Live
  <1>2. PICK m : /\ inbuf' = Append(inbuf, m)
                 /\ \/ \E s \in server.subs : m = Reply("message", s[1], s[2], 0, 0)
                    \/ server.monitor /\ m = Plain("line", 0)
    BY DEF ServerSpeaks
  <1>3. server.subs \subseteq BOOLEAN \X Key /\ reader \in Seq(ReplyOf) /\ inbuf \in Seq(ReplyOf)
    BY DEF Types, WireTypes, ServerTypes
  <1>4. /\ m \in ReplyOf
        /\ \/ m.type = "message" /\ m.id = 0 /\ <<m.p, m.name>> \in server.subs /\ m.p \in BOOLEAN /\ m.name \in Key
           \/ m.type = "line" /\ m.id = 0 /\ server.monitor
    <2>1. CASE \E s \in server.subs : m = Reply("message", s[1], s[2], 0, 0)
      <3>1. PICK s \in server.subs : m = Reply("message", s[1], s[2], 0, 0)
        BY <2>1
      <3>2. s = <<s[1], s[2]>> /\ s[1] \in BOOLEAN /\ s[2] \in Key
        BY <1>3
      <3>3. \A v, n : LET r == Reply("message", v, n, 0, 0)
                      IN  /\ r.type = "message" /\ r.id = 0 /\ r.p = v /\ r.name = n
                          /\ v \in BOOLEAN /\ n \in Key => r \in ReplyOf
        BY DEF Reply, ReplyOf, ReplyTypes
      <3> QED
        BY <3>1, <3>2, <3>3
    <2>2. CASE server.monitor /\ m = Plain("line", 0)
      <3>1. Plain("line", 0).type = "line" /\ Plain("line", 0).id = 0
        BY DEF Plain, Reply
      <3>2. Plain("line", 0) \in ReplyOf
        BY PlainReply
      <3> QED
        BY <2>2, <3>1, <3>2
    <2> QED
      BY <1>2, <2>1, <2>2
  <1>5. m \in ReplyOf
    BY <1>4
  <1>6. Q' = Append(Q, m) /\ Q \in Seq(ReplyOf)
    BY <1>1, <1>2, <1>3, <1>5 DEF Q
  <1>7. /\ \A i \in DOMAIN Q' : (i \in DOMAIN Q /\ Q'[i] = Q[i]) \/ (i = Len(Q) + 1 /\ Q'[i] = m)
        /\ \A i \in DOMAIN Q : i \in DOMAIN Q' /\ Q'[i] = Q[i] /\ i \in Nat /\ i < Len(Q) + 1
        /\ Len(Q) + 1 \in DOMAIN Q' /\ Len(Q) \in Nat
    BY <1>5, <1>6, LastItem
  <1>8. /\ InOrder(Q, obuf) /\ Answers(Q, server) /\ InStep(Q, obuf, server) /\ BeforeArrays(Q, obuf, server)
        /\ NamesRegistered(Q, obuf, server) /\ Known(Q, obuf, server) /\ Unsubscribes(Q, obuf, server)
        /\ NotSubscribed(Q, obuf, server) /\ (server.monitor => Mon)
    BY <1>1, Piped
  <1>9. \A x \in DOMAIN issued : x \in Nat /\ x > 0
    <2>1. issued \in Seq(Command)
      BY DEF Types, WireTypes
    <2> QED
      BY <2>1
  <1> HIDE DEF Q
  <1>10. \A x \in DOMAIN issued : Waits(x, Q') <=> Waits(x, Q)
    BY <1>4, <1>7, <1>9 DEF Waits
  <1>11. InOrder(Q', obuf)
    <2>1. ASSUME NEW i \in DOMAIN Q', NEW j \in DOMAIN Q', i < j, Q'[i].id > 0, Q'[j].id > 0
          PROVE  Q'[i].id <= Q'[j].id /\ (~IsArray(Q'[j]) => Q'[i].id < Q'[j].id)
      <3>1. i \in DOMAIN Q /\ Q'[i] = Q[i] /\ j \in DOMAIN Q /\ Q'[j] = Q[j]
        BY <1>4, <1>7, <2>1
      <3> QED
        BY <1>8, <2>1, <3>1 DEF InOrder
    <2>2. ASSUME NEW i \in DOMAIN Q', NEW k \in DOMAIN obuf PROVE Q'[i].id < obuf[k].id
      <3>1. obuf[k].id > 0
        BY <1>8, <1>9 DEF InOrder
      <3>2. \A l \in DOMAIN Q : Q[l].id < obuf[k].id
        BY <1>8 DEF InOrder
      <3> QED
        BY <1>4, <1>7, <3>1, <3>2
    <2> QED
      BY <1>8, <2>1, <2>2 DEF InOrder
  <1>12. Answers(Q', server)
    <2>1. Answer(m) /\ m.type # "error" /\ (m.type = "line" => Mon)
      BY <1>4, <1>8 DEF Answer
    <2>2. \A i \in DOMAIN Q : Answer(Q[i]) /\ ~(Q[i].id = 0 /\ Q[i].type = "error") /\ (Q[i].type = "line" => Mon)
      BY <1>1, <1>8 DEF Answers
    <2> QED
      BY <1>7, <2>1, <2>2 DEF Answers
  <1>13. InStep(Q', obuf, server)
    <2> SUFFICES ASSUME NEW x \in DOMAIN issued, issued[x].op \in Other
                 PROVE  /\ Waits(x, Q') => Pending(x)
                        /\ server.open /\ Pending(x) => Waits(x, Q') \/ Waits(x, obuf)
                        /\ server.open /\ Waits(x, obuf) => Pending(x)
                        /\ Pending(x) /\ ~Waits(x, Q') => \A i \in DOMAIN Q' : Q'[i].id < x
      BY DEF InStep
    <2>1. /\ Waits(x, Q) => Pending(x)
          /\ server.open /\ Pending(x) => Waits(x, Q) \/ Waits(x, obuf)
          /\ server.open /\ Waits(x, obuf) => Pending(x)
          /\ Pending(x) /\ ~Waits(x, Q) => \A i \in DOMAIN Q : Q[i].id < x
      BY <1>8 DEF InStep
    <2> QED
      BY <1>4, <1>7, <1>9, <1>10, <2>1
  <1>14. BeforeArrays(Q', obuf, server)
    <2> SUFFICES ASSUME NEW x \in DOMAIN issued, issued[x].op \in Other, Waits(x, replies)
                 PROVE  /\ \A i \in DOMAIN Q' : IsArray(Q'[i]) => \E j \in DOMAIN Q' : j < i /\ Q'[j].id = x
                        /\ server.open /\ server.subs # {} => Waits(x, Q')
                        /\ \A k \in DOMAIN obuf : OfPubSub(obuf[k]) => x < obuf[k].id
      BY DEF BeforeArrays
    <2>1. /\ \A i \in DOMAIN Q : IsArray(Q[i]) => \E j \in DOMAIN Q : j < i /\ Q[j].id = x
          /\ server.subs # {} => Waits(x, Q)
          /\ \A k \in DOMAIN obuf : OfPubSub(obuf[k]) => x < obuf[k].id
      BY <1>1, <1>8 DEF BeforeArrays
    <2>2. ASSUME NEW i \in DOMAIN Q', IsArray(Q'[i]) PROVE \E j \in DOMAIN Q' : j < i /\ Q'[j].id = x
      <3>1. CASE i \in DOMAIN Q /\ Q'[i] = Q[i]
        BY <1>7, <2>1, <2>2, <3>1
      <3>2. CASE i = Len(Q) + 1 /\ Q'[i] = m
        <4>1. server.subs # {}
          BY <1>4, <2>2, <3>2 DEF IsArray
        <4>2. PICK j \in DOMAIN Q : Q[j].id = x
          BY <2>1, <4>1 DEF Waits
        <4> QED
          BY <1>7, <3>2, <4>2
      <3> QED
        BY <1>7, <3>1, <3>2
    <2> QED
      BY <1>10, <2>1, <2>2
  <1>15. NamesRegistered(Q', obuf, server)
    <2>1. IsArray(m) => Registered(m.p, m.name)
      BY <1>4, <1>8 DEF NamesRegistered, IsArray
    <2>2. \A i \in DOMAIN Q' : IsArray(Q'[i]) => Registered(Q'[i].p, Q'[i].name)
      BY <1>7, <1>8, <2>1 DEF NamesRegistered
    <2> QED
      BY <1>8, <2>2 DEF NamesRegistered
  <1>16. Known(Q', obuf, server)
    <2>1. \A p, n : Farewell(Q, p, n) => Farewell(Q', p, n)
      BY <1>7 DEF Farewell
    <2> QED
      BY <1>8, <2>1 DEF Known
  <1>17. Unsubscribes(Q', obuf, server)
    <2>1. ASSUME NEW i \in DOMAIN Q', Q'[i].type = "unsubscribe"
          PROVE  /\ Q'[i].id = Len(issued)
                 /\ \A j \in DOMAIN Q' : i < j /\ IsArray(Q'[j]) => Q'[j].p # Q'[i].p \/ Q'[j].name # Q'[i].name
                 /\ <<Q'[i].p, Q'[i].name>> \notin server.subs
                 /\ Q'[i].count = 0 => server.subs = {} /\ \A j \in DOMAIN Q' : i < j => ~IsArray(Q'[j])
      <3>1. i \in DOMAIN Q /\ Q'[i] = Q[i]
        BY <1>4, <1>7, <2>1
      <3>2. /\ Q[i].id = Len(issued)
            /\ \A j \in DOMAIN Q : i < j /\ IsArray(Q[j]) => Q[j].p # Q[i].p \/ Q[j].name # Q[i].name
            /\ <<Q[i].p, Q[i].name>> \notin server.subs
            /\ Q[i].count = 0 => server.subs = {} /\ \A j \in DOMAIN Q : i < j => ~IsArray(Q[j])
        BY <1>8, <2>1, <3>1 DEF Unsubscribes
      <3>3. IsArray(m) => m.p # Q[i].p \/ m.name # Q[i].name
        BY <1>4, <3>2 DEF IsArray
      <3>4. server.subs = {} => ~IsArray(m)
        BY <1>4 DEF IsArray
      <3> QED
        BY <1>7, <3>1, <3>2, <3>3, <3>4
    <2> QED
      BY <1>8, <2>1 DEF Unsubscribes
  <1>18. NotSubscribed(Q', obuf, server)
    <2>1. server.subs = {} => ~IsArray(m)
      BY <1>4 DEF IsArray
    <2> QED
      BY <1>7, <1>8, <2>1 DEF NotSubscribed
  <1>19. Pipe(Q', obuf', server')
    BY <1>1, <1>8, <1>11, <1>12, <1>13, <1>14, <1>15, <1>16, <1>17, <1>18 DEF Pipe
  <1> QED
    BY <1>1, <1>19, PipeMoved DEF Subscribed, Mon

\* What is added to a queue of callbacks or commands waits, and what was
\* waiting does.
LEMMA WaitsAppend ==
    ASSUME NEW S, NEW q \in Seq(S), NEW e \in S, NEW x
    PROVE  Waits(x, Append(q, e)) <=> Waits(x, q) \/ x = e.id
  <1> DEFINE q2 == Append(q, e)
  <1>1. /\ \A i \in DOMAIN q2 : (i \in DOMAIN q /\ q2[i] = q[i]) \/ (i = Len(q) + 1 /\ q2[i] = e)
        /\ \A i \in DOMAIN q : i \in DOMAIN q2 /\ q2[i] = q[i]
        /\ Len(q) + 1 \in DOMAIN q2 /\ q2[Len(q) + 1] = e
    BY LastItem
  <1> HIDE DEF q2
  <1>2. Waits(x, q2) => Waits(x, q) \/ x = e.id
    BY <1>1 DEF Waits
  <1>3. Waits(x, q) \/ x = e.id => Waits(x, q2)
    BY <1>1 DEF Waits
  <1> QED
    BY <1>2, <1>3 DEF q2

\* What a careful user waits for.
LEMMA CarefulMeans ==
    ASSUME Types, NEW op, NEW p \in BOOLEAN, NEW names \in Seq(Key), CarefulCommand(op, p, names)
    PROVE  /\ \A k \in DOMAIN obuf : obuf[k].op # "unsubscribe"
           /\ \A i \in DOMAIN Q : Q[i].type # "unsubscribe"
           /\ ~Mon
           /\ op = "monitor" => ~Subscribed /\ replies = <<>> /\ pc = "loop"
           /\ op = "unsubscribe" => IsInjective(names) /\ \A i \in DOMAIN names : Registered(p, names[i])
  <1>1. ~Unsubscribing /\ ~Mon /\ (op = "monitor" => ~Subscribed /\ replies = <<>> /\ pc = "loop")
    BY DEF CarefulCommand, Mon
  <1>2. reader \in Seq(ReplyOf) /\ inbuf \in Seq(ReplyOf)
    BY DEF Types, WireTypes
  <1>3. ASSUME NEW i \in DOMAIN Q PROVE Q[i].type # "unsubscribe"
    <2>1. (i \in DOMAIN reader /\ Q[i] = reader[i]) \/ (i - Len(reader) \in DOMAIN inbuf /\ Q[i] = inbuf[i - Len(reader)])
      BY <1>2 DEF Q
    <2> QED
      BY <1>1, <2>1 DEF Unsubscribing
  <1>4. ASSUME op = "unsubscribe", NEW i \in DOMAIN names PROVE Registered(p, names[i])
    <2>1. dictFind(Dictionary(p), names[i]) # NoEntry /\ names[i] \in Key
      BY <1>4 DEF CarefulCommand
    <2>2. Found(channels, FALSE) /\ Found(patterns, TRUE)
      BY DEF Types, TableTypes
    <2> QED
      BY <2>1, <2>2 DEF Found, Dictionary, Registered
  <1>5. op = "unsubscribe" => IsInjective(names)
    BY DEF CarefulCommand
  <1> QED
    BY <1>1, <1>3, <1>4, <1>5 DEF Unsubscribing

\* A new command.
LEMMA CommandPipe ==
    ASSUME Careful, Types, Commands, Monitoring, Pipeline, redisAsyncCommand
    PROVE  Pipeline'
  <1>1. PICK op, p, names, fn : Legal(op, p, names, fn) /\ __redisAsyncCommand(op, p, names, fn)
    BY CommandIssued
  <1> DEFINE c == NewCb(fn)
             cmd == NewCommand(op, p, names, fn)
             N == Len(issued) + 1
  <1>2. /\ c \in Callback /\ cmd \in Command
        /\ pc \in {"loop", "reply_cb", "connect_cb"}
        /\ op = "unsubscribe" => Subscribed
        /\ CarefulCommand(op, p, names)
        /\ flags' = flags \cup (IF op = "subscribe" THEN {"SUBSCRIBED"} ELSE {})
                          \cup (IF op = "monitor" THEN {"MONITORING"} ELSE {})
        /\ replies' = IF op = "monitor" \/ (op \in Other /\ ~Subscribed) THEN Append(replies, c) ELSE replies
        /\ invalid' = IF op \in Other /\ Subscribed THEN Append(invalid, c) ELSE invalid
        /\ obuf' = Append(obuf, cmd)
        /\ issued' = Append(issued, cmd)
        /\ \A v \in BOOLEAN, n \in Key :
              last'[v][n] = IF op = "subscribe" /\ v = p /\ n \in ToSet(names) THEN N ELSE last[v][n]
        /\ UNCHANGED <<pc, reader, inbuf, server>>
    BY <1>1, CommandEffect DEF peer
  <1>3. Live /\ op \in Ops /\ p \in BOOLEAN /\ names \in Seq(Key)
    BY <1>1, <1>2 DEF Live, Legal
  <1>4. c.id = N /\ cmd.id = N /\ cmd.op = op /\ cmd.p = p /\ cmd.names = names
    BY DEF NewCb, NewCommand
  <1>5. /\ \A k \in DOMAIN obuf : obuf[k].op # "unsubscribe"
        /\ \A i \in DOMAIN Q : Q[i].type # "unsubscribe"
        /\ ~Mon
        /\ op = "unsubscribe" => IsInjective(names) /\ \A i \in DOMAIN names : Registered(p, names[i])
    BY <1>2, <1>3, CarefulMeans
  <1>6. /\ InOrder(Q, obuf) /\ Answers(Q, server) /\ InStep(Q, obuf, server) /\ BeforeArrays(Q, obuf, server)
        /\ NamesRegistered(Q, obuf, server) /\ Known(Q, obuf, server) /\ Unsubscribes(Q, obuf, server)
        /\ NotSubscribed(Q, obuf, server) /\ (server.monitor => Mon)
    BY <1>3, Piped
  <1>7. issued \in Seq(Command) /\ obuf \in Seq(Command) /\ replies \in Seq(Callback) /\ invalid \in Seq(Callback)
        /\ Q \in Seq(ReplyOf) /\ Q' = Q /\ last \in [BOOLEAN -> [Key -> 0..MaxCmds]]
    BY <1>2 DEF Types, WireTypes, LocalTypes, TableTypes, Q
  <1> HIDE DEF c, cmd, Q
  <1>8. /\ N \in Nat /\ N > 0 /\ Len(issued') = N /\ N \in DOMAIN issued' /\ N \notin DOMAIN issued /\ issued'[N] = cmd
        /\ \A x \in DOMAIN issued : x \in DOMAIN issued' /\ issued'[x] = issued[x] /\ x \in Nat /\ x > 0 /\ x < N
        /\ \A x \in DOMAIN issued' : x \in DOMAIN issued \/ x = N
    BY <1>2, <1>7, LastItem
  <1>9. /\ \A i \in DOMAIN obuf' : (i \in DOMAIN obuf /\ obuf'[i] = obuf[i]) \/ (i = Len(obuf) + 1 /\ obuf'[i] = cmd)
        /\ \A i \in DOMAIN obuf : i \in DOMAIN obuf' /\ obuf'[i] = obuf[i] /\ i \in Nat /\ i < Len(obuf) + 1
        /\ Len(obuf) + 1 \in DOMAIN obuf' /\ obuf'[Len(obuf) + 1] = cmd /\ Len(obuf) \in Nat
    BY <1>2, <1>7, LastItem
  <1> HIDE DEF N
  <1>10. \A i \in DOMAIN Q : Q[i].id \in Nat /\ Q[i].id < N
    <2> SUFFICES ASSUME NEW i \in DOMAIN Q PROVE Q[i].id \in Nat /\ Q[i].id < N
      OBVIOUS
    <2>1. Q[i].id \in Nat
      <3>1. Q[i] \in ReplyOf
        BY <1>7
      <3> QED
        BY <3>1, ReplyFields
    <2>2. Answer(Q[i])
      BY <1>6 DEF Answers
    <2> QED
      BY <1>8, <2>1, <2>2 DEF Answer
  <1>11. \A k \in DOMAIN obuf : obuf[k].id \in DOMAIN issued /\ obuf[k].id < N
    BY <1>6, <1>8 DEF InOrder
  <1>12. /\ \A x : Waits(x, obuf') <=> Waits(x, obuf) \/ x = N
         /\ \A x : Waits(x, replies') <=> Waits(x, replies) \/ ((op = "monitor" \/ (op \in Other /\ ~Subscribed)) /\ x = N)
         /\ \A x : Waits(x, invalid') <=> Waits(x, invalid) \/ (op \in Other /\ Subscribed /\ x = N)
    <2>1. \A x : Waits(x, Append(obuf, cmd)) <=> Waits(x, obuf) \/ x = N
      BY <1>2, <1>4, <1>7, WaitsAppend
    <2>2. \A x : Waits(x, Append(replies, c)) <=> Waits(x, replies) \/ x = N
      BY <1>2, <1>4, <1>7, WaitsAppend
    <2>3. \A x : Waits(x, Append(invalid, c)) <=> Waits(x, invalid) \/ x = N
      BY <1>2, <1>4, <1>7, WaitsAppend
    <2>4. \A x : Waits(x, obuf') <=> Waits(x, obuf) \/ x = N
      BY <1>2, <2>1
    <2>5. \A x : Waits(x, replies') <=> Waits(x, replies) \/ ((op = "monitor" \/ (op \in Other /\ ~Subscribed)) /\ x = N)
      BY <1>2, <2>2
    <2>6. \A x : Waits(x, invalid') <=> Waits(x, invalid) \/ (op \in Other /\ Subscribed /\ x = N)
      BY <1>2, <2>3
    <2> QED
      BY <2>4, <2>5, <2>6
  <1>13. ~Waits(N, replies) /\ ~Waits(N, invalid) /\ ~Waits(N, Q) /\ ~Waits(N, obuf)
    <2>1. \A cc : OfCommand(cc) => cc.id # N
      BY <1>8 DEF OfCommand, NoCb
    <2>2. ~Waits(N, replies) /\ ~Waits(N, invalid)
      BY <2>1 DEF Commands, Waits
    <2>3. ~Waits(N, Q)
      BY <1>8, <1>10 DEF Waits
    <2>4. ~Waits(N, obuf)
      BY <1>8, <1>11 DEF Waits
    <2> QED
      BY <2>2, <2>3, <2>4
  <1>14. \A v \in BOOLEAN, n \in Key : Registered(v, n) => last'[v][n] # 0
    BY <1>2, <1>8 DEF Registered
  <1>15. (Subscribed' <=> Subscribed \/ op = "subscribe") /\ (Mon' <=> op = "monitor")
    BY <1>2, <1>5 DEF Subscribed, Mon
  <1>16. InOrder(Q, obuf)'
    <2>1. \A k \in DOMAIN obuf' : obuf'[k].id \in DOMAIN issued' /\ obuf'[k] = issued'[obuf'[k].id]
      <3>1. \A k \in DOMAIN obuf : obuf[k].id \in DOMAIN issued /\ obuf[k] = issued[obuf[k].id]
        BY <1>6 DEF InOrder
      <3> QED
        BY <1>4, <1>8, <1>9, <3>1
    <2>2. \A i, j \in DOMAIN obuf' : i < j => obuf'[i].id < obuf'[j].id
      <3> SUFFICES ASSUME NEW i \in DOMAIN obuf', NEW j \in DOMAIN obuf', i < j PROVE obuf'[i].id < obuf'[j].id
        OBVIOUS
      <3>1. i \in DOMAIN obuf /\ obuf'[i] = obuf[i]
        BY <1>9
      <3>2. CASE j \in DOMAIN obuf /\ obuf'[j] = obuf[j]
        BY <1>6, <3>1, <3>2 DEF InOrder, Increasing
      <3>3. CASE obuf'[j] = cmd
        BY <1>4, <1>11, <3>1, <3>3
      <3> QED
        BY <1>9, <3>2, <3>3
    <2>3. \A i \in DOMAIN Q, k \in DOMAIN obuf' : Q[i].id < obuf'[k].id
      <3>1. \A i \in DOMAIN Q, k \in DOMAIN obuf : Q[i].id < obuf[k].id
        BY <1>6 DEF InOrder
      <3> QED
        BY <1>4, <1>9, <1>10, <3>1
    <2>4. \A i, j \in DOMAIN Q : i < j /\ Q[i].id > 0 /\ Q[j].id > 0 =>
              Q[i].id <= Q[j].id /\ (~IsArray(Q[j]) => Q[i].id < Q[j].id)
      BY <1>6 DEF InOrder
    <2> QED
      BY <1>7, <2>1, <2>2, <2>3, <2>4 DEF InOrder, Increasing
  <1>17. Answers(Q, server)'
    <2>1. \A i \in DOMAIN Q : Answer(Q[i]) /\ (Q[i].id = 0 /\ Q[i].type = "error" => Len(Q) = 1 /\ ~server.open)
                              /\ Q[i].type # "line"
      BY <1>5, <1>6 DEF Answers
    <2>2. \A i \in DOMAIN Q : /\ Q[i].id > 0 => /\ Q[i].id \in DOMAIN issued'
                                                /\ IF OfPubSub(issued'[Q[i].id]) THEN Q[i].type = issued'[Q[i].id].op
                                                   ELSE Q[i].type \in {"ok", "error"}
                              /\ Q[i].id = 0 => Q[i].type \in {"message", "line", "error"}
      BY <1>8, <2>1 DEF Answer
    <2> QED
      BY <1>2, <1>7, <2>1, <2>2 DEF Answers, Answer
  <1>18. InStep(Q, obuf, server)'
    <2> DEFINE pending(x) == Waits(x, replies') \/ Waits(x, invalid')
    <2> SUFFICES ASSUME NEW x \in DOMAIN issued', issued'[x].op \in Other
                 PROVE  /\ Waits(x, Q) => pending(x)
                        /\ server.open /\ pending(x) => Waits(x, Q) \/ Waits(x, obuf')
                        /\ server.open /\ Waits(x, obuf') => pending(x)
                        /\ pending(x) /\ ~Waits(x, Q) => \A i \in DOMAIN Q : Q[i].id < x
      BY <1>2, <1>7 DEF InStep, Pending
    <2>1. CASE x = N
      <3>1. pending(x) /\ ~Waits(x, Q) /\ Waits(x, obuf')
        BY <1>4, <1>8, <1>12, <1>13, <2>1
      <3> QED
        BY <1>10, <2>1, <3>1
    <2>2. CASE x \in DOMAIN issued /\ x # N
      <3>1. (pending(x) <=> Pending(x)) /\ (Waits(x, obuf') <=> Waits(x, obuf)) /\ issued[x].op \in Other
        BY <1>8, <1>12, <2>2 DEF Pending
      <3> HIDE DEF pending
      <3> QED
        BY <1>6, <2>2, <3>1 DEF InStep
    <2> QED
      BY <1>8, <2>1, <2>2
  <1>19. BeforeArrays(Q, obuf, server)'
    <2> SUFFICES ASSUME NEW x \in DOMAIN issued', issued'[x].op \in Other, Waits(x, replies')
                 PROVE  /\ \A i \in DOMAIN Q : IsArray(Q[i]) => \E j \in DOMAIN Q : j < i /\ Q[j].id = x
                        /\ server.open /\ server.subs # {} => Waits(x, Q)
                        /\ \A k \in DOMAIN obuf' : OfPubSub(obuf'[k]) => x < obuf'[k].id
      BY <1>2, <1>7 DEF BeforeArrays
    <2>1. CASE x = N
      <3>1. op \in Other /\ ~Subscribed
        BY <1>4, <1>8, <1>12, <1>13, <2>1 DEF Other
      <3>2. server.subs = {} /\ (\A i \in DOMAIN Q : ~IsArray(Q[i])) /\ \A k \in DOMAIN obuf : ~OfPubSub(obuf[k])
        BY <1>6, <3>1 DEF NotSubscribed
      <3>3. ~OfPubSub(cmd)
        BY <1>4, <3>1 DEF OfPubSub, Other
      <3> QED
        BY <1>9, <3>2, <3>3
    <2>2. CASE x \in DOMAIN issued /\ x # N
      <3>1. Waits(x, replies) /\ issued[x].op \in Other /\ x < N
        BY <1>8, <1>12, <2>2
      <3>2. /\ \A i \in DOMAIN Q : IsArray(Q[i]) => \E j \in DOMAIN Q : j < i /\ Q[j].id = x
            /\ server.open /\ server.subs # {} => Waits(x, Q)
            /\ \A k \in DOMAIN obuf : OfPubSub(obuf[k]) => x < obuf[k].id
        BY <1>6, <2>2, <3>1 DEF BeforeArrays
      <3>3. \A k \in DOMAIN obuf' : OfPubSub(obuf'[k]) => x < obuf'[k].id
        BY <1>4, <1>9, <3>1, <3>2
      <3> QED
        BY <3>2, <3>3
    <2> QED
      BY <1>8, <2>1, <2>2
  <1>20. NamesRegistered(Q, obuf, server)'
    <2>1. \A i \in DOMAIN Q : IsArray(Q[i]) => last'[Q[i].p][Q[i].name] # 0
      <3> SUFFICES ASSUME NEW i \in DOMAIN Q, IsArray(Q[i]) PROVE last'[Q[i].p][Q[i].name] # 0
        OBVIOUS
      <3>1. Registered(Q[i].p, Q[i].name)
        BY <1>6 DEF NamesRegistered
      <3>2. Q[i].p \in BOOLEAN /\ Q[i].name \in Key
        <4>1. reader \in Seq(ReplyOf) /\ inbuf \in Seq(ReplyOf) /\ Named(reader) /\ Named(inbuf)
          BY DEF Types, WireTypes
        <4>2. Named(Q)
          <5>1. 0 \in Nat /\ 0 <= Len(reader)
            BY <4>1
          <5> QED
            BY <4>1, <5>1, NamedParts DEF Q
        <4>3. Q[i] \in ReplyOf
          BY <1>7
        <4> QED
          BY <4>2, <4>3, ReplyFields DEF Named
      <3> QED
        BY <1>14, <3>1, <3>2
    <2>2. \A v \in BOOLEAN, n \in Key : <<v, n>> \in server.subs => last'[v][n] # 0
      BY <1>6, <1>14 DEF NamesRegistered
    <2>3. ASSUME NEW k \in DOMAIN obuf', OfPubSub(obuf'[k]), NEW i \in DOMAIN obuf'[k].names
          PROVE  last'[obuf'[k].p][obuf'[k].names[i]] # 0
      <3>1. CASE k \in DOMAIN obuf /\ obuf'[k] = obuf[k]
        <4>1. Registered(obuf[k].p, obuf[k].names[i])
          BY <1>6, <2>3, <3>1 DEF NamesRegistered
        <4>2. obuf[k].p \in BOOLEAN /\ obuf[k].names \in Seq(Key)
          <5>1. obuf[k] \in Command
            BY <1>7, <3>1
          <5> QED
            BY <5>1, CommandFields
        <4>3. obuf[k].names[i] \in Key
          BY <2>3, <3>1, <4>2
        <4> QED
          BY <1>14, <3>1, <4>1, <4>2, <4>3
      <3>2. CASE obuf'[k] = cmd
        <4>1. i \in DOMAIN names /\ names[i] \in Key /\ op \in {"subscribe", "unsubscribe"}
          BY <1>3, <1>4, <2>3, <3>2 DEF OfPubSub
        <4>2. last'[p][names[i]] # 0
          <5>1. CASE op = "subscribe"
            <6>1. names[i] \in ToSet(names)
              BY <4>1 DEF ToSet
            <6> QED
              BY <1>2, <1>3, <1>8, <4>1, <5>1, <6>1
          <5>2. CASE op = "unsubscribe"
            BY <1>3, <1>5, <1>14, <4>1, <5>2
          <5> QED
            BY <4>1, <5>1, <5>2
        <4> QED
          BY <1>4, <3>2, <4>2
      <3> QED
        BY <1>9, <3>1, <3>2
    <2> QED
      BY <1>2, <1>7, <2>1, <2>2, <2>3 DEF NamesRegistered, Registered
  <1>21. Known(Q, obuf, server)'
    <2> SUFFICES ASSUME server.open, NEW v \in BOOLEAN, NEW n \in Key, last'[v][n] # 0
                 PROVE  <<v, n>> \in server.subs \/ Subscribes(obuf', v, n) \/ Farewell(Q, v, n)
      BY <1>2, <1>7 DEF Known, Registered
    <2>1. CASE op = "subscribe" /\ v = p /\ n \in ToSet(names)
      <3>1. PICK i \in DOMAIN names : names[i] = n
        BY <2>1 DEF ToSet
      <3>2. Subscribes(obuf', v, n)
        BY <1>4, <1>9, <2>1, <3>1 DEF Subscribes
      <3> QED
        BY <3>2
    <2>2. CASE ~(op = "subscribe" /\ v = p /\ n \in ToSet(names))
      <3>1. Registered(v, n)
        BY <1>2, <2>2 DEF Registered
      <3>2. <<v, n>> \in server.subs \/ Subscribes(obuf, v, n) \/ Farewell(Q, v, n)
        BY <1>6, <3>1 DEF Known
      <3>3. Subscribes(obuf, v, n) => Subscribes(obuf', v, n)
        <4> SUFFICES ASSUME NEW k \in DOMAIN obuf, obuf[k].op = "subscribe", obuf[k].p = v,
                            \E i \in DOMAIN obuf[k].names : obuf[k].names[i] = n
                     PROVE  Subscribes(obuf', v, n)
          BY DEF Subscribes
        <4>1. k \in DOMAIN obuf' /\ obuf'[k] = obuf[k]
          BY <1>9
        <4> QED
          BY <4>1 DEF Subscribes
      <3> QED
        BY <3>2, <3>3
    <2> QED
      BY <2>1, <2>2
  <1>22. Unsubscribes(Q, obuf, server)'
    <2>1. \A k \in DOMAIN obuf' : obuf'[k].op = "unsubscribe" => obuf'[k].id = Len(issued') /\ IsInjective(obuf'[k].names)
      BY <1>4, <1>5, <1>8, <1>9
    <2>2. \A i \in DOMAIN Q' : Q'[i].type # "unsubscribe"
      BY <1>5, <1>7
    <2> QED
      BY <2>1, <2>2 DEF Unsubscribes
  <1>23. NotSubscribed(Q, obuf, server)'
    <2> SUFFICES ASSUME ~Subscribed'
                 PROVE  /\ server.subs = {} /\ invalid' = <<>>
                        /\ \A i \in DOMAIN Q : ~IsArray(Q[i])
                        /\ \A k \in DOMAIN obuf' : ~OfPubSub(obuf'[k])
      BY <1>2, <1>7 DEF NotSubscribed
    <2>1. ~Subscribed /\ op \notin {"subscribe", "unsubscribe"}
      BY <1>2, <1>15
    <2>2. server.subs = {} /\ invalid = <<>> /\ (\A i \in DOMAIN Q : ~IsArray(Q[i])) /\ \A k \in DOMAIN obuf : ~OfPubSub(obuf[k])
      BY <1>6, <2>1 DEF NotSubscribed
    <2>3. ~OfPubSub(cmd)
      BY <1>4, <2>1 DEF OfPubSub
    <2> QED
      BY <1>2, <1>9, <2>1, <2>2, <2>3
  <1>24. server'.monitor => Mon'
    BY <1>2, <1>5, <1>6
  <1> QED
    BY <1>16, <1>17, <1>18, <1>19, <1>20, <1>21, <1>22, <1>23, <1>24 DEF Pipeline, Pipe

(***************************************************************************)
(* Each round of redisProcessCallbacks takes the first reply.              *)
(***************************************************************************)
LEMMA OtherIds ==
    ASSUME Types
    PROVE  \A x \in DOMAIN issued : x \in Nat /\ x > 0
  <1>1. issued \in Seq(Command)
    BY DEF Types, WireTypes
  <1> QED
    BY <1>1

\* What Run does to the flags.
LEMMA RunFlags ==
    ASSUME NEW c, NEW r, NEW fl, Run(c, r, fl, "reply_cb", "process")
    PROVE  /\ flags' = fl \/ flags' = fl \cup {"IN_CALLBACK"}
           /\ pc' \in {"reply_cb", "process"}
           /\ "SUBSCRIBED" \in flags' <=> "SUBSCRIBED" \in fl
           /\ "MONITORING" \in flags' <=> "MONITORING" \in fl
           /\ "DISCONNECTING" \in flags' <=> "DISCONNECTING" \in fl
           /\ "FREEING" \in flags' <=> "FREEING" \in fl
  <1>1. (flags' = fl \/ flags' = fl \cup {"IN_CALLBACK"}) /\ pc' \in {"reply_cb", "process"}
    BY DEF Run
  <1> QED
    BY <1>1

LEMMA ShiftedTakes ==
    ASSUME Types, Commands, Monitoring, Ordered, Pipeline, ShiftedReply
    PROVE  Takes(Head(reader)) /\ Live /\ Live' /\ UNCHANGED <<invalid, last, issued, err>>
           /\ (Subscribed' <=> Subscribed) /\ (Mon' <=> Mon)
  <1> DEFINE r == Head(reader)
  <1>1. /\ pc = "process" /\ reader # <<>> /\ replies # <<>> /\ reader' = Tail(reader)
        /\ replies' = Tail(replies) /\ UNCHANGED <<invalid, obuf, inbuf, server, issued, last, err>>
        /\ Run(Head(replies), r, flags, "reply_cb", "process")
    BY DEF ShiftedReply, peer
  <1>2. (Subscribed' <=> Subscribed) /\ (Mon' <=> Mon) /\ Live /\ Live'
    BY <1>1, RunFlags DEF Subscribed, Mon, Live
  <1>3. ~IsArray(r)
    BY <1>1, <1>2, ArrayHead
  <1>4. ASSUME NEW x \in DOMAIN issued, issued[x].op \in Other
        PROVE  /\ Waits(x, replies') => Waits(x, replies)
               /\ Waits(x, replies') \/ Waits(x, invalid') => Pending(x) /\ x # r.id
               /\ Pending(x) /\ ~(Waits(x, replies') \/ Waits(x, invalid')) => x = r.id \/ (Len(Q) = 1 /\ ~server.open)
    <2>1. CASE Mon
      <3>1. ~Waits(x, replies) /\ ~Waits(x, invalid)
        BY <1>4, <2>1, MonitorQuiet DEF Pending, IsOther
      <3>2. replies \in Seq(Callback)
        BY DEF Types, LocalTypes
      <3>3. ~Waits(x, Tail(replies))
        <4>1. \A i \in DOMAIN Tail(replies) : i + 1 \in DOMAIN replies /\ Tail(replies)[i] = replies[i + 1]
          BY <1>1, <3>2, TailItems
        <4> QED
          BY <3>1, <4>1 DEF Waits
      <3> QED
        BY <1>1, <3>1, <3>3 DEF Pending
    <2>2. CASE ~Mon
      <3> DEFINE h == Head(replies).id
      <3>1. /\ \A y : Waits(y, Tail(replies)) <=> Waits(y, replies) /\ y # h
            /\ ~Waits(h, invalid)
        BY <1>1, <2>2, HeadPending
      <3>2. r.id = h \/ (r.id = 0 /\ Len(Q) = 1 /\ ~server.open)
        BY <1>1, <1>2, <2>2, OwnHead
      <3>3. x > 0 /\ x \in Nat
        BY OtherIds
      <3> HIDE DEF h, r
      <3> QED
        BY <1>1, <3>1, <3>2, <3>3 DEF Pending
    <2> QED
      BY <2>1, <2>2
  <1>5. r.type # "unsubscribe"
    BY <1>3 DEF IsArray
  <1> HIDE DEF r
  <1>6. Takes(r)
    BY <1>1, <1>2, <1>4, <1>5 DEF Takes, Pending
  <1> QED
    BY <1>1, <1>2, <1>6 DEF r

LEMMA PubSubTakes ==
    ASSUME Types, Commands, Monitoring, Ordered, Pipeline, PubSubReply
    PROVE  /\ Takes(Head(reader)) /\ Live /\ Live' /\ UNCHANGED <<replies, invalid, issued, err>>
           /\ Registered(Head(reader).p, Head(reader).name)
           /\ cb' = [id |-> last[Head(reader).p][Head(reader).name], fn |-> TRUE]
           /\ Subscribed /\ ~Mon /\ replies = <<>> /\ (Mon' <=> Mon) /\ IsArray(Head(reader)) /\ Head(reader) \in ReplyOf
           /\ \A p \in BOOLEAN, n \in Key : last'[p][n] \in {0, last[p][n]}
           /\ got' = [got EXCEPT ![last[Head(reader).p][Head(reader).name]] = Append(@, Head(reader))]
  <1> DEFINE r == Head(reader)
             gone == r.type = "unsubscribe"
  <1>1. /\ pc = "process" /\ reader # <<>> /\ replies = <<>> /\ reader' = Tail(reader) /\ IsArray(r)
        /\ UNCHANGED <<replies, invalid, obuf, inbuf, server, issued, err>>
    BY DEF PubSubReply, Unexpected, peer
  <1>2. Live
    BY <1>1 DEF Live
  <1>3. Subscribed /\ ~Mon /\ r.p \in BOOLEAN /\ r.name \in Key /\ Registered(r.p, r.name)
    BY <1>1, <1>2, ArrayHead
  <1>4. /\ r \in ReplyOf
        /\ cb' = [id |-> last[r.p][r.name], fn |-> TRUE]
        /\ \A v \in BOOLEAN, n \in Key : last'[v][n] = IF gone /\ v = r.p /\ n = r.name THEN 0 ELSE last[v][n]
        /\ Run(cb', r, IF gone THEN Unsubscribed(r) ELSE flags, "reply_cb", "process")
    BY <1>3, PubSubEffect DEF Registered
  <1> DEFINE fl == IF gone THEN Unsubscribed(r) ELSE flags
  <1>5. /\ "SUBSCRIBED" \in fl <=> Subscribed /\ ~(r.type = "unsubscribe" /\ r.count = 0)
        /\ "MONITORING" \in fl <=> Mon
    BY DEF Unsubscribed, Subscribed, Mon
  <1>6. /\ "SUBSCRIBED" \in flags' <=> "SUBSCRIBED" \in fl
        /\ "MONITORING" \in flags' <=> "MONITORING" \in fl
        /\ pc' \in {"reply_cb", "process"}
    <2> HIDE DEF fl
    <2>1. Run(cb', r, fl, "reply_cb", "process")
      BY <1>4 DEF fl
    <2> QED
      BY <2>1, RunFlags
  <1>7. got' = [got EXCEPT ![last[r.p][r.name]] = Append(@, r)]
    BY <1>4 DEF Run
  <1> HIDE DEF fl
  <1>8. ASSUME NEW x \in DOMAIN issued, issued[x].op \in Other PROVE x # r.id
    <2>1. Answer(r)
      <3>1. 1 \in DOMAIN Q /\ Q[1] = r
        BY <1>1, HeadOfQ
      <3> QED
        BY <1>2, <3>1, Piped DEF Answers
    <2>2. x > 0
      BY OtherIds
    <2> QED
      BY <1>1, <1>8, <2>1, <2>2 DEF Answer, OfPubSub, Other, IsArray
  <1>9. \A x : (Waits(x, replies') <=> Waits(x, replies)) /\ (Waits(x, invalid') <=> Waits(x, invalid))
    BY <1>1
  <1> HIDE DEF r
  <1>10. (Subscribed' <=> Subscribed /\ ~(r.type = "unsubscribe" /\ r.count = 0)) /\ (Mon' <=> Mon) /\ Live'
    BY <1>5, <1>6 DEF Subscribed, Mon, Live
  <1>11. Takes(r)
    BY <1>1, <1>4, <1>8, <1>9, <1>10 DEF Takes, Pending
  <1>12. \A p \in BOOLEAN, n \in Key : last'[p][n] \in {0, last[p][n]}
    BY <1>4
  <1> QED
    BY <1>1, <1>2, <1>3, <1>4, <1>7, <1>10, <1>11, <1>12 DEF r

LEMMA InvalidTakes ==
    ASSUME Types, Commands, Monitoring, Ordered, Pipeline, InvalidReply
    PROVE  /\ Takes(Head(reader)) /\ Live /\ Live' /\ UNCHANGED <<replies, last, issued, err>>
           /\ invalid # <<>> /\ cb' = Head(invalid) /\ invalid' = Tail(invalid) /\ Head(reader).id = Head(invalid).id
           /\ Subscribed /\ ~Mon /\ replies = <<>> /\ (Subscribed' <=> Subscribed) /\ (Mon' <=> Mon)
           /\ Run(Head(invalid), Head(reader), flags, "reply_cb", "process") /\ Head(reader) \in ReplyOf
  <1> DEFINE r == Head(reader)
  <1>1. /\ pc = "process" /\ reader # <<>> /\ replies = <<>> /\ reader' = Tail(reader) /\ ~IsArray(r) /\ Subscribed /\ Unexpected
        /\ UNCHANGED <<replies, obuf, inbuf, server, issued, last, err>>
        /\ Run(cb', r, flags, "reply_cb", "process")
    BY DEF InvalidReply, Unexpected, peer
  <1>2. (Subscribed' <=> Subscribed) /\ (Mon' <=> Mon) /\ Live /\ Live'
    BY <1>1, RunFlags DEF Subscribed, Mon, Live
  <1>3. ~Mon
    BY <1>1 DEF Monitoring
  <1>4. invalid # <<>> /\ r.id = Head(invalid).id
    BY <1>1, <1>3, OtherHead
  <1>5. cb' = Head(invalid) /\ invalid' = Tail(invalid)
    BY <1>4 DEF InvalidReply
  <1>6. \A x : Waits(x, Tail(invalid)) <=> Waits(x, invalid) /\ x # r.id
    BY <1>1, <1>3, <1>4, HeadInvalid
  <1>7. r.type # "unsubscribe"
    BY <1>1 DEF IsArray
  <1>8. r \in ReplyOf
    BY <1>1, HeadOfQ
  <1> HIDE DEF r
  <1>9. \A x : ~Waits(x, replies) /\ ~Waits(x, replies')
    BY <1>1 DEF Waits
  <1>10. Takes(r)
    BY <1>1, <1>2, <1>4, <1>5, <1>6, <1>7, <1>9 DEF Takes, Pending
  <1> QED
    BY <1>1, <1>2, <1>3, <1>4, <1>5, <1>8, <1>10 DEF r

\* The assertion of redisProcessCallbacks holds.
LEMMA OtherTakes ==
    ASSUME Types, Commands, Monitoring, Ordered, Pipeline, OtherReply
    PROVE  /\ Takes(Head(reader)) /\ Live /\ Live' /\ UNCHANGED <<replies, invalid, last, issued, err, cb>>
           /\ Mon /\ replies = <<>> /\ (Subscribed' <=> Subscribed) /\ (Mon' <=> Mon) /\ ~IsArray(Head(reader))
           /\ Run(cb, Head(reader), flags, "reply_cb", "process") /\ Head(reader) \in ReplyOf
  <1> DEFINE r == Head(reader)
  <1>1. /\ pc = "process" /\ reader # <<>> /\ replies = <<>> /\ ~Subscribed /\ Unexpected
        /\ UNCHANGED <<replies, invalid, obuf, inbuf, server, issued, last, err, cb>>
    BY DEF OtherReply, Unexpected, peer
  <1>2. Live
    BY <1>1 DEF Live
  <1>3. ~IsArray(r)
    BY <1>1, <1>2, ArrayHead
  <1>4. Mon
    BY <1>1, <1>3, OtherHead
  <1>5. reader' = Tail(reader) /\ Run(cb, r, flags, "reply_cb", "process")
    BY <1>4 DEF OtherReply, Mon
  <1>6. (Subscribed' <=> Subscribed) /\ (Mon' <=> Mon) /\ Live'
    BY <1>5, RunFlags DEF Subscribed, Mon, Live
  <1>7. \A x \in DOMAIN issued : issued[x].op \in Other => ~Pending(x)
    BY <1>4, MonitorQuiet DEF IsOther
  <1>8. r.type # "unsubscribe" /\ r \in ReplyOf
    BY <1>1, <1>3, HeadOfQ DEF IsArray
  <1> HIDE DEF r
  <1>9. \A x : (Waits(x, replies') <=> Waits(x, replies)) /\ (Waits(x, invalid') <=> Waits(x, invalid))
    BY <1>1
  <1>10. Takes(r)
    BY <1>1, <1>5, <1>6, <1>7, <1>8, <1>9 DEF Takes, Pending
  <1> QED
    BY <1>1, <1>2, <1>3, <1>4, <1>5, <1>6, <1>8, <1>10 DEF r

\* Nothing of the pipeline moves.
LEMMA QuietPipe ==
    ASSUME Types, Pipeline, Live' => Live, UNCHANGED <<reader, inbuf, obuf, issued, last, replies, invalid>>,
           server' = server \/ server' = [server EXCEPT !.open = FALSE],
           Subscribed' <=> Subscribed, Mon' <=> Mon
    PROVE  Pipeline'
  <1> SUFFICES ASSUME Live' PROVE Pipeline'
    BY DEF Pipeline
  <1>1. Q' = Q
    BY DEF Q
  <1>2. SameWaits
    BY DEF SameWaits
  <1>3. ServerTypes(server)
    BY DEF Types, WireTypes
  <1> QED
    BY <1>1, <1>2, <1>3, PipeSame

\* The user, the server, or nobody does something else.
LEMMA OthersPipe ==
    ASSUME Types, Pipeline,
           redisAsyncDisconnect \/ redisAsyncFree \/ ServerCloses \/ ReplyCallbackReturns \/ UNCHANGED vars
    PROVE  Pipeline'
  <1>1. /\ UNCHANGED <<reader, inbuf, obuf, issued, last, replies, invalid>>
        /\ server' = server \/ server' = [server EXCEPT !.open = FALSE]
    <2>1. CASE redisAsyncDisconnect
      BY <2>1 DEF redisAsyncDisconnect, peer, told
    <2>2. CASE redisAsyncFree
      BY <2>2 DEF redisAsyncFree, peer, told
    <2>3. CASE ServerCloses
      BY <2>3 DEF ServerCloses, local, told
    <2>4. CASE ReplyCallbackReturns
      BY <2>4 DEF ReplyCallbackReturns, peer, told
    <2>5. CASE UNCHANGED vars
      BY <2>5 DEF vars, local, peer, told
    <2> QED
      BY <2>1, <2>2, <2>3, <2>4, <2>5
  <1>2. (Live' => Live) /\ (Subscribed' <=> Subscribed) /\ (Mon' <=> Mon)
    <2>1. CASE redisAsyncDisconnect
      BY <2>1 DEF redisAsyncDisconnect, Live, Subscribed, Mon
    <2>2. CASE redisAsyncFree
      BY <2>2 DEF redisAsyncFree, Live, Subscribed, Mon
    <2>3. CASE ServerCloses
      BY <2>3 DEF ServerCloses, local, Live, Subscribed, Mon
    <2>4. CASE ReplyCallbackReturns
      BY <2>4 DEF ReplyCallbackReturns, Live, Subscribed, Mon
    <2>5. CASE UNCHANGED vars
      BY <2>5 DEF vars, local, Live, Subscribed, Mon
    <2> QED
      BY <2>1, <2>2, <2>3, <2>4, <2>5
  <1> QED
    BY <1>1, <1>2, QuietPipe

\* The monitor callback is pushed again.
LEMMA NoReplyPipe ==
    ASSUME Types, Monitoring, Pipeline, NoReply
    PROVE  Pipeline' /\ SameWaits /\ (~Mon => replies' = replies)
           /\ (Mon => \A i \in DOMAIN replies' : MonCb(replies'[i])) /\ UNCHANGED <<invalid, cb>>
           /\ pc' # "aborted" /\ pc' \in {"loop", "free"} /\ (pc' = "free" => replies' = <<>>)
  <1>1. /\ pc = "process" /\ UNCHANGED <<invalid, obuf, reader, inbuf, server, issued, last, cb>>
        /\ replies' = replies \/ (Mon /\ replies' = Append(replies, cb))
        /\ ~Mon => replies' = replies
        /\ pc' \in {"loop", "free"} /\ (pc' = "free" => replies' = <<>>)
        /\ flags' = flags
    BY DEF NoReply, Disconnect, peer, told, Mon
  <1>2. replies \in Seq(Callback) /\ cb \in Callback
    BY DEF Types, LocalTypes
  <1>3. Mon => MonCb(cb) /\ \A i \in DOMAIN replies : MonCb(replies[i])
    BY <1>1 DEF Monitoring
  <1>4. \A x : Waits(x, Append(replies, cb)) <=> Waits(x, replies) \/ x = cb.id
    BY <1>2, WaitsAppend
  <1>5. Mon => \A x : IsOther(x) => x # cb.id
    BY <1>3, MonitorQuiet
  <1>6. SameWaits
    <2>1. ASSUME NEW x \in DOMAIN issued, issued[x].op \in Other
          PROVE  Waits(x, replies') <=> Waits(x, replies)
      <3>1. CASE replies' = replies
        BY <3>1
      <3>2. CASE Mon /\ replies' = Append(replies, cb)
        BY <1>4, <1>5, <2>1, <3>2 DEF IsOther
      <3> QED
        BY <1>1, <3>1, <3>2
    <2> QED
      BY <1>1, <2>1 DEF SameWaits
  <1>7. Mon => \A i \in DOMAIN replies' : MonCb(replies'[i])
    <2> SUFFICES ASSUME Mon PROVE \A i \in DOMAIN replies' : MonCb(replies'[i])
      OBVIOUS
    <2>1. CASE replies' = replies
      BY <1>3, <2>1
    <2>2. CASE replies' = Append(replies, cb)
      <3>1. \A i \in DOMAIN Append(replies, cb) :
               (i \in DOMAIN replies /\ Append(replies, cb)[i] = replies[i]) \/ Append(replies, cb)[i] = cb
        BY <1>2, LastItem
      <3> QED
        BY <1>3, <2>2, <3>1
    <2> QED
      BY <1>1, <2>1, <2>2
  <1>8. Pipeline'
    <2> SUFFICES ASSUME Live' PROVE Pipeline'
      BY DEF Pipeline
    <2>1. Q' = Q /\ Live /\ (Subscribed' <=> Subscribed) /\ (Mon' <=> Mon)
      BY <1>1 DEF Q, Live, Subscribed, Mon
    <2>2. ServerTypes(server)
      BY DEF Types, WireTypes
    <2> QED
      BY <1>1, <1>6, <2>1, <2>2, PipeSame
  <1> QED
    BY <1>1, <1>6, <1>7, <1>8

\* What ends in __redisAsyncFree.
LEMMA FreePipe ==
    ASSUME SpontaneousError \/ __redisAsyncFree
    PROVE  Pipeline' /\ pc' \in {"free", "free_cb", "gone"}
  <1>1. pc' \in {"free", "free_cb", "gone"}
    <2>1. CASE SpontaneousError
      BY <2>1 DEF SpontaneousError, Disconnect
    <2>2. CASE FreeShifts
      BY <2>2 DEF FreeShifts, Run
    <2>3. CASE FreeWalks
      BY <2>3 DEF FreeWalks, Run
    <2>4. CASE FreeCallbackReturns
      BY <2>4 DEF FreeCallbackReturns
    <2>5. CASE FreeEnds
      BY <2>5 DEF FreeEnds
    <2> QED
      BY <2>1, <2>2, <2>3, <2>4, <2>5 DEF __redisAsyncFree
  <1> QED
    BY <1>1 DEF Pipeline, Live

LEMMA NextKeepsPipeline ==
    ASSUME Careful, Types, Commands, Connecting, Monitoring, Ordered, Pipeline, [Next]_vars
    PROVE  Pipeline'
  <1>1. CASE redisAsyncCommand
    BY <1>1, CommandPipe
  <1>2. CASE redisAsyncDisconnect \/ redisAsyncFree \/ ServerCloses \/ ReplyCallbackReturns \/ UNCHANGED vars
    BY <1>2, OthersPipe
  <1>3. CASE __redisAsyncHandleConnect
    BY <1>3, ConnectPipe
  <1>4. CASE redisAsyncHandleWrite
    BY <1>4, WritePipe
  <1>5. CASE redisAsyncHandleRead
    BY <1>5, ReadPipe
  <1>6. CASE ServerSpeaks
    BY <1>6, SpeaksPipe
  <1>7. CASE NoReply
    BY <1>7, NoReplyPipe
  <1>8. CASE SpontaneousError \/ __redisAsyncFree
    BY <1>8, FreePipe
  <1>9. CASE ShiftedReply \/ PubSubReply \/ InvalidReply \/ OtherReply
    <2>1. Takes(Head(reader)) /\ Live
      BY <1>9, ShiftedTakes, PubSubTakes, InvalidTakes, OtherTakes
    <2> QED
      BY <2>1, PipeTail
  <1> QED
    BY <1>1, <1>2, <1>3, <1>4, <1>5, <1>6, <1>7, <1>8, <1>9 DEF Next, User, EventLoop, redisProcessCallbacks

(***************************************************************************)
(* The queues.                                                             *)
(***************************************************************************)
\* A context that starts to monitor has nothing else pending.
LEMMA CommandMonitors ==
    ASSUME Careful, Types, Commands, Monitoring, Pipeline, redisAsyncCommand
    PROVE  Monitoring'
  <1>1. PICK op, p, names, fn : Legal(op, p, names, fn) /\ __redisAsyncCommand(op, p, names, fn)
    BY CommandIssued
  <1> DEFINE c == NewCb(fn)
             cmd == NewCommand(op, p, names, fn)
             N == Len(issued) + 1
  <1>2. /\ c \in Callback /\ cmd \in Command
        /\ pc \in {"loop", "reply_cb", "connect_cb"}
        /\ op = "unsubscribe" => Subscribed
        /\ CarefulCommand(op, p, names)
        /\ flags' = flags \cup (IF op = "subscribe" THEN {"SUBSCRIBED"} ELSE {})
                          \cup (IF op = "monitor" THEN {"MONITORING"} ELSE {})
        /\ replies' = IF op = "monitor" \/ (op \in Other /\ ~Subscribed) THEN Append(replies, c) ELSE replies
        /\ invalid' = IF op \in Other /\ Subscribed THEN Append(invalid, c) ELSE invalid
        /\ issued' = Append(issued, cmd)
        /\ UNCHANGED pc
    BY <1>1, CommandEffect
  <1>3. p \in BOOLEAN /\ names \in Seq(Key)
    BY <1>1 DEF Legal
  <1>4. ~Mon /\ (op = "monitor" => ~Subscribed /\ replies = <<>> /\ pc = "loop")
    BY <1>2, <1>3, CarefulMeans
  <1>5. issued \in Seq(Command) /\ replies \in Seq(Callback)
    BY DEF Types, WireTypes, LocalTypes
  <1>6. c.id = N /\ cmd.op = op
    BY DEF NewCb, NewCommand
  <1> HIDE DEF c, cmd, N
  <1>7. /\ \A x \in DOMAIN issued : x \in DOMAIN issued' /\ issued'[x] = issued[x]
        /\ \A x \in DOMAIN issued' : x \in DOMAIN issued \/ (x = N /\ issued'[x] = cmd)
        /\ issued'[N] = cmd
    BY <1>2, <1>5, LastItem DEF N
  <1>8. (Mon' <=> op = "monitor") /\ (Subscribed' <=> Subscribed \/ op = "subscribe")
    BY <1>2, <1>4 DEF Mon, Subscribed
  <1>9. \A x \in DOMAIN issued' : issued'[x].op = "monitor" => Mon'
    BY <1>4, <1>6, <1>7, <1>8 DEF Monitoring
  <1>10. ASSUME Mon'
         PROVE  /\ invalid' = <<>> /\ ~Subscribed'
                /\ \A i \in DOMAIN replies' : replies'[i].id = N
                /\ pc' = "loop"
    <2>1. op = "monitor" /\ ~Subscribed /\ replies = <<>> /\ pc = "loop"
      BY <1>4, <1>8, <1>10
    <2>2. invalid = <<>>
      BY <1>2, <2>1, Piped DEF Live, NotSubscribed
    <2>3. invalid' = <<>> /\ ~Subscribed' /\ pc' = "loop"
      BY <1>2, <1>8, <2>1, <2>2 DEF Other
    <2>4. replies' = <<c>>
      BY <1>2, <2>1
    <2> QED
      BY <1>6, <2>3, <2>4
  <1>11. issued'[N].op = "monitor" <=> Mon'
    BY <1>6, <1>7, <1>8
  <1> QED
    BY <1>9, <1>10, <1>11 DEF Monitoring, MonCb

LEMMA MonitoringKept ==
    ASSUME Monitoring, issued' = issued, Mon' <=> Mon, Mon /\ Subscribed' => Subscribed,
           invalid = <<>> => invalid' = <<>>,
           Mon => \A i \in DOMAIN replies' : MonCb(replies'[i]),
           Mon /\ pc' \in {"process", "reply_cb"} => MonCb(cb')
    PROVE  Monitoring'
  <1>1. \A x \in DOMAIN issued' : issued'[x].op = "monitor" => Mon'
    BY DEF Monitoring
  <1>2. Mon' => invalid' = <<>> /\ ~Subscribed'
    BY DEF Monitoring
  <1>3. Mon' => \A i \in DOMAIN replies' : MonCb(replies[i])'
    BY DEF MonCb
  <1>4. Mon' /\ pc' \in {"process", "reply_cb"} => MonCb(cb)'
    BY DEF MonCb
  <1> QED
    BY <1>1, <1>2, <1>3, <1>4 DEF Monitoring

LEMMA TailMonitors ==
    ASSUME Types, Monitoring, Mon, replies # <<>>
    PROVE  MonCb(Head(replies)) /\ \A i \in DOMAIN Tail(replies) : MonCb(Tail(replies)[i])
  <1>1. replies \in Seq(Callback)
    BY DEF Types, LocalTypes
  <1>2. /\ \A i \in DOMAIN Tail(replies) : i + 1 \in DOMAIN replies /\ Tail(replies)[i] = replies[i + 1]
        /\ 1 \in DOMAIN replies /\ Head(replies) = replies[1]
    BY <1>1, TailItems
  <1>3. \A i \in DOMAIN replies : MonCb(replies[i])
    BY DEF Monitoring
  <1> QED
    BY <1>2, <1>3

\* What __redisAsyncFree does to the queues.
LEMMA FreeQueues ==
    ASSUME Types, Commands, __redisAsyncFree
    PROVE  /\ pc \in {"free", "free_cb"} /\ pc' \in {"free", "free_cb", "gone"}
           /\ UNCHANGED <<issued, last, cb, err, inbuf, reader, obuf, channels, patterns>>
           /\ "SUBSCRIBED" \in flags' <=> "SUBSCRIBED" \in flags
           /\ "MONITORING" \in flags' <=> "MONITORING" \in flags
           /\ "FREEING" \in flags' <=> "FREEING" \in flags
           /\ replies' = replies \/ (replies # <<>> /\ replies' = Tail(replies))
           /\ invalid' = invalid \/ (invalid # <<>> /\ invalid' = Tail(invalid))
  <1>1. CASE FreeShifts
    <2>1. /\ pc = "free" /\ pc' \in {"free", "free_cb"}
          /\ UNCHANGED <<issued, last, cb, err, inbuf, reader, obuf, channels, patterns>>
          /\ flags' = flags \/ flags' = flags \cup {"IN_CALLBACK"}
          /\ replies' = replies \/ (replies # <<>> /\ replies' = Tail(replies))
          /\ invalid' = invalid \/ (invalid # <<>> /\ invalid' = Tail(invalid))
      BY <1>1 DEF FreeShifts, Run, peer
    <2> QED
      BY <2>1
  <1>2. CASE FreeWalks
    <2>1. /\ pc = "free" /\ pc' \in {"free", "free_cb"}
          /\ UNCHANGED <<issued, last, cb, err, inbuf, reader, obuf, replies, invalid, channels, patterns>>
          /\ flags' = flags \/ flags' = flags \cup {"IN_CALLBACK"}
      BY <1>2 DEF FreeWalks, Run, peer
    <2> QED
      BY <2>1
  <1>3. CASE FreeCallbackReturns
    BY <1>3 DEF FreeCallbackReturns, peer, told
  <1>4. CASE FreeEnds
    BY <1>4 DEF FreeEnds, told
  <1> QED
    BY <1>1, <1>2, <1>3, <1>4 DEF __redisAsyncFree

\* What the steps outside redisProcessCallbacks and __redisAsyncFree leave
\* alone; only redisAsyncHandleRead enters the processing.
Quiet == redisAsyncDisconnect \/ redisAsyncFree \/ ServerCloses \/ ServerSpeaks \/ ReplyCallbackReturns
         \/ SpontaneousError \/ __redisAsyncHandleConnect \/ redisAsyncHandleWrite \/ redisAsyncHandleRead \/ UNCHANGED vars

LEMMA QuietEffect ==
    ASSUME Quiet
    PROVE  /\ UNCHANGED <<replies, invalid, issued, got, last, walk, channels, patterns, left>>
           /\ "SUBSCRIBED" \in flags' <=> "SUBSCRIBED" \in flags
           /\ "MONITORING" \in flags' <=> "MONITORING" \in flags
           /\ (pc' \in {"process", "reply_cb"} => cb' = NoCb \/ (pc \in {"process", "reply_cb"} /\ cb' = cb))
           /\ (pc' = "aborted" => pc = "aborted") /\ (pc' = "gone" => pc = "gone")
  <1>1. CASE redisAsyncDisconnect
    BY <1>1 DEF redisAsyncDisconnect, told
  <1>2. CASE redisAsyncFree
    BY <1>2 DEF redisAsyncFree, told
  <1>3. CASE ServerCloses
    BY <1>3 DEF ServerCloses, local, told
  <1>4. CASE ServerSpeaks
    BY <1>4 DEF ServerSpeaks, local, told
  <1>5. CASE ReplyCallbackReturns
    BY <1>5 DEF ReplyCallbackReturns, told
  <1>6. CASE SpontaneousError
    BY <1>6 DEF SpontaneousError, Disconnect, told
  <1>7. CASE __redisAsyncHandleConnect
    BY <1>7 DEF __redisAsyncHandleConnect, Disconnect, told
  <1>8. CASE redisAsyncHandleWrite
    BY <1>8 DEF redisAsyncHandleWrite, Disconnect, told
  <1>9. CASE redisAsyncHandleRead
    BY <1>9 DEF redisAsyncHandleRead, Disconnect, told
  <1>10. CASE UNCHANGED vars
    BY <1>10 DEF vars, local, told
  <1> QED
    BY <1>1, <1>2, <1>3, <1>4, <1>5, <1>6, <1>7, <1>8, <1>9, <1>10 DEF Quiet

LEMMA NextSteps ==
    ASSUME [Next]_vars
    PROVE  \/ redisAsyncCommand \/ Quiet \/ NoReply \/ ShiftedReply \/ PubSubReply \/ InvalidReply \/ OtherReply
           \/ __redisAsyncFree
  BY DEF Next, User, EventLoop, redisProcessCallbacks, Quiet

LEMMA NextKeepsMonitoring ==
    ASSUME Careful, Types, Commands, Monitoring, Ordered, Pipeline, [Next]_vars
    PROVE  Monitoring'
  <1>0. Mon => \A i \in DOMAIN replies : MonCb(replies[i])
    BY DEF Monitoring
  <1>1. CASE redisAsyncCommand
    BY <1>1, CommandMonitors
  <1>2. CASE Quiet
    <2>1. /\ UNCHANGED <<replies, invalid, issued>>
          /\ (Subscribed' <=> Subscribed) /\ (Mon' <=> Mon)
          /\ (pc' \in {"process", "reply_cb"} => cb' = NoCb \/ (pc \in {"process", "reply_cb"} /\ cb' = cb))
      BY <1>2, QuietEffect DEF Subscribed, Mon
    <2>2. MonCb(NoCb)
      BY DEF MonCb, NoCb
    <2>3. Mon /\ pc' \in {"process", "reply_cb"} => MonCb(cb')
      BY <2>1, <2>2 DEF Monitoring
    <2> QED
      BY <1>0, <2>1, <2>3, MonitoringKept
  <1>3. CASE NoReply
    <2>1. issued' = issued /\ (Mon' <=> Mon) /\ (Subscribed' <=> Subscribed)
      BY <1>3 DEF NoReply, Disconnect, told, Subscribed, Mon
    <2>2. UNCHANGED <<invalid, cb>> /\ (Mon => \A i \in DOMAIN replies' : MonCb(replies'[i])) /\ pc' \in {"loop", "free"}
      BY <1>3, NoReplyPipe
    <2> QED
      BY <2>1, <2>2, MonitoringKept
  <1>4. CASE ShiftedReply
    <2>1. UNCHANGED <<invalid, issued>> /\ (Subscribed' <=> Subscribed) /\ (Mon' <=> Mon)
      BY <1>4, ShiftedTakes
    <2>2. replies # <<>> /\ replies' = Tail(replies) /\ cb' = Head(replies)
      BY <1>4 DEF ShiftedReply
    <2>3. Mon => MonCb(cb') /\ \A i \in DOMAIN replies' : MonCb(replies'[i])
      BY <2>2, TailMonitors
    <2> QED
      BY <2>1, <2>3, MonitoringKept
  <1>5. CASE PubSubReply
    <2>1. UNCHANGED <<replies, invalid, issued>> /\ ~Mon /\ (Mon' <=> Mon)
      BY <1>5, PubSubTakes
    <2> QED
      BY <2>1, MonitoringKept
  <1>6. CASE InvalidReply
    <2>1. UNCHANGED <<replies, issued>> /\ ~Mon /\ (Mon' <=> Mon) /\ invalid # <<>>
      BY <1>6, InvalidTakes
    <2> QED
      BY <2>1, MonitoringKept
  <1>7. CASE OtherReply
    <2>1. UNCHANGED <<replies, invalid, issued, cb>> /\ (Mon' <=> Mon) /\ (Subscribed' <=> Subscribed)
      BY <1>7, OtherTakes
    <2>2. pc = "process"
      BY <1>7 DEF OtherReply, Unexpected
    <2>3. Mon => MonCb(cb')
      BY <2>1, <2>2 DEF Monitoring
    <2> QED
      BY <1>0, <2>1, <2>3, MonitoringKept
  <1>8. CASE __redisAsyncFree
    <2>1. /\ issued' = issued /\ (Mon' <=> Mon) /\ (Subscribed' <=> Subscribed) /\ pc' \in {"free", "free_cb", "gone"}
          /\ replies' = replies \/ (replies # <<>> /\ replies' = Tail(replies))
          /\ invalid' = invalid \/ (invalid # <<>> /\ invalid' = Tail(invalid))
      BY <1>8, FreeQueues DEF Mon, Subscribed
    <2>2. Mon => \A i \in DOMAIN replies' : MonCb(replies'[i])
      BY <1>0, <2>1, TailMonitors
    <2> QED
      BY <2>1, <2>2, MonitoringKept
  <1> QED
    BY <1>1, <1>2, <1>3, <1>4, <1>5, <1>6, <1>7, <1>8, NextSteps

\* Neither assertion fails.
LEMMA NextDoesNotAbort ==
    ASSUME Types, Commands, Monitoring, Ordered, Pipeline, pc # "aborted", [Next]_vars
    PROVE  pc' # "aborted"
  <1>1. CASE redisAsyncCommand
    <2>1. pc' = pc
      <3>1. PICK op, p, names, fn : __redisAsyncCommand(op, p, names, fn)
        BY <1>1, CommandIssued
      <3> QED
        BY <3>1 DEF __redisAsyncCommand
    <2> QED
      BY <2>1
  <1>2. CASE Quiet
    BY <1>2, QuietEffect
  <1>3. CASE NoReply
    BY <1>3, NoReplyPipe
  <1>4. CASE ShiftedReply \/ PubSubReply \/ InvalidReply \/ OtherReply
    <2>1. Live'
      BY <1>4, ShiftedTakes, PubSubTakes, InvalidTakes, OtherTakes
    <2> QED
      BY <2>1 DEF Live
  <1>5. CASE __redisAsyncFree
    BY <1>5, FreePipe
  <1> QED
    BY <1>1, <1>2, <1>3, <1>4, <1>5, NextSteps

\* The queues lose their heads only.
LEMMA OrderedKept ==
    ASSUME Types, Ordered, issued' = issued, Mon => Mon',
           ~Mon => replies' = replies \/ (replies # <<>> /\ replies' = Tail(replies)),
           ~Mon => invalid' = invalid \/ (invalid # <<>> /\ invalid' = Tail(invalid))
    PROVE  Ordered'
  <1> SUFFICES ASSUME ~Mon'
               PROVE  /\ Increasing(replies') /\ Increasing(invalid')
                      /\ \A i \in DOMAIN replies', j \in DOMAIN invalid' : replies'[i].id < invalid'[j].id
                      /\ \A i \in DOMAIN replies' : IsOther(replies'[i].id)
                      /\ \A i \in DOMAIN invalid' : IsOther(invalid'[i].id)
    BY DEF Ordered, IsOther
  <1>1. ~Mon
    OBVIOUS
  <1>2. /\ Increasing(replies) /\ Increasing(invalid)
        /\ \A i \in DOMAIN replies, j \in DOMAIN invalid : replies[i].id < invalid[j].id
        /\ \A i \in DOMAIN replies : IsOther(replies[i].id)
        /\ \A i \in DOMAIN invalid : IsOther(invalid[i].id)
    BY <1>1 DEF Ordered
  <1>3. ASSUME NEW q \in Seq(Callback), q # <<>>, Increasing(q) PROVE Increasing(Tail(q))
    <2>1. \A i \in DOMAIN Tail(q) : i + 1 \in DOMAIN q /\ Tail(q)[i] = q[i + 1] /\ i \in Nat
      BY <1>3, TailItems
    <2> QED
      BY <1>3, <2>1 DEF Increasing
  <1>4. replies \in Seq(Callback) /\ invalid \in Seq(Callback)
    BY DEF Types, LocalTypes
  <1>5. Increasing(replies') /\ \A i \in DOMAIN replies' : \E j \in DOMAIN replies : replies'[i] = replies[j]
    <2>1. CASE replies' = replies
      BY <1>2, <2>1
    <2>2. CASE replies # <<>> /\ replies' = Tail(replies)
      BY <1>2, <1>3, <1>4, <2>2, TailItems
    <2> QED
      BY <1>1, <2>1, <2>2
  <1>6. Increasing(invalid') /\ \A i \in DOMAIN invalid' : \E j \in DOMAIN invalid : invalid'[i] = invalid[j]
    <2>1. CASE invalid' = invalid
      BY <1>2, <2>1
    <2>2. CASE invalid # <<>> /\ invalid' = Tail(invalid)
      BY <1>2, <1>3, <1>4, <2>2, TailItems
    <2> QED
      BY <1>1, <2>1, <2>2
  <1> QED
    BY <1>2, <1>5, <1>6

\* The new command is the last.
LEMMA CommandOrdered ==
    ASSUME Careful, Types, Commands, Ordered, Pipeline, redisAsyncCommand
    PROVE  Ordered'
  <1>1. PICK op, p, names, fn : Legal(op, p, names, fn) /\ __redisAsyncCommand(op, p, names, fn)
    BY CommandIssued
  <1> DEFINE c == NewCb(fn)
             cmd == NewCommand(op, p, names, fn)
             N == Len(issued) + 1
  <1>2. /\ c \in Callback /\ cmd \in Command
        /\ pc \in {"loop", "reply_cb", "connect_cb"}
        /\ flags' = flags \cup (IF op = "subscribe" THEN {"SUBSCRIBED"} ELSE {})
                          \cup (IF op = "monitor" THEN {"MONITORING"} ELSE {})
        /\ replies' = IF op = "monitor" \/ (op \in Other /\ ~Subscribed) THEN Append(replies, c) ELSE replies
        /\ invalid' = IF op \in Other /\ Subscribed THEN Append(invalid, c) ELSE invalid
        /\ issued' = Append(issued, cmd)
    BY <1>1, CommandEffect
  <1>3. issued \in Seq(Command) /\ replies \in Seq(Callback) /\ invalid \in Seq(Callback)
    BY DEF Types, WireTypes, LocalTypes
  <1>4. c.id = N /\ cmd.op = op
    BY DEF NewCb, NewCommand
  <1> HIDE DEF c, cmd
  <1>5. /\ \A x \in DOMAIN issued : x \in DOMAIN issued' /\ issued'[x] = issued[x] /\ x \in Nat /\ x < N
        /\ N \in DOMAIN issued' /\ issued'[N] = cmd
    BY <1>2, <1>3, LastItem
  <1> HIDE DEF N
  <1> DEFINE isOther(x) == x \in DOMAIN issued' /\ issued'[x].op \in Other
  <1> SUFFICES ASSUME ~Mon'
               PROVE  /\ Increasing(replies') /\ Increasing(invalid')
                      /\ \A i \in DOMAIN replies', j \in DOMAIN invalid' : replies'[i].id < invalid'[j].id
                      /\ \A i \in DOMAIN replies' : isOther(replies'[i].id)
                      /\ \A i \in DOMAIN invalid' : isOther(invalid'[i].id)
    BY DEF Ordered, IsOther
  <1>6. ~Mon /\ op # "monitor"
    BY <1>2 DEF Mon
  <1>7. /\ Increasing(replies) /\ Increasing(invalid)
        /\ \A i \in DOMAIN replies, j \in DOMAIN invalid : replies[i].id < invalid[j].id
        /\ \A i \in DOMAIN replies : IsOther(replies[i].id)
        /\ \A i \in DOMAIN invalid : IsOther(invalid[i].id)
    BY <1>6 DEF Ordered
  <1>8. \A x : IsOther(x) => isOther(x) /\ x < N
    BY <1>5 DEF IsOther
  <1>9. op \in Other => isOther(N)
    BY <1>4, <1>5
  <1> HIDE DEF isOther
  <1>10. ASSUME NEW q \in Seq(Callback), Increasing(q), \A i \in DOMAIN q : IsOther(q[i].id)
         PROVE  /\ Increasing(Append(q, c))
                /\ \A i \in DOMAIN Append(q, c) : Append(q, c)[i].id = N \/ (i \in DOMAIN q /\ Append(q, c)[i] = q[i])
    <2> DEFINE q2 == Append(q, c)
    <2>1. /\ \A i \in DOMAIN q2 : (i \in DOMAIN q /\ q2[i] = q[i]) \/ (i = Len(q) + 1 /\ q2[i] = c)
          /\ \A i \in DOMAIN q : i \in Nat /\ i < Len(q) + 1
          /\ Len(q) \in Nat
      BY <1>2, <1>10, LastItem
    <2> HIDE DEF q2
    <2>2. ASSUME NEW i \in DOMAIN q2, NEW j \in DOMAIN q2, i < j PROVE q2[i].id < q2[j].id
      <3>1. i \in DOMAIN q /\ q2[i] = q[i]
        BY <2>1, <2>2
      <3> QED
        BY <1>4, <1>8, <1>10, <2>1, <2>2, <3>1 DEF Increasing
    <2> QED
      BY <1>4, <2>1, <2>2 DEF Increasing, q2
  <1>11. CASE op \notin Other
    BY <1>2, <1>6, <1>7, <1>8, <1>11
  <1>12. CASE op \in Other /\ ~Subscribed
    <2>1. invalid' = <<>>
      <3>1. invalid = <<>>
        BY <1>2, <1>12, Piped DEF Live, NotSubscribed
      <3> QED
        BY <1>2, <1>12, <3>1
    <2>2. replies' = Append(replies, c)
      BY <1>2, <1>12
    <2>3. Increasing(replies') /\ \A i \in DOMAIN replies' : replies'[i].id = N \/ (i \in DOMAIN replies /\ replies'[i] = replies[i])
      BY <1>3, <1>7, <1>10, <2>2
    <2>4. Increasing(invalid') /\ DOMAIN invalid' = {}
      BY <2>1 DEF Increasing
    <2> QED
      BY <1>7, <1>8, <1>9, <1>12, <2>3, <2>4
  <1>13. CASE op \in Other /\ Subscribed
    <2>1. replies' = replies /\ invalid' = Append(invalid, c)
      BY <1>2, <1>6, <1>13
    <2>2. Increasing(invalid') /\ \A i \in DOMAIN invalid' : invalid'[i].id = N \/ (i \in DOMAIN invalid /\ invalid'[i] = invalid[i])
      BY <1>3, <1>7, <1>10, <2>1
    <2> QED
      BY <1>7, <1>8, <1>9, <1>13, <2>1, <2>2
  <1> QED
    BY <1>11, <1>12, <1>13

LEMMA NextKeepsOrdered ==
    ASSUME Careful, Types, Commands, Monitoring, Ordered, Pipeline, [Next]_vars
    PROVE  Ordered'
  <1>0. Mon => Mon'
    BY FlagsStay DEF Mon, Lasting
  <1>1. CASE redisAsyncCommand
    BY <1>1, CommandOrdered
  <1>2. CASE Quiet
    <2>1. UNCHANGED <<replies, invalid, issued>>
      BY <1>2, QuietEffect
    <2> QED
      BY <1>0, <2>1, OrderedKept
  <1>3. CASE NoReply
    <2>1. issued' = issued /\ invalid' = invalid /\ (~Mon => replies' = replies)
      BY <1>3, NoReplyPipe DEF NoReply, told
    <2> QED
      BY <1>0, <2>1, OrderedKept
  <1>4. CASE ShiftedReply
    <2>1. replies # <<>> /\ replies' = Tail(replies) /\ UNCHANGED <<invalid, issued>>
      BY <1>4 DEF ShiftedReply
    <2> QED
      BY <1>0, <2>1, OrderedKept
  <1>5. CASE PubSubReply
    <2>1. UNCHANGED <<replies, invalid, issued>>
      BY <1>5 DEF PubSubReply
    <2> QED
      BY <1>0, <2>1, OrderedKept
  <1>6. CASE InvalidReply
    <2>1. UNCHANGED <<replies, issued>> /\ (invalid' = invalid \/ (invalid # <<>> /\ invalid' = Tail(invalid)))
      BY <1>6 DEF InvalidReply
    <2> QED
      BY <1>0, <2>1, OrderedKept
  <1>7. CASE OtherReply
    <2>1. UNCHANGED <<replies, invalid, issued>>
      BY <1>7 DEF OtherReply
    <2> QED
      BY <1>0, <2>1, OrderedKept
  <1>8. CASE __redisAsyncFree
    BY <1>0, <1>8, FreeQueues, OrderedKept
  <1> QED
    BY <1>1, <1>2, <1>3, <1>4, <1>5, <1>6, <1>7, <1>8, NextSteps

(***************************************************************************)
(* What the callbacks are told.                                            *)
(***************************************************************************)
LEMMA ToldSame ==
    ASSUME Told, issued' = issued, got' = got, SameWaits
    PROVE  Told'
  <1>1. \A x \in DOMAIN issued : issued[x].op \in Other => (Pending(x)' <=> Pending(x))
    BY DEF SameWaits, Pending
  <1> QED
    BY <1>1 DEF Told

\* A callback is run: if it is that of a command that waits, it waits no more.
Runs(c, r) ==
    \A x : IsOther(x) =>
        IF x = c.id THEN Pending(x) /\ ~Pending(x)' /\ c.fn = issued[x].fn /\ IsOwn(r, x)
        ELSE Pending(x)' <=> Pending(x)

LEMMA ToldRun ==
    ASSUME Types, Told, issued' = issued, NEW c \in Callback, NEW r \in ReplyOf \cup {NULL}, NEW fl, NEW state, NEW otherwise,
           Run(c, r, fl, state, otherwise), Runs(c, r)
    PROVE  Told'
  <1>1. WireTypes /\ got \in Seq(Seq(ReplyOf \cup {NULL})) /\ Len(got) = Len(issued) /\ issued \in Seq(Command)
    BY DEF Types, WireTypes
  <1>2. \A id \in DOMAIN got : got'[id] = IF c.fn /\ id = c.id THEN Append(got[id], r) ELSE got[id]
    BY <1>1, RunGot
  <1> SUFFICES ASSUME NEW x \in DOMAIN issued, issued[x].op \in Other
               PROVE  /\ \A i \in DOMAIN got'[x] : IsOwn(got'[x][i], x)
                      /\ IF issued[x].fn /\ ~Pending(x)' THEN Len(got'[x]) = 1 ELSE got'[x] = <<>>
    BY DEF Told
  <1>3. x \in DOMAIN got /\ IsOther(x)
    BY <1>1 DEF IsOther
  <1>4. /\ \A i \in DOMAIN got[x] : IsOwn(got[x][i], x)
        /\ IF issued[x].fn /\ ~Pending(x) THEN Len(got[x]) = 1 ELSE got[x] = <<>>
    BY DEF Told
  <1>5. CASE x # c.id
    <2>1. got'[x] = got[x]
      BY <1>2, <1>3, <1>5
    <2>2. Pending(x)' <=> Pending(x)
      BY <1>3, <1>5 DEF Runs
    <2> QED
      BY <1>4, <2>1, <2>2
  <1>6. CASE x = c.id
    <2>1. Pending(x) /\ ~Pending(x)' /\ c.fn = issued[x].fn /\ IsOwn(r, x)
      BY <1>3, <1>6 DEF Runs
    <2>2. got[x] = <<>>
      BY <1>4, <2>1
    <2>3. CASE c.fn
      <3>1. got'[x] = Append(got[x], r)
        BY <1>2, <1>3, <1>6, <2>3
      <3>2. Append(<<>>, r) = <<r>>
        OBVIOUS
      <3>3. got'[x] = <<r>>
        BY <2>2, <3>1, <3>2
      <3> QED
        BY <2>1, <2>3, <3>3
    <2>4. CASE ~c.fn
      <3>1. got'[x] = <<>>
        BY <1>2, <1>3, <1>6, <2>2, <2>4
      <3>2. ~issued[x].fn
        BY <2>1, <2>4
      <3> QED
        BY <3>1, <3>2
    <2> QED
      BY <2>3, <2>4
  <1> QED
    BY <1>5, <1>6

LEMMA CommandTold ==
    ASSUME Types, Commands, Told, redisAsyncCommand
    PROVE  Told'
  <1>1. PICK op, p, names, fn : Legal(op, p, names, fn) /\ __redisAsyncCommand(op, p, names, fn)
    BY CommandIssued
  <1> DEFINE c == NewCb(fn)
             cmd == NewCommand(op, p, names, fn)
             N == Len(issued) + 1
             pending(x) == Waits(x, replies') \/ Waits(x, invalid')
  <1>2. /\ c \in Callback /\ cmd \in Command
        /\ replies' = IF op = "monitor" \/ (op \in Other /\ ~Subscribed) THEN Append(replies, c) ELSE replies
        /\ invalid' = IF op \in Other /\ Subscribed THEN Append(invalid, c) ELSE invalid
        /\ issued' = Append(issued, cmd)
        /\ got' = Append(got, <<>>)
    BY <1>1, CommandEffect
  <1>3. issued \in Seq(Command) /\ replies \in Seq(Callback) /\ invalid \in Seq(Callback)
        /\ got \in Seq(Seq(ReplyOf \cup {NULL})) /\ Len(got) = Len(issued)
    BY DEF Types, WireTypes, LocalTypes
  <1>4. c.id = N /\ cmd.op = op
    BY DEF NewCb, NewCommand
  <1>5. /\ \A x \in DOMAIN issued : issued'[x] = issued[x] /\ got'[x] = got[x] /\ x # N
        /\ \A x \in DOMAIN issued' : x \in DOMAIN issued \/ x = N
        /\ issued'[N] = cmd /\ got'[N] = <<>>
    <2>1. \A x \in DOMAIN issued : issued'[x] = issued[x] /\ x # N
      BY <1>2, <1>3, LastItem
    <2>2. (\A x \in DOMAIN issued' : x \in DOMAIN issued \/ x = N) /\ issued'[N] = cmd
      BY <1>2, <1>3, LastItem
    <2>3. DOMAIN got = DOMAIN issued /\ Len(got) + 1 = N /\ <<>> \in Seq(ReplyOf \cup {NULL})
      BY <1>3
    <2>4. (\A x \in DOMAIN got : got'[x] = got[x]) /\ got'[N] = <<>>
      BY <1>2, <1>3, <2>3, LastItem
    <2> QED
      BY <2>1, <2>2, <2>3, <2>4
  <1>6. \A x : /\ Waits(x, Append(replies, c)) <=> Waits(x, replies) \/ x = N
               /\ Waits(x, Append(invalid, c)) <=> Waits(x, invalid) \/ x = N
    BY <1>2, <1>3, <1>4, WaitsAppend
  <1> HIDE DEF c, cmd, N
  <1>7. /\ \A x : x # N => (pending(x) <=> Pending(x))
        /\ op \in Other => pending(N)
    <2>1. \A x : Waits(x, replies') <=> Waits(x, replies) \/ ((op = "monitor" \/ (op \in Other /\ ~Subscribed)) /\ x = N)
      BY <1>2, <1>6
    <2>2. \A x : Waits(x, invalid') <=> Waits(x, invalid) \/ (op \in Other /\ Subscribed /\ x = N)
      BY <1>2, <1>6
    <2> QED
      BY <2>1, <2>2 DEF Pending
  <1> HIDE DEF pending
  <1> SUFFICES ASSUME NEW x \in DOMAIN issued', issued'[x].op \in Other
               PROVE  /\ \A i \in DOMAIN got'[x] : IsOwn(got'[x][i], x)
                      /\ IF issued'[x].fn /\ ~pending(x) THEN Len(got'[x]) = 1 ELSE got'[x] = <<>>
    BY DEF Told, Pending, pending
  <1>8. CASE x = N
    BY <1>4, <1>5, <1>7, <1>8
  <1>9. CASE x \in DOMAIN issued
    <2>1. /\ \A i \in DOMAIN got[x] : IsOwn(got[x][i], x)
          /\ IF issued[x].fn /\ ~Pending(x) THEN Len(got[x]) = 1 ELSE got[x] = <<>>
      BY <1>5, <1>9 DEF Told
    <2> QED
      BY <1>5, <1>7, <1>9, <2>1
  <1> QED
    BY <1>5, <1>8, <1>9

\* The head of a queue is run, with NULL or with the reply it waits for.
LEMMA HeadRuns ==
    ASSUME Types, Commands, Monitoring, Ordered, replies # <<>>, replies' = Tail(replies), invalid' = invalid,
           NEW r, ~Mon => IsOwn(r, Head(replies).id)
    PROVE  Runs(Head(replies), r) /\ Head(replies) \in Callback
  <1> DEFINE c == Head(replies)
  <1>1. replies \in Seq(Callback) /\ c \in Callback
    BY QueueTypes DEF Types, LocalTypes
  <1>2. OfCommand(c)
    BY <1>1, TailItems DEF Commands
  <1>3. CASE ~Mon
    <2>1. /\ IsOther(c.id) /\ Waits(c.id, replies) /\ ~Waits(c.id, invalid)
          /\ \A x : Waits(x, Tail(replies)) <=> Waits(x, replies) /\ x # c.id
      BY <1>3, HeadPending
    <2>2. c.id \in DOMAIN issued => c.fn = issued[c.id].fn
      <3>1. 0 \notin DOMAIN issued
        BY OtherIds
      <3> QED
        BY <1>2, <3>1 DEF OfCommand, NoCb
    <2>3. c.fn = issued[c.id].fn
      BY <2>1, <2>2 DEF IsOther
    <2>4. IsOwn(r, c.id)
      BY <1>3
    <2> HIDE DEF c
    <2> QED
      BY <1>1, <2>1, <2>3, <2>4 DEF Runs, Pending, c
  <1>4. CASE Mon
    <2>1. MonCb(c)
      BY <1>4, TailMonitors
    <2>2. ASSUME NEW x, IsOther(x) PROVE x # c.id /\ ~Waits(x, replies) /\ ~Waits(x, invalid) /\ ~Waits(x, replies') /\ ~Waits(x, invalid')
      <3>1. x # c.id /\ ~Waits(x, replies) /\ ~Waits(x, invalid) /\ \A d : MonCb(d) => d.id # x
        BY <1>4, <2>1, <2>2, MonitorQuiet DEF Pending
      <3>2. \A i \in DOMAIN Tail(replies) : MonCb(Tail(replies)[i])
        BY <1>4, TailMonitors
      <3>3. ~Waits(x, Tail(replies))
        BY <3>1, <3>2 DEF Waits
      <3> QED
        BY <3>1, <3>3
    <2> HIDE DEF c
    <2> QED
      BY <1>1, <2>2 DEF Runs, Pending, c
  <1> QED
    BY <1>3, <1>4

LEMMA InvalidRuns ==
    ASSUME Types, Commands, Monitoring, Ordered, invalid # <<>>, invalid' = Tail(invalid), replies = <<>>, replies' = replies,
           NEW r, IsOwn(r, Head(invalid).id)
    PROVE  Runs(Head(invalid), r) /\ Head(invalid) \in Callback /\ ~Mon /\ IsOther(Head(invalid).id)
  <1> DEFINE c == Head(invalid)
  <1>1. invalid \in Seq(Callback) /\ c \in Callback
    BY QueueTypes DEF Types, LocalTypes
  <1>2. OfCommand(c)
    BY <1>1, TailItems DEF Commands
  <1>3. ~Mon
    BY DEF Monitoring
  <1>4. /\ IsOther(c.id) /\ Waits(c.id, invalid)
        /\ \A x : Waits(x, Tail(invalid)) <=> Waits(x, invalid) /\ x # c.id
    BY <1>3, HeadInvalid
  <1>5. c.id \in DOMAIN issued => c.fn = issued[c.id].fn
    <2>1. 0 \notin DOMAIN issued
      BY OtherIds
    <2> QED
      BY <1>2, <2>1 DEF OfCommand, NoCb
  <1>6. c.fn = issued[c.id].fn
    BY <1>4, <1>5 DEF IsOther
  <1>7. IsOwn(r, c.id)
    OBVIOUS
  <1>8. \A x : ~Waits(x, replies) /\ ~Waits(x, replies')
    BY DEF Waits
  <1> HIDE DEF c
  <1> QED
    BY <1>1, <1>3, <1>4, <1>6, <1>7, <1>8 DEF Runs, Pending, c

\* The callback of a subscription or of MONITOR is run; the queues stay.
LEMMA NooneRuns ==
    ASSUME UNCHANGED <<replies, invalid>>, NEW c, NEW r, \A x : IsOther(x) => x # c.id
    PROVE  Runs(c, r)
  <1>1. \A x : Pending(x)' <=> Pending(x)
    BY DEF Pending
  <1> QED
    BY <1>1 DEF Runs

LEMMA SubscriptionIds ==
    ASSUME Types, Commands, NEW p \in BOOLEAN, NEW n \in Key, Registered(p, n)
    PROVE  \A x : IsOther(x) => x # last[p][n]
  BY DEF Commands, IsOther, Other

\* FreeWalks visits a subscription.
LEMMA WalkEffect ==
    ASSUME Types, Commands, FreeWalks
    PROVE  /\ walk \in Nat /\ walk + 1 \in 1..Len(SubscriptionCbs) /\ walk' = walk + 1
           /\ SubscriptionCbs[walk + 1] \in Callback /\ SubscriptionCbs[walk + 1].fn
           /\ SubscriptionCbs[walk + 1].id \in DOMAIN issued
           /\ \A x : IsOther(x) => x # SubscriptionCbs[walk + 1].id
           /\ Run(SubscriptionCbs[walk + 1], NULL, flags, "free_cb", "free")
           /\ UNCHANGED <<replies, invalid, issued, channels, patterns, last, err, left>>
  <1>1. /\ walk < Len(SubscriptionCbs) /\ walk' = walk + 1
        /\ Run(SubscriptionCbs[walk + 1], NULL, flags, "free_cb", "free")
        /\ UNCHANGED <<replies, invalid, issued, channels, patterns, last, err, left>>
    BY DEF FreeWalks
  <1>2. TableTypes /\ walk \in 0..Len(SubscriptionCbs)
    BY DEF Types, FreeTypes
  <1>3. Len(SubscriptionCbs) \in Nat /\ walk \in Nat /\ walk + 1 \in 1..Len(SubscriptionCbs)
    BY <1>1, <1>2, SubscriptionCbsTypes
  <1> DEFINE c == SubscriptionCbs[walk + 1]
  <1>4. c \in Subs /\ c \in Callback /\ \E p \in BOOLEAN, n \in Key : last[p][n] # 0 /\ c.id = last[p][n]
    BY <1>2, <1>3, SubscriptionCbsTypes
  <1> HIDE DEF c
  <1>5. c.fn
    BY <1>4 DEF Subs
  <1>6. c.id \in DOMAIN issued /\ \A x : IsOther(x) => x # c.id
    <2>1. PICK p \in BOOLEAN, n \in Key : Registered(p, n) /\ c.id = last[p][n]
      BY <1>4 DEF Registered
    <2> QED
      BY <2>1, SubscriptionIds DEF Commands
  <1> QED
    BY <1>1, <1>3, <1>4, <1>5, <1>6 DEF c

LEMMA NextKeepsTold ==
    ASSUME Careful, Types, Commands, Monitoring, Ordered, Told, Pipeline, [Next]_vars
    PROVE  Told'
  <1>1. CASE redisAsyncCommand
    BY <1>1, CommandTold
  <1>2. CASE Quiet
    <2>1. UNCHANGED <<replies, invalid, issued, got>>
      BY <1>2, QuietEffect
    <2>2. SameWaits
      BY <2>1 DEF SameWaits
    <2> QED
      BY <2>1, <2>2, ToldSame
  <1>3. CASE NoReply
    <2>1. issued' = issued /\ got' = got
      BY <1>3 DEF NoReply, told
    <2> QED
      BY <1>3, <2>1, NoReplyPipe, ToldSame
  <1>4. CASE ShiftedReply
    <2>1. /\ replies # <<>> /\ replies' = Tail(replies) /\ UNCHANGED <<invalid, issued>> /\ reader # <<>> /\ pc = "process"
          /\ Run(Head(replies), Head(reader), flags, "reply_cb", "process")
      BY <1>4 DEF ShiftedReply
    <2>2. ~Mon => IsOwn(Head(reader), Head(replies).id)
      BY <2>1, OwnHead DEF Live, IsOwn
    <2>3. Runs(Head(replies), Head(reader)) /\ Head(replies) \in Callback
      BY <2>1, <2>2, HeadRuns
    <2>4. Head(reader) \in ReplyOf
      BY <2>1, HeadOfQ
    <2> QED
      BY <2>1, <2>3, <2>4, ToldRun
  <1>5. CASE PubSubReply
    <2> DEFINE r == Head(reader)
               fl == IF last[r.p][r.name] # 0 /\ r.type = "unsubscribe" THEN Unsubscribed(r) ELSE flags
    <2>1. /\ UNCHANGED <<replies, invalid, issued>> /\ Registered(r.p, r.name)
          /\ cb' = [id |-> last[r.p][r.name], fn |-> TRUE]
      BY <1>5, PubSubTakes
    <2>2. r \in ReplyOf /\ r.p \in BOOLEAN /\ r.name \in Key /\ cb' \in Callback /\ Run(cb', r, fl, "reply_cb", "process")
      BY <1>5, PubSubEffect
    <2>3. \A x : IsOther(x) => x # cb'.id
      BY <2>1, <2>2, SubscriptionIds
    <2> HIDE DEF r, fl
    <2>4. Runs(cb', r)
      BY <2>1, <2>3 DEF Runs, Pending
    <2> QED
      BY <2>1, <2>2, <2>4, ToldRun
  <1>6. CASE InvalidReply
    <2>1. /\ replies = <<>> /\ UNCHANGED <<replies, issued>> /\ invalid # <<>> /\ invalid' = Tail(invalid)
          /\ Head(reader).id = Head(invalid).id
          /\ Run(Head(invalid), Head(reader), flags, "reply_cb", "process") /\ Head(reader) \in ReplyOf
      BY <1>6, InvalidTakes
    <2>2. IsOwn(Head(reader), Head(invalid).id)
      BY <2>1 DEF IsOwn
    <2>3. Runs(Head(invalid), Head(reader)) /\ Head(invalid) \in Callback
      BY <2>1, <2>2, InvalidRuns
    <2> QED
      BY <2>1, <2>3, ToldRun
  <1>7. CASE OtherReply
    <2>1. /\ UNCHANGED <<replies, invalid, issued>> /\ Mon
          /\ Run(cb, Head(reader), flags, "reply_cb", "process") /\ Head(reader) \in ReplyOf
      BY <1>7, OtherTakes
    <2>2. MonCb(cb)
      BY <1>7, <2>1 DEF Monitoring, OtherReply, Unexpected
    <2>3. \A x : IsOther(x) => x # cb.id
      BY <2>1, <2>2, MonitorQuiet
    <2>4. Runs(cb, Head(reader))
      BY <2>1, <2>3, NooneRuns
    <2>5. cb \in Callback
      BY DEF Types, LocalTypes
    <2> QED
      BY <2>1, <2>4, <2>5, ToldRun
  <1>8. CASE FreeShifts
    <2>1. (\A x : IsOwn(NULL, x)) /\ NULL \in ReplyOf \cup {NULL}
      BY DEF NULL, IsOwn
    <2>2. CASE replies # <<>>
      <3>1. replies' = Tail(replies) /\ UNCHANGED <<invalid, issued>> /\ Run(Head(replies), NULL, flags, "free_cb", "free")
        BY <1>8, <2>2 DEF FreeShifts
      <3>2. Runs(Head(replies), NULL) /\ Head(replies) \in Callback
        BY <2>1, <2>2, <3>1, HeadRuns
      <3> QED
        BY <2>1, <3>1, <3>2, ToldRun
    <2>3. CASE replies = <<>>
      <3>1. invalid # <<>> /\ invalid' = Tail(invalid) /\ UNCHANGED <<replies, issued>> /\ Run(Head(invalid), NULL, flags, "free_cb", "free")
        BY <1>8, <2>3 DEF FreeShifts
      <3>2. Runs(Head(invalid), NULL) /\ Head(invalid) \in Callback
        BY <2>1, <2>3, <3>1, InvalidRuns
      <3> QED
        BY <2>1, <3>1, <3>2, ToldRun
    <2> QED
      BY <2>2, <2>3
  <1>9. CASE FreeWalks
    <2> DEFINE c == SubscriptionCbs[walk + 1]
    <2>1. /\ c \in Callback /\ (\A x : IsOther(x) => x # c.id) /\ Run(c, NULL, flags, "free_cb", "free")
          /\ UNCHANGED <<replies, invalid, issued>>
      BY <1>9, WalkEffect
    <2> HIDE DEF c
    <2>2. Runs(c, NULL)
      BY <2>1, NooneRuns
    <2> QED
      BY <2>1, <2>2, ToldRun
  <1>10. CASE FreeCallbackReturns \/ FreeEnds
    <2>1. UNCHANGED <<replies, invalid, issued, got>>
      BY <1>10 DEF FreeCallbackReturns, FreeEnds, told
    <2>2. SameWaits
      BY <2>1 DEF SameWaits
    <2> QED
      BY <2>1, <2>2, ToldSame
  <1> QED
    BY <1>1, <1>2, <1>3, <1>4, <1>5, <1>6, <1>7, <1>8, <1>9, <1>10, NextSteps DEF __redisAsyncFree

(***************************************************************************)
(* What the callbacks were told when the context was freed.                *)
(***************************************************************************)
\* The steps of redisProcessCallbacks that take a reply.
TakesReply == ShiftedReply \/ PubSubReply \/ InvalidReply \/ OtherReply

LEMMA TakenReply ==
    ASSUME Types, Commands, Monitoring, Ordered, Pipeline, TakesReply
    PROVE  /\ Live /\ Live' /\ UNCHANGED <<issued, err, walk, left>>
           /\ invalid' = invalid \/ (invalid # <<>> /\ invalid' = Tail(invalid))
  <1>1. UNCHANGED <<walk, left>>
    BY DEF TakesReply, ShiftedReply, PubSubReply, InvalidReply, OtherReply
  <1>2. CASE ShiftedReply
    BY <1>1, <1>2, ShiftedTakes
  <1>3. CASE PubSubReply
    BY <1>1, <1>3, PubSubTakes
  <1>4. CASE InvalidReply
    BY <1>1, <1>4, InvalidTakes
  <1>5. CASE OtherReply
    BY <1>1, <1>5, OtherTakes
  <1> QED
    BY <1>2, <1>3, <1>4, <1>5 DEF TakesReply

LEMMA LateKept ==
    ASSUME Types, LateCommands, issued' = issued, invalid' = invalid \/ (invalid # <<>> /\ invalid' = Tail(invalid))
    PROVE  LateCommands'
  <1>1. invalid \in Seq(Callback)
    BY DEF Types, LocalTypes
  <1>2. \A i \in DOMAIN invalid' : \E j \in DOMAIN invalid : invalid'[i] = invalid[j]
    <2>1. CASE invalid' = invalid
      BY <2>1
    <2>2. CASE invalid # <<>> /\ invalid' = Tail(invalid)
      BY <1>1, <2>2, TailItems
    <2> QED
      BY <2>1, <2>2
  <1>3. \A i \in DOMAIN invalid : invalid[i].id \in DOMAIN issued /\ issued[invalid[i].id].op \in Other => issued[invalid[i].id].subscribed
    BY DEF LateCommands, IsOther
  <1> SUFFICES ASSUME NEW i \in DOMAIN invalid', invalid'[i].id \in DOMAIN issued, issued[invalid'[i].id].op \in Other
               PROVE  issued[invalid'[i].id].subscribed
    BY DEF LateCommands, IsOther
  <1>4. PICK j \in DOMAIN invalid : invalid'[i] = invalid[j]
    BY <1>2
  <1> QED
    BY <1>3, <1>4

LEMMA CommandLate ==
    ASSUME Types, Commands, LateCommands, redisAsyncCommand
    PROVE  LateCommands'
  <1>1. PICK op, p, names, fn : Legal(op, p, names, fn) /\ __redisAsyncCommand(op, p, names, fn)
    BY CommandIssued
  <1> DEFINE c == NewCb(fn)
             cmd == NewCommand(op, p, names, fn)
             N == Len(issued) + 1
  <1>2. /\ c \in Callback /\ cmd \in Command
        /\ invalid' = IF op \in Other /\ Subscribed THEN Append(invalid, c) ELSE invalid
        /\ issued' = Append(issued, cmd)
    BY <1>1, CommandEffect
  <1>3. issued \in Seq(Command) /\ invalid \in Seq(Callback)
    BY DEF Types, WireTypes, LocalTypes
  <1>4. c.id = N /\ cmd.subscribed = Subscribed
    BY DEF NewCb, NewCommand
  <1>5. /\ \A x \in DOMAIN issued : issued'[x] = issued[x]
        /\ issued'[N] = cmd
    BY <1>2, <1>3, LastItem
  <1>6. 0 \notin DOMAIN issued'
    BY <1>2, <1>3
  <1> HIDE DEF c, cmd, N
  <1>7. ASSUME NEW i \in DOMAIN invalid, invalid[i].id \in DOMAIN issued', issued'[invalid[i].id].op \in Other
        PROVE  issued'[invalid[i].id].subscribed
    <2>1. invalid[i].id \in DOMAIN issued
      <3>1. invalid[i] # NoCb
        BY <1>6, <1>7 DEF NoCb
      <3> QED
        BY <3>1 DEF Commands, OfCommand
    <2>2. IsOther(invalid[i].id)
      BY <1>5, <1>7, <2>1 DEF IsOther
    <2> QED
      BY <1>5, <2>1, <2>2 DEF LateCommands
  <1>8. \A i \in DOMAIN invalid' : \/ i \in DOMAIN invalid /\ invalid'[i] = invalid[i]
                                   \/ Subscribed /\ invalid'[i] = c
    <2>1. CASE op \in Other /\ Subscribed
      BY <1>2, <1>3, <2>1, LastItem
    <2>2. CASE ~(op \in Other /\ Subscribed)
      BY <1>2, <2>2
    <2> QED
      BY <2>1, <2>2
  <1> SUFFICES ASSUME NEW i \in DOMAIN invalid', invalid'[i].id \in DOMAIN issued', issued'[invalid'[i].id].op \in Other
               PROVE  issued'[invalid'[i].id].subscribed
    BY DEF LateCommands, IsOther
  <1>9. CASE i \in DOMAIN invalid /\ invalid'[i] = invalid[i]
    BY <1>7, <1>9
  <1>10. CASE Subscribed /\ invalid'[i] = c
    BY <1>4, <1>5, <1>10
  <1> QED
    BY <1>8, <1>9, <1>10

LEMMA NextKeepsLate ==
    ASSUME Types, Commands, Monitoring, Ordered, Pipeline, LateCommands, [Next]_vars
    PROVE  LateCommands'
  <1>1. CASE redisAsyncCommand
    BY <1>1, CommandLate
  <1>2. CASE Quiet
    <2>1. UNCHANGED <<issued, invalid>>
      BY <1>2, QuietEffect
    <2> QED
      BY <2>1, LateKept
  <1>3. CASE NoReply
    <2>1. UNCHANGED <<issued, invalid>>
      BY <1>3 DEF NoReply, told
    <2> QED
      BY <2>1, LateKept
  <1>4. CASE TakesReply
    BY <1>4, TakenReply, LateKept
  <1>5. CASE __redisAsyncFree
    BY <1>5, FreeQueues, LateKept
  <1> QED
    BY <1>1, <1>2, <1>3, <1>4, <1>5, NextSteps DEF TakesReply

\* How a context gets from the loop and the processing to __redisAsyncFree.
LEMMA QuietEnters ==
    ASSUME Quiet, pc' \in {"free", "free_cb"}
    PROVE  pc \in {"free", "free_cb"} \/ err' \/ "FREEING" \in flags' \/ replies = <<>>
  <1>1. CASE redisAsyncDisconnect
    BY <1>1 DEF redisAsyncDisconnect
  <1>2. CASE redisAsyncFree
    BY <1>2 DEF redisAsyncFree
  <1>3. CASE ServerCloses \/ ServerSpeaks \/ UNCHANGED vars
    BY <1>3 DEF ServerCloses, ServerSpeaks, vars, local
  <1>4. CASE ReplyCallbackReturns
    BY <1>4 DEF ReplyCallbackReturns
  <1>5. CASE SpontaneousError
    BY <1>5 DEF SpontaneousError
  <1>6. CASE __redisAsyncHandleConnect
    BY <1>6 DEF __redisAsyncHandleConnect
  <1>7. CASE redisAsyncHandleWrite
    BY <1>7 DEF redisAsyncHandleWrite
  <1>8. CASE redisAsyncHandleRead
    BY <1>8 DEF redisAsyncHandleRead
  <1> QED
    BY <1>1, <1>2, <1>3, <1>4, <1>5, <1>6, <1>7, <1>8 DEF Quiet

LEMMA NextKeepsFreesLast ==
    ASSUME Types, Commands, Monitoring, Ordered, Pipeline, FreesLast, [Next]_vars
    PROVE  FreesLast'
  <1> SUFFICES ASSUME pc' \in {"free", "free_cb"}, ~err', "FREEING" \notin flags'
               PROVE  replies' = <<>>
    BY DEF FreesLast
  <1>0. ~err /\ "FREEING" \notin flags
    BY FlagsStay DEF Lasting
  <1>1. CASE redisAsyncCommand
    <2>1. PICK op, p, names, fn : Legal(op, p, names, fn) /\ __redisAsyncCommand(op, p, names, fn)
      BY <1>1, CommandIssued
    <2>2. pc' = pc /\ pc \in {"loop", "reply_cb", "connect_cb"}
      BY <2>1, CommandEffect
    <2> QED
      BY <2>2
  <1>2. CASE Quiet
    <2>1. replies' = replies
      BY <1>2, QuietEffect
    <2>2. pc \in {"free", "free_cb"} \/ replies = <<>>
      BY <1>2, QuietEnters
    <2> QED
      BY <1>0, <2>1, <2>2 DEF FreesLast
  <1>3. CASE NoReply
    BY <1>3, NoReplyPipe
  <1>4. CASE TakesReply
    <2>1. Live'
      BY <1>4, TakenReply
    <2> QED
      BY <2>1 DEF Live
  <1>5. CASE __redisAsyncFree
    <2>1. pc \in {"free", "free_cb"} /\ (replies' = replies \/ replies # <<>>)
      BY <1>5, FreeQueues
    <2> QED
      BY <1>0, <2>1 DEF FreesLast
  <1> QED
    BY <1>1, <1>2, <1>3, <1>4, <1>5, NextSteps DEF TakesReply

\* What may be told NULL.
MayLeave(id) == err \/ "FREEING" \in flags \/ issued[id].subscribed

LEMMA NullTells ==
    ASSUME NullTold, issued' = issued, got' = got, err => err', "FREEING" \in flags => "FREEING" \in flags'
    PROVE  NullTold'
  <1>1. \A id \in DOMAIN issued : issued[id].op \in Other =>
           \A i \in DOMAIN got[id] : got[id][i] = NULL => err' \/ "FREEING" \in flags' \/ issued[id].subscribed
    BY DEF NullTold
  <1> QED
    BY <1>1 DEF NullTold

\* A callback is run, with NULL only if its command may be told so.
LEMMA RunTells ==
    ASSUME Types, NullTold, issued' = issued, NEW c \in Callback, NEW r \in ReplyOf \cup {NULL}, NEW fl, NEW state, NEW otherwise,
           Run(c, r, fl, state, otherwise), err => err', "FREEING" \in flags => "FREEING" \in flags',
           r = NULL /\ IsOther(c.id) => MayLeave(c.id)
    PROVE  NullTold'
  <1>1. WireTypes /\ got \in Seq(Seq(ReplyOf \cup {NULL})) /\ Len(got) = Len(issued) /\ issued \in Seq(Command)
    BY DEF Types, WireTypes
  <1>2. \A id \in DOMAIN got : got'[id] = IF c.fn /\ id = c.id THEN Append(got[id], r) ELSE got[id]
    BY <1>1, RunGot
  <1> SUFFICES ASSUME NEW x \in DOMAIN issued, issued[x].op \in Other, NEW i \in DOMAIN got'[x], got'[x][i] = NULL
               PROVE  err' \/ "FREEING" \in flags' \/ issued[x].subscribed
    BY DEF NullTold
  <1>3. x \in DOMAIN got /\ IsOther(x)
    BY <1>1 DEF IsOther
  <1>4. \A j \in DOMAIN got[x] : got[x][j] = NULL => MayLeave(x)
    BY DEF NullTold, MayLeave
  <1>5. CASE c.fn /\ x = c.id
    <2>1. got'[x] = Append(got[x], r)
      BY <1>2, <1>3, <1>5
    <2>5. got[x] \in Seq(ReplyOf \cup {NULL})
      <3> DEFINE R == ReplyOf \cup {NULL}
      <3>1. got \in Seq(Seq(R))
        BY <1>1
      <3> HIDE DEF R
      <3>2. got[x] \in Seq(R)
        BY <1>3, <3>1
      <3> QED
        BY <3>2 DEF R
    <2>2. CASE i \in DOMAIN got[x] /\ got'[x][i] = got[x][i]
      BY <1>4, <2>2 DEF MayLeave
    <2>3. CASE got'[x][i] = r
      BY <1>3, <1>5, <2>3 DEF MayLeave
    <2>4. \A j \in DOMAIN Append(got[x], r) : (j \in DOMAIN got[x] /\ Append(got[x], r)[j] = got[x][j]) \/ Append(got[x], r)[j] = r
      BY <2>5, LastItem
    <2> QED
      BY <2>1, <2>2, <2>3, <2>4
  <1>6. CASE ~(c.fn /\ x = c.id)
    BY <1>2, <1>3, <1>4, <1>6 DEF MayLeave
  <1> QED
    BY <1>5, <1>6

LEMMA CommandTells ==
    ASSUME Types, NullTold, redisAsyncCommand
    PROVE  NullTold'
  <1>1. PICK op, p, names, fn : Legal(op, p, names, fn) /\ __redisAsyncCommand(op, p, names, fn)
    BY CommandIssued
  <1> DEFINE cmd == NewCommand(op, p, names, fn)
             N == Len(issued) + 1
  <1>2. /\ cmd \in Command
        /\ issued' = Append(issued, cmd)
        /\ got' = Append(got, <<>>)
    BY <1>1, CommandEffect
  <1>3. issued \in Seq(Command) /\ got \in Seq(Seq(ReplyOf \cup {NULL})) /\ Len(got) = Len(issued)
    BY DEF Types, WireTypes
  <1>4. /\ \A x \in DOMAIN issued : issued'[x] = issued[x] /\ got'[x] = got[x]
        /\ \A x \in DOMAIN issued' : x \in DOMAIN issued \/ x = N
        /\ got'[N] = <<>>
    <2>1. \A x \in DOMAIN issued : issued'[x] = issued[x]
      BY <1>2, <1>3, LastItem
    <2>2. \A x \in DOMAIN issued' : x \in DOMAIN issued \/ x = N
      BY <1>2, <1>3, LastItem
    <2>3. DOMAIN got = DOMAIN issued /\ Len(got) + 1 = N /\ <<>> \in Seq(ReplyOf \cup {NULL})
      BY <1>3
    <2>4. (\A x \in DOMAIN got : got'[x] = got[x]) /\ got'[N] = <<>>
      BY <1>2, <1>3, <2>3, LastItem
    <2> QED
      BY <2>1, <2>2, <2>3, <2>4
  <1>5. (err => err') /\ ("FREEING" \in flags => "FREEING" \in flags')
    BY FlagsStay DEF Lasting, Next, User
  <1> HIDE DEF cmd, N
  <1> SUFFICES ASSUME NEW x \in DOMAIN issued', issued'[x].op \in Other, NEW i \in DOMAIN got'[x], got'[x][i] = NULL
               PROVE  err' \/ "FREEING" \in flags' \/ issued'[x].subscribed
    BY DEF NullTold
  <1>6. x # N
    BY <1>4
  <1>7. x \in DOMAIN issued /\ issued'[x] = issued[x] /\ got'[x] = got[x]
    BY <1>4, <1>6
  <1>8. err \/ "FREEING" \in flags \/ issued[x].subscribed
    BY <1>7 DEF NullTold
  <1> QED
    BY <1>5, <1>7, <1>8

LEMMA NextKeepsNullTold ==
    ASSUME Types, Commands, Monitoring, Ordered, Pipeline, LateCommands, FreesLast, NullTold, [Next]_vars
    PROVE  NullTold'
  <1>0. (err => err') /\ ("FREEING" \in flags => "FREEING" \in flags')
    BY FlagsStay DEF Lasting
  <1>1. CASE redisAsyncCommand
    BY <1>1, CommandTells
  <1>2. CASE Quiet
    <2>1. UNCHANGED <<issued, got>>
      BY <1>2, QuietEffect
    <2> QED
      BY <1>0, <2>1, NullTells
  <1>3. CASE NoReply
    <2>1. issued' = issued /\ got' = got
      BY <1>3 DEF NoReply, told
    <2> QED
      BY <1>0, <2>1, NullTells
  <1>4. ASSUME NEW c \in Callback, NEW fl, issued' = issued, Head(reader) \in ReplyOf,
               Run(c, Head(reader), fl, "reply_cb", "process")
        PROVE  NullTold'
    <2> DEFINE r == Head(reader)
    <2>1. r \in ReplyOf \cup {NULL} /\ r # NULL /\ Run(c, r, fl, "reply_cb", "process")
      BY <1>4, ReplyFields
    <2> HIDE DEF r
    <2> QED
      BY <1>0, <1>4, <2>1, RunTells
  <1>5. CASE ShiftedReply
    <2>1. replies # <<>> /\ issued' = issued /\ reader # <<>> /\ Run(Head(replies), Head(reader), flags, "reply_cb", "process")
      BY <1>5 DEF ShiftedReply
    <2>2. Head(replies) \in Callback
      BY <2>1, QueueTypes DEF Types, LocalTypes
    <2> QED
      BY <1>4, <2>1, <2>2, HeadOfQ
  <1>6. CASE PubSubReply
    <2> DEFINE r == Head(reader)
               fl == IF last[r.p][r.name] # 0 /\ r.type = "unsubscribe" THEN Unsubscribed(r) ELSE flags
    <2>1. r \in ReplyOf /\ cb' \in Callback /\ Run(cb', r, fl, "reply_cb", "process") /\ issued' = issued
      BY <1>6, PubSubEffect, PubSubTakes
    <2> HIDE DEF fl
    <2> QED
      BY <1>4, <2>1
  <1>7. CASE InvalidReply
    <2>1. /\ issued' = issued /\ invalid # <<>>
          /\ Run(Head(invalid), Head(reader), flags, "reply_cb", "process") /\ Head(reader) \in ReplyOf
      BY <1>7, InvalidTakes
    <2>2. Head(invalid) \in Callback
      BY <2>1, QueueTypes DEF Types, LocalTypes
    <2> QED
      BY <1>4, <2>1, <2>2
  <1>8. CASE OtherReply
    <2>1. issued' = issued /\ Run(cb, Head(reader), flags, "reply_cb", "process") /\ Head(reader) \in ReplyOf
      BY <1>8, OtherTakes
    <2>2. cb \in Callback
      BY DEF Types, LocalTypes
    <2> QED
      BY <1>4, <2>1, <2>2
  <1>9. CASE FreeShifts
    <2>1. NULL \in ReplyOf \cup {NULL} /\ replies \in Seq(Callback) /\ invalid \in Seq(Callback)
      BY DEF Types, LocalTypes
    <2>2. CASE replies # <<>>
      <3> DEFINE c == Head(replies)
      <3>1. pc = "free" /\ issued' = issued /\ Run(c, NULL, flags, "free_cb", "free")
        BY <1>9, <2>2 DEF FreeShifts
      <3>2. c \in Callback
        BY <2>1, <2>2, QueueTypes
      <3>3. MayLeave(c.id)
        BY <2>2, <3>1 DEF FreesLast, MayLeave
      <3> HIDE DEF c
      <3> QED
        BY <1>0, <2>1, <3>1, <3>2, <3>3, RunTells
    <2>3. CASE replies = <<>>
      <3> DEFINE c == Head(invalid)
      <3>1. invalid # <<>> /\ issued' = issued /\ Run(c, NULL, flags, "free_cb", "free")
        BY <1>9, <2>3 DEF FreeShifts
      <3>2. c \in Callback /\ 1 \in DOMAIN invalid /\ c = invalid[1]
        BY <2>1, <3>1, TailItems
      <3>3. IsOther(c.id) => MayLeave(c.id)
        BY <3>2 DEF LateCommands, MayLeave
      <3> HIDE DEF c
      <3> QED
        BY <1>0, <2>1, <3>1, <3>2, <3>3, RunTells
    <2> QED
      BY <2>2, <2>3
  <1>10. CASE FreeWalks
    <2> DEFINE c == SubscriptionCbs[walk + 1]
    <2>1. /\ c \in Callback /\ (\A x : IsOther(x) => x # c.id) /\ Run(c, NULL, flags, "free_cb", "free") /\ issued' = issued
      BY <1>10, WalkEffect
    <2> HIDE DEF c
    <2>2. NULL \in ReplyOf \cup {NULL} /\ ~IsOther(c.id)
      BY <2>1
    <2> QED
      BY <1>0, <2>1, <2>2, RunTells
  <1>11. CASE FreeCallbackReturns \/ FreeEnds
    <2>1. UNCHANGED <<issued, got>>
      BY <1>11 DEF FreeCallbackReturns, FreeEnds, told
    <2> QED
      BY <1>0, <2>1, NullTells
  <1> QED
    BY <1>1, <1>2, <1>3, <1>5, <1>6, <1>7, <1>8, <1>9, <1>10, <1>11, NextSteps DEF __redisAsyncFree

LEMMA WalkedKept ==
    ASSUME Types, Walked, UNCHANGED <<walk, issued, got, channels, patterns, last>>
    PROVE  Walked'
  <1>1. SubscriptionCbs' = SubscriptionCbs
    BY TablesKept
  <1>2. \A i \in 1..walk : LET id == SubscriptionCbs[i].id IN id \in DOMAIN issued /\ got[id] # <<>> /\ Last(got[id]) = NULL
    BY DEF Walked
  <1> QED
    BY <1>1, <1>2 DEF Walked

\* FreeWalks tells one more subscription, whose callback may be that of an
\* earlier one.
LEMMA FreeWalksOn ==
    ASSUME Types, Commands, Walked, FreeWalks
    PROVE  Walked'
  <1> DEFINE c == SubscriptionCbs[walk + 1]
             R == ReplyOf \cup {NULL}
  <1>1. /\ walk \in Nat /\ walk' = walk + 1 /\ c \in Callback /\ c.fn /\ c.id \in DOMAIN issued
        /\ Run(c, NULL, flags, "free_cb", "free")
        /\ UNCHANGED <<issued, channels, patterns, last>>
    BY WalkEffect
  <1>2. SubscriptionCbs' = SubscriptionCbs
    BY <1>1, TablesKept
  <1>3. WireTypes /\ got \in Seq(Seq(R)) /\ Len(got) = Len(issued) /\ issued \in Seq(Command)
    BY DEF Types, WireTypes
  <1>4. DOMAIN got = DOMAIN issued /\ NULL \in R
    BY <1>3
  <1>5. \A id \in DOMAIN got : got'[id] = IF c.fn /\ id = c.id THEN Append(got[id], NULL) ELSE got[id]
    BY <1>1, <1>3, <1>4, RunGot
  <1>6. \A i \in 1..walk : LET id == SubscriptionCbs[i].id IN id \in DOMAIN issued /\ got[id] # <<>> /\ Last(got[id]) = NULL
    BY DEF Walked
  <1>7. got'[c.id] # <<>> /\ Last(got'[c.id]) = NULL
    <2> HIDE DEF c, R
    <2>0. c.id \in DOMAIN got
      BY <1>1, <1>4
    <2>1. got[c.id] \in Seq(R)
      BY <1>3, <2>0
    <2>4. got'[c.id] = Append(got[c.id], NULL)
      BY <1>1, <1>5, <2>0
    <2>2. Len(got[c.id]) \in Nat /\ Len(got'[c.id]) = Len(got[c.id]) + 1 /\ got'[c.id][Len(got[c.id]) + 1] = NULL
      BY <1>4, <2>1, <2>4, LastItem
    <2>3. got'[c.id] # <<>>
      BY <2>2
    <2> QED
      BY <2>2, <2>3 DEF Last
  <1> HIDE DEF R
  <1>8. ASSUME NEW i \in 1..(walk + 1)
        PROVE  LET id == SubscriptionCbs[i].id IN id \in DOMAIN issued /\ got'[id] # <<>> /\ Last(got'[id]) = NULL
    <2> DEFINE x == SubscriptionCbs[i].id
    <2>1. CASE x = c.id
      BY <1>1, <1>7, <2>1
    <2>2. CASE x # c.id
      <3>1. i \in 1..walk
        BY <1>1, <2>2
      <3>2. x \in DOMAIN issued /\ got[x] # <<>> /\ Last(got[x]) = NULL
        BY <1>6, <3>1
      <3>3. got'[x] = got[x]
        BY <1>4, <1>5, <2>2, <3>2
      <3> QED
        BY <3>2, <3>3
    <2> QED
      BY <2>1, <2>2
  <1> QED
    BY <1>1, <1>2, <1>8 DEF Walked

LEMMA NextKeepsWalked ==
    ASSUME Types, Commands, Monitoring, Ordered, Pipeline, Walked, [Next]_vars
    PROVE  Walked'
  <1>0. walk \in Nat /\ (walk > 0 => pc \in {"free", "free_cb", "gone"} /\ replies = <<>> /\ invalid = <<>>)
    <2>1. Len(SubscriptionCbs) \in Nat
      BY CbsLength DEF Types
    <2> QED
      BY <2>1 DEF Types, FreeTypes
  <1>1. ASSUME walk = 0, walk' = walk PROVE Walked'
    BY <1>1 DEF Walked
  <1>2. CASE redisAsyncCommand
    <2>1. PICK op, p, names, fn : Legal(op, p, names, fn) /\ __redisAsyncCommand(op, p, names, fn)
      BY <1>2, CommandIssued
    <2>2. walk = 0
      BY <2>1, CommandEffect
    <2>3. walk' = walk
      BY <2>1 DEF __redisAsyncCommand
    <2> QED
      BY <1>1, <2>2, <2>3
  <1>3. CASE Quiet
    BY <1>3, QuietEffect, WalkedKept
  <1>4. CASE NoReply
    <2>1. pc = "process" /\ walk' = walk
      BY <1>4 DEF NoReply
    <2> QED
      BY <1>0, <1>1, <2>1
  <1>5. CASE TakesReply
    <2>1. Live /\ walk' = walk
      BY <1>5, TakenReply
    <2>2. walk = 0
      BY <1>0, <2>1 DEF Live
    <2> QED
      BY <1>1, <2>1, <2>2
  <1>6. CASE FreeShifts
    <2>1. walk' = walk /\ (replies # <<>> \/ invalid # <<>>)
      BY <1>6 DEF FreeShifts
    <2>2. walk = 0
      BY <1>0, <2>1
    <2> QED
      BY <1>1, <2>1, <2>2
  <1>7. CASE FreeWalks
    BY <1>7, FreeWalksOn
  <1>8. CASE FreeCallbackReturns \/ FreeEnds
    <2>1. UNCHANGED <<issued, got, channels, patterns, last>>
      BY <1>8 DEF FreeCallbackReturns, FreeEnds, told
    <2>2. walk' = walk
      BY <1>8 DEF FreeCallbackReturns, FreeEnds
    <2> QED
      BY <2>1, <2>2, WalkedKept
  <1> QED
    BY <1>2, <1>3, <1>4, <1>5, <1>6, <1>7, <1>8, NextSteps DEF TakesReply, __redisAsyncFree

LEMMA NextKeepsLeftClean ==
    ASSUME Types, Commands, Monitoring, Ordered, Pipeline, LeftClean, [Next]_vars
    PROVE  LeftClean'
  <1> SUFFICES ASSUME pc' = "gone"
               PROVE  left' = "ok" /\ "FREEING" \notin flags' => ~err'
    BY DEF LeftClean
  <1>0. CASE pc = "gone"
    <2>1. UNCHANGED vars
      BY <1>0, GoneStays
    <2> QED
      BY <1>0, <2>1 DEF LeftClean, vars, local
  <1> SUFFICES ASSUME pc # "gone"
               PROVE  left' = "ok" /\ "FREEING" \notin flags' => ~err'
    BY <1>0
  <1>1. CASE redisAsyncCommand
    <2>1. PICK op, p, names, fn : Legal(op, p, names, fn) /\ __redisAsyncCommand(op, p, names, fn)
      BY <1>1, CommandIssued
    <2>2. pc' = pc
      BY <2>1 DEF __redisAsyncCommand
    <2> QED
      BY <2>2
  <1>2. CASE Quiet
    BY <1>2, QuietEffect
  <1>3. CASE NoReply
    BY <1>3, NoReplyPipe
  <1>4. CASE TakesReply
    BY <1>4, TakenReply DEF Live
  <1>5. CASE __redisAsyncFree
    <2>1. CASE FreeShifts
      BY <2>1 DEF FreeShifts, Run
    <2>2. CASE FreeWalks
      BY <2>2 DEF FreeWalks, Run
    <2>3. CASE FreeCallbackReturns
      BY <2>3 DEF FreeCallbackReturns
    <2>4. CASE FreeEnds
      BY <2>4 DEF FreeEnds
    <2> QED
      BY <1>5, <2>1, <2>2, <2>3, <2>4 DEF __redisAsyncFree
  <1> QED
    BY <1>1, <1>2, <1>3, <1>4, <1>5, NextSteps DEF TakesReply

(***************************************************************************)
(* The invariant holds.                                                    *)
(***************************************************************************)
LEMMA InitPipeline == Init => Pipeline
  <1> SUFFICES ASSUME Init PROVE Pipe(Q, obuf, server)
    BY DEF Pipeline
  <1>1. /\ reader = <<>> /\ inbuf = <<>> /\ obuf = <<>> /\ issued = <<>> /\ invalid = <<>>
        /\ server = [subs |-> {}, monitor |-> FALSE, open |-> TRUE]
        /\ \A p \in BOOLEAN, n \in Key : last[p][n] = 0
    BY DEF Init
  <1>2. Q = <<>>
    BY <1>1 DEF Q
  <1>3. InOrder(Q, obuf) /\ Answers(Q, server)
    BY <1>1, <1>2 DEF InOrder, Answers, Increasing
  <1>4. InStep(Q, obuf, server) /\ BeforeArrays(Q, obuf, server)
    BY <1>1 DEF InStep, BeforeArrays
  <1>5. NamesRegistered(Q, obuf, server) /\ Known(Q, obuf, server)
    BY <1>1, <1>2 DEF NamesRegistered, Known, Registered
  <1>6. Unsubscribes(Q, obuf, server) /\ NotSubscribed(Q, obuf, server)
    BY <1>1, <1>2 DEF Unsubscribes, NotSubscribed
  <1> QED
    BY <1>1, <1>3, <1>4, <1>5, <1>6 DEF Pipe

LEMMA InitInv == Init => Inv
  <1> SUFFICES ASSUME Init PROVE Inv
    OBVIOUS
  <1>1. /\ issued = <<>> /\ replies = <<>> /\ invalid = <<>> /\ pc = "loop" /\ walk = 0 /\ flags = {}
    BY DEF Init
  <1>2. Types /\ Commands /\ Connecting /\ Pipeline
    BY InitTypes, InitCommands, InitPipeline
  <1>3. Monitoring /\ Ordered
    BY <1>1 DEF Monitoring, Ordered, Increasing, Mon, Subscribed
  <1>4. Told
    BY <1>1 DEF Told
  <1>5. LateCommands /\ FreesLast /\ NullTold /\ LeftClean
    BY <1>1 DEF LateCommands, FreesLast, NullTold, LeftClean
  <1>6. Walked
    BY <1>1 DEF Walked
  <1> QED
    BY <1>1, <1>2, <1>3, <1>4, <1>5, <1>6 DEF Inv, Leaving

LEMMA NextKeepsInv ==
    ASSUME Careful, Inv, [Next]_vars
    PROVE  Inv'
  <1>1. /\ Types /\ Commands /\ Connecting /\ pc # "aborted" /\ Monitoring /\ Ordered /\ Told /\ Pipeline
        /\ LateCommands /\ FreesLast /\ NullTold /\ Walked /\ LeftClean
    BY DEF Inv, Leaving
  <1>2. Types' /\ Commands' /\ Connecting' /\ pc' # "aborted"
    BY <1>1, NextKeepsTypes, NextKeepsCommands, NextKeepsConnecting, NextDoesNotAbort
  <1>3. Monitoring' /\ Ordered' /\ Told' /\ Pipeline'
    BY <1>1, NextKeepsMonitoring, NextKeepsOrdered, NextKeepsTold, NextKeepsPipeline
  <1>4. LateCommands' /\ FreesLast' /\ NullTold' /\ Walked' /\ LeftClean'
    BY <1>1, NextKeepsLate, NextKeepsFreesLast, NextKeepsNullTold, NextKeepsWalked, NextKeepsLeftClean
  <1> QED
    BY <1>2, <1>3, <1>4 DEF Inv, Leaving

LEMMA InvHolds == ASSUME Careful PROVE Spec => []Inv
  <1>1. Inv /\ [Next]_vars => Inv'
    BY NextKeepsInv
  <1> QED
    BY <1>1, InitInv, PTL DEF Spec

(***************************************************************************)
(* What it means.                                                          *)
(***************************************************************************)
LEMMA ToldMeansOwn == Inv => OwnReply
  <1> SUFFICES ASSUME Inv, NEW id \in DOMAIN issued, issued[id].op \in Other
               PROVE  Len(got[id]) <= 1 /\ \A i \in DOMAIN got[id] : IsOwn(got[id][i], id)
    BY DEF OwnReply
  <1>1. /\ \A i \in DOMAIN got[id] : IsOwn(got[id][i], id)
        /\ Len(got[id]) = 1 \/ got[id] = <<>>
    BY DEF Inv, Told
  <1>2. CASE Len(got[id]) = 1
    BY <1>1, <1>2
  <1>3. CASE got[id] = <<>>
    <2>1. Len(got[id]) = 0
      BY <1>3
    <2> QED
      BY <1>1, <2>1
  <1> QED
    BY <1>1, <1>2, <1>3

\* A registered callback is among those that __redisAsyncFree visits.
LEMMA Visited ==
    ASSUME Types, NEW p \in BOOLEAN, NEW n \in Key, Registered(p, n)
    PROVE  \E i \in 1..Len(SubscriptionCbs) : SubscriptionCbs[i].id = last[p][n]
  <1> DEFINE ht == IF p THEN patterns ELSE channels
             ec == Entries(channels)
             ep == Entries(patterns)
             c == [id |-> last[p][n], fn |-> TRUE]
             e == [key |-> n, val |-> c]
  <1>1. /\ IsTable(channels, Subs) /\ IsTable(patterns, Subs) /\ Found(channels, FALSE) /\ Found(patterns, TRUE)
        /\ last \in [BOOLEAN -> [Key -> 0..MaxCmds]]
    BY DEF Types, TableTypes
  <1>2. IsTable(ht, Subs) /\ dictFind(ht, n) = c
    BY <1>1 DEF Found, Registered
  <1>3. c # NoEntry
    <2>1. c \in [id : Nat, fn : BOOLEAN]
      BY <1>1, BoundsAssumption
    <2> QED
      BY <2>1, NoEntryAssumption
  <1>4. In(ht.table, e)
    <2> HIDE DEF ht, c
    <2> QED
      BY <1>2, <1>3, FindsEntry
  <1>5. PICK j \in DOMAIN Entries(ht) : Entries(ht)[j] = e
    <2>1. IsTable(ht, Subs) /\ In(ht.table, e)
      BY <1>2, <1>4
    <2> HIDE DEF ht, e
    <2> QED
      BY <2>1, EntryListed
  <1>6. ec \in Seq(Entry(Subs)) /\ ep \in Seq(Entry(Subs))
    BY <1>1, TableEntries
  <1>7. \E i \in 1..Len(ec \o ep) : (ec \o ep)[i] = e
    <2>1. (ht = channels /\ Entries(ht) = ec) \/ (ht = patterns /\ Entries(ht) = ep)
      OBVIOUS
    <2> HIDE DEF ht, ec, ep, e
    <2>2. CASE Entries(ht) = ec
      <3>1. j \in 1..Len(ec) /\ ec[j] = e
        BY <1>5, <1>6, <2>2
      <3>2. j \in 1..Len(ec \o ep) /\ (ec \o ep)[j] = ec[j]
        BY <1>6, <3>1
      <3> QED
        BY <3>1, <3>2
    <2>3. CASE Entries(ht) = ep
      <3>1. j \in 1..Len(ep) /\ ep[j] = e
        BY <1>5, <1>6, <2>3
      <3>2. Len(ec) + j \in 1..Len(ec \o ep) /\ (ec \o ep)[Len(ec) + j] = ep[j]
        BY <1>6, <3>1
      <3> QED
        BY <3>1, <3>2
    <2> QED
      BY <2>1, <2>2, <2>3
  <1>8. PICK i \in 1..Len(ec \o ep) : (ec \o ep)[i] = e
    BY <1>7
  <1>9. /\ SubscriptionCbs = [k \in 1..Len(ec \o ep) |-> (ec \o ep)[k].val]
        /\ Len(SubscriptionCbs) \in Nat /\ DOMAIN SubscriptionCbs = 1..Len(SubscriptionCbs)
    BY <1>1, SubscriptionCbsTypes DEF SubscriptionCbs, Types
  <1>10. e.val.id = last[p][n]
    OBVIOUS
  <1> HIDE DEF ec, ep, e
  <1>11. i \in 1..Len(SubscriptionCbs) /\ SubscriptionCbs[i] = e.val
    BY <1>8, <1>9
  <1> QED
    BY <1>10, <1>11

LEMMA InvMeansNothingForgotten == Inv => NothingForgotten
  <1> SUFFICES ASSUME Inv, pc = "gone" PROVE NothingForgotten
    BY DEF NothingForgotten
  <1>1. Types /\ Commands /\ Told /\ NullTold /\ Walked /\ LeftClean
    BY DEF Inv, Leaving
  <1>2. replies = <<>> /\ invalid = <<>> /\ walk = Len(SubscriptionCbs)
    BY <1>1 DEF Types, FreeTypes
  <1>3. \A id \in DOMAIN issued : issued[id].op \in Other => Len(got[id]) = IF issued[id].fn THEN 1 ELSE 0
    <2>1. \A id : ~Pending(id)
      BY <1>2 DEF Pending, Waits
    <2>2. Len(<<>>) = 0
      OBVIOUS
    <2> QED
      BY <1>1, <2>1, <2>2 DEF Told
  <1>4. ASSUME NEW p \in BOOLEAN, NEW n \in Key, last[p][n] # 0
        PROVE  got[last[p][n]] # <<>> /\ Last(got[last[p][n]]) = NULL
    <2>1. PICK i \in 1..Len(SubscriptionCbs) : SubscriptionCbs[i].id = last[p][n]
      BY <1>1, <1>4, Visited DEF Registered
    <2> QED
      BY <1>1, <1>2, <2>1 DEF Walked
  <1>5. ASSUME left = "ok", "FREEING" \notin flags, NEW id \in DOMAIN issued, issued[id].op \in Other, ~issued[id].subscribed
        PROVE  NULL \notin ToSet(got[id])
    <2>1. ~err
      BY <1>1, <1>5 DEF LeftClean
    <2>2. \A i \in DOMAIN got[id] : got[id][i] # NULL
      BY <1>1, <1>5, <2>1 DEF NullTold
    <2> QED
      BY <2>2 DEF ToSet
  <1> QED
    BY <1>3, <1>4, <1>5 DEF NothingForgotten

\* Of the steps outside redisProcessCallbacks only a read changes the replies
\* not yet taken, and only adds to them.
LEMMA QuietReads ==
    ASSUME Quiet
    PROVE  \/ reader' = reader \/ SpontaneousError
           \/ \E n \in 0..Len(inbuf) : reader' = reader \o SubSeq(inbuf, 1, n)
  <1>1. CASE redisAsyncDisconnect \/ redisAsyncFree \/ ServerCloses \/ ServerSpeaks \/ ReplyCallbackReturns \/ UNCHANGED vars
    BY <1>1 DEF redisAsyncDisconnect, redisAsyncFree, ServerCloses, ServerSpeaks, ReplyCallbackReturns, vars, local
  <1>2. CASE __redisAsyncHandleConnect \/ redisAsyncHandleWrite
    BY <1>2 DEF __redisAsyncHandleConnect, redisAsyncHandleWrite
  <1>3. CASE redisAsyncHandleRead
    BY <1>3 DEF redisAsyncHandleRead
  <1> QED
    BY <1>1, <1>2, <1>3 DEF Quiet

LEMMA MessageTaken ==
    ASSUME Inv, [Next]_vars, reader # <<>>, reader' = Tail(reader), Head(reader).type = "message"
    PROVE  LET r == Head(reader)
           IN  got' = [got EXCEPT ![last[r.p][r.name]] = Append(@, r)]
  <1>1. Types /\ Commands /\ Monitoring /\ Ordered /\ Pipeline
    BY DEF Inv
  <1>2. reader \in Seq(ReplyOf) /\ inbuf \in Seq(ReplyOf)
    BY <1>1 DEF Types, WireTypes
  <1>3. Len(reader) \in Nat /\ Len(Tail(reader)) < Len(reader) /\ Tail(reader) # reader
    BY <1>2
  <1>4. IsArray(Head(reader)) /\ Head(reader).type # "error"
    BY DEF IsArray
  <1>5. CASE redisAsyncCommand
    <2>1. PICK op, p, names, fn : __redisAsyncCommand(op, p, names, fn)
      BY <1>5, CommandIssued
    <2>2. reader' = reader
      BY <2>1 DEF __redisAsyncCommand
    <2> QED
      BY <1>3, <2>2
  <1>6. CASE Quiet
    <2>1. ~SpontaneousError
      BY <1>4 DEF SpontaneousError
    <2>2. PICK n \in 0..Len(inbuf) : reader' = reader \o SubSeq(inbuf, 1, n)
      BY <1>3, <1>6, <2>1, QuietReads
    <2>3. SubSeq(inbuf, 1, n) \in Seq(ReplyOf)
      BY <1>2
    <2>4. Len(reader \o SubSeq(inbuf, 1, n)) = Len(reader) + Len(SubSeq(inbuf, 1, n)) /\ Len(SubSeq(inbuf, 1, n)) \in Nat
      BY <1>2, <2>3, CatAt
    <2> DEFINE taken == Len(Tail(reader))
               before == Len(reader)
               more == Len(SubSeq(inbuf, 1, n))
    <2>5. taken = before + more /\ more \in Nat /\ before \in Nat /\ taken < before
      BY <1>3, <2>2, <2>4
    <2> HIDE DEF taken, before, more
    <2>6. FALSE
      BY <2>5
    <2> QED
      BY <2>6
  <1>7. CASE NoReply
    BY <1>7 DEF NoReply
  <1>8. CASE ShiftedReply
    <2>1. replies # <<>> /\ pc = "process"
      BY <1>8 DEF ShiftedReply
    <2> QED
      BY <1>1, <1>4, <2>1, ArrayHead DEF Live
  <1>9. CASE PubSubReply
    BY <1>1, <1>9, PubSubTakes
  <1>10. CASE InvalidReply
    BY <1>4, <1>10 DEF InvalidReply
  <1>11. CASE OtherReply
    BY <1>1, <1>4, <1>11, OtherTakes
  <1>12. CASE __redisAsyncFree
    BY <1>1, <1>3, <1>12, FreeQueues
  <1> QED
    BY <1>5, <1>6, <1>7, <1>8, <1>9, <1>10, <1>11, <1>12, NextSteps

(***************************************************************************)
(* The results about a careful user (CarefulCommand): a user who is not    *)
(* meets the failures that README.md describes.                            *)
(***************************************************************************)
\* The callback of a command that waits for one reply is run at most once,
\* with its own reply, with an error of the connection or with NULL: the list
\* of replies and that of invalid commands keep step with the pipeline
\* (async.c:425-497 and 608-619), through callbacks that issue commands, free
\* and disconnect, whatever the server, the hashes and the bounds.
THEOREM CallbackGetsOwnReply == ASSUME Careful PROVE Spec => []OwnReply
  BY InvHolds, ToldMeansOwn, PTL

\* Neither assertion of async.c fails: __redisAsyncDisconnect finds no pending
\* callback (async.c:346), and a reply nobody waits for comes only to a context
\* that is subscribed or monitoring (async.c:464).
THEOREM AssertionsHold == ASSUME Careful PROVE Spec => []NeverAborts
  <1>1. Inv => NeverAborts
    BY DEF Inv, NeverAborts
  <1> QED
    BY <1>1, InvHolds, PTL

\* When __redisAsyncFree (async.c:277-333) has freed the context, each command
\* with a callback has been told: a regular one once, a subscription that stands
\* with NULL at last; and a context that left without an error or a free told
\* none NULL that it was to wait for.
THEOREM EveryCallbackIsTold == ASSUME Careful PROVE Spec => []NothingForgotten
  BY InvHolds, InvMeansNothingForgotten, PTL

\* The step that takes a message from the reader hands it to the callback of
\* the last subscription of its name and to no other (async.c:372-420), however
\* the tables grew and whatever was pending.
THEOREM MessagesReachTheirSubscribers == ASSUME Careful PROVE Spec => MessageToSubscriber
  <1>1. Inv /\ [Next]_vars =>
          [reader # <<>> /\ reader' = Tail(reader) /\ Head(reader).type = "message"
             => LET r == Head(reader)
                IN  got' = [got EXCEPT ![last[r.p][r.name]] = Append(@, r)]]_vars
    BY MessageTaken
  <1> QED
    BY <1>1, InvHolds, PTL DEF Spec, MessageToSubscriber

=============================================================================
