--------------------------- MODULE HttpConnProofs ---------------------------
(***************************************************************************)
(* Theorems about HttpConn, for any requests, resources, buffer sizes and  *)
(* parts that send takes.                                                  *)
(***************************************************************************)
EXTENDS HttpConn, SequenceTheorems, FiniteSetTheorems, WellFoundedInduction, TLAPS

(***************************************************************************)
(* Induction, as a fact on sets of naturals, and recursion.                *)
(***************************************************************************)
\* A nonempty set of naturals has a least element.
LEMMA LeastNatural ==
    ASSUME NEW T, T \subseteq Nat, T # {}
    PROVE  \E x \in T : \A y \in T : x <= y
  <1> DEFINE R == OpToRel(<, Nat)
  <1>1. \E x \in T : \A y \in T : <<y, x>> \notin R
    BY NatLessThanWellFounded, WFMin
  <1>2. \A x, y \in Nat : y < x => <<y, x>> \in R
    BY DEF OpToRel
  <1> HIDE DEF R
  <1>3. \A x, y \in T : <<y, x>> \notin R => ~(y < x)
    BY <1>2
  <1>4. \E x \in T : \A y \in T : ~(y < x)
    BY <1>1, <1>3, Zenon
  <1> QED
    BY <1>4

\* A set of naturals with 0 and the successor of each member holds them all.
LEMMA SetInduction ==
    ASSUME NEW T, T \subseteq Nat, 0 \in T, \A n \in T : n + 1 \in T
    PROVE  T = Nat
  <1> SUFFICES ASSUME Nat \ T # {} PROVE FALSE
    OBVIOUS
  <1>1. PICK n \in Nat \ T : \A m \in Nat \ T : n <= m
    BY LeastNatural
  <1>2. n # 0 /\ n - 1 \in Nat
    OBVIOUS
  <1>3. n - 1 \in T
    BY <1>1, <1>2
  <1>4. (n - 1) + 1 \in T
    BY <1>3
  <1> QED
    BY <1>1, <1>2, <1>4

\* f is base for 0, and for k what h makes of f for k - 1.
Iterates(f, n, base, h) == f[0] = base /\ \A k \in 1..n : f[k] = h[<<k, f[k - 1]>>]

\* There is a function that iterates h.
LEMMA Recursion ==
    ASSUME NEW N \in Nat, NEW S, NEW base \in S, NEW h \in [(1..N) \X S -> S]
    PROVE  \E f \in [0..N -> S] : Iterates(f, N, base, h)
  <1> USE DEF Iterates
  <1> DEFINE Is(n, f) == Iterates(f, n, base, h)
             T == {n \in Nat : n <= N => \E f \in [0..n -> S] : Is(n, f)}
  <1>1. 0 \in T
    <2>1. [k \in 0..0 |-> base] \in [0..0 -> S]
      OBVIOUS
    <2>2. Is(0, [k \in 0..0 |-> base])
      OBVIOUS
    <2> QED
      BY <2>1, <2>2
  <1>2. ASSUME NEW n \in T PROVE n + 1 \in T
    <2>1. n \in Nat
      OBVIOUS
    <2>2. SUFFICES ASSUME n + 1 <= N
                   PROVE  \E f \in [0..(n + 1) -> S] : Is(n + 1, f)
      BY <2>1
    <2>3. PICK f \in [0..n -> S] : Is(n, f)
      BY <1>2, <2>1, <2>2
    <2> DEFINE g == [k \in 0..(n + 1) |-> IF k <= n THEN f[k] ELSE h[<<n + 1, f[n]>>]]
    <2>4. f[n] \in S /\ <<n + 1, f[n]>> \in (1..N) \X S
      BY <2>1, <2>2
    <2>5. g \in [0..(n + 1) -> S]
      BY <2>1, <2>4
    <2>6. (\A k \in 0..n : g[k] = f[k]) /\ g[n + 1] = h[<<n + 1, g[n]>>]
      <3>1. \A k \in 0..n : k \in 0..(n + 1) /\ k <= n
        BY <2>1
      <3>2. n + 1 \in 0..(n + 1) /\ ~(n + 1 <= n) /\ n \in 0..n
        BY <2>1
      <3> QED
        BY <3>1, <3>2
    <2> HIDE DEF g
    <2>7. ASSUME NEW k \in 1..(n + 1) PROVE g[k] = h[<<k, g[k - 1]>>]
      <3>1. CASE k = n + 1
        <4>1. k - 1 = n
          BY <2>1, <3>1
        <4> QED
          BY <2>6, <3>1, <4>1
      <3>2. CASE k <= n
        <4>1. k \in 1..n /\ k \in 0..n /\ k - 1 \in 0..n
          BY <2>1, <3>2
        <4> QED
          BY <2>3, <2>6, <4>1
      <3> QED
        BY <2>1, <3>1, <3>2
    <2>8. g[0] = base
      BY <2>1, <2>3, <2>6
    <2>9. Is(n + 1, g)
      BY <2>7, <2>8
    <2> QED
      BY <2>5, <2>9
  <1>3. T \subseteq Nat
    OBVIOUS
  <1>4. T = Nat
    <2> HIDE DEF T
    <2> QED
      BY <1>1, <1>2, <1>3, SetInduction
  <1>5. N \in T
    BY <1>4
  <1> QED
    BY <1>5

(***************************************************************************)
(* Sequences strung together.                                              *)
(***************************************************************************)

\* The partial results of FlattenSeq.
Flattens(f, s, n) == f[0] = <<>> /\ \A k \in 1..n : f[k] = f[k - 1] \o s[k]

\* Two sequences begin with the same n items.
Same(s, t, n) == \A k \in 1..n : s[k] = t[k]

\* There is only one function of partial results.
LEMMA FlattensOnce ==
    ASSUME NEW s, NEW t, NEW f, NEW g, NEW n \in Nat,
           Flattens(f, s, n), Flattens(g, t, n), Same(s, t, n)
    PROVE  f[n] = g[n]
  <1> DEFINE T == {k \in Nat : k <= n => f[k] = g[k]}
  <1>1. 0 \in T
    BY DEF Flattens
  <1>2. ASSUME NEW k \in T PROVE k + 1 \in T
    <2>1. CASE k + 1 <= n
      <3>1. k + 1 \in 1..n /\ (k + 1) - 1 = k /\ k <= n
        BY <2>1
      <3>2. f[k + 1] = f[k] \o s[k + 1] /\ g[k + 1] = g[k] \o t[k + 1]
        BY <3>1 DEF Flattens
      <3>3. f[k] = g[k] /\ s[k + 1] = t[k + 1]
        BY <3>1 DEF Same
      <3>4. f[k + 1] = g[k + 1]
        BY <3>2, <3>3, Zenon
      <3> QED
        BY <3>4
    <2>2. CASE ~(k + 1 <= n)
      BY <2>2
    <2> QED
      BY <2>1, <2>2
  <1>3. T \subseteq Nat
    OBVIOUS
  <1>4. T = Nat
    <2> HIDE DEF T
    <2> QED
      BY <1>1, <1>2, <1>3, SetInduction
  <1>5. n \in T
    BY <1>4
  <1> QED
    BY <1>5

\* FlattenSeq is the last partial result.
LEMMA FlattenRecursion ==
    ASSUME NEW B, NEW s \in Seq(Seq(B))
    PROVE  \E f : Flattens(f, s, Len(s)) /\ f[Len(s)] \in Seq(B) /\ FlattenSeq(s) = f[Len(s)]
  <1> DEFINE N == Len(s)
             h == [p \in (1..N) \X Seq(B) |-> p[2] \o s[p[1]]]
  <1>1. N \in Nat /\ \A k \in 1..N : s[k] \in Seq(B)
    OBVIOUS
  <1>2. h \in [(1..N) \X Seq(B) -> Seq(B)]
    <2>1. \A x, y \in Seq(B) : x \o y \in Seq(B)
      OBVIOUS
    <2>2. \A p \in (1..N) \X Seq(B) : p[2] \in Seq(B) /\ s[p[1]] \in Seq(B)
      BY <1>1
    <2> QED
      BY <2>1, <2>2
  <1>3. \A k \in 1..N, x \in Seq(B) : h[<<k, x>>] = x \o s[k]
    OBVIOUS
  <1>4. PICK f \in [0..N -> Seq(B)] : Iterates(f, N, <<>>, h)
    <2> HIDE DEF h, N
    <2>1. <<>> \in Seq(B)
      OBVIOUS
    <2> QED
      BY <1>1, <1>2, <2>1, Recursion, Zenon
  <1>5. Flattens(f, s, N)
    <2>1. \A k \in 1..N : k - 1 \in 0..N
      BY <1>1
    <2>2. \A k \in 1..N : f[k] = h[<<k, f[k - 1]>>] /\ f[k - 1] \in Seq(B)
      BY <1>4, <2>1 DEF Iterates
    <2> HIDE DEF h, N
    <2>3. \A k \in 1..N : f[k] = f[k - 1] \o s[k]
      BY <1>3, <2>2
    <2> QED
      BY <1>4, <2>3 DEF Flattens, Iterates
  <1>6. FlattenSeq(s) = f[N]
    <2>1. CASE N = 0
      <3>1. s = <<>>
        BY <2>1
      <3> QED
        BY <1>5, <2>1, <3>1 DEF Flattens, FlattenSeq
    <2>2. CASE N # 0
      <3> DEFINE E(v) == v = [i \in 1..N |-> IF i = 1 THEN s[i] ELSE v[i - 1] \o s[i]]
                 v0 == [i \in 1..N |-> f[i]]
      <3>1. E(v0)
        <4> HIDE DEF N
        <4>1. \A i \in 1..N : v0[i] = IF i = 1 THEN s[i] ELSE v0[i - 1] \o s[i]
          <5> TAKE i \in 1..N
          <5>1. CASE i = 1
            <6>0. 1 \in 1..N /\ 1 - 1 = 0
              BY <5>1
            <6>1. f[1] = <<>> \o s[1]
              BY <1>5, <6>0, Zenon DEF Flattens
            <6>2. s[1] \in Seq(B)
              BY <1>1, <5>1
            <6>3. <<>> \o s[1] = s[1]
              BY <6>2
            <6> QED
              BY <5>1, <6>1, <6>3
          <5>2. CASE i # 1
            <6>1. i - 1 \in 1..N
              BY <1>1, <5>2
            <6> QED
              BY <1>5, <5>2, <6>1, Zenon DEF Flattens
          <5> QED
            BY <5>1, <5>2
        <4>2. v0 = [i \in 1..N |-> v0[i]]
          OBVIOUS
        <4> HIDE DEF v0
        <4> QED
          BY <4>1, <4>2
      <3> DEFINE v == CHOOSE v : E(v)
      <3>2. E(v)
        BY <3>1, Zenon
      <3>3. FlattenSeq(s) = v[N]
        BY <2>2 DEF FlattenSeq
      <3> DEFINE g == [i \in 0..N |-> IF i = 0 THEN <<>> ELSE v[i]]
      <3> HIDE DEF v, N
      <3>4. Flattens(g, s, N)
        <4>1. g[0] = <<>>
          BY <1>1
        <4>2. ASSUME NEW k \in 1..N PROVE g[k] = g[k - 1] \o s[k]
          <5>1. k - 1 \in 0..N /\ k \in 0..N /\ k # 0 /\ s[k] \in Seq(B)
            BY <1>1
          <5>2. CASE k = 1
            <6>1. v[1] = s[1]
              BY <3>2, <5>2
            <6>2. g[k - 1] = <<>> /\ g[k] = v[k]
              BY <5>1, <5>2
            <6>3. <<>> \o s[k] = s[k]
              BY <5>1
            <6> QED
              BY <5>2, <6>1, <6>2, <6>3
          <5>3. CASE k # 1
            <6>1. v[k] = v[k - 1] \o s[k]
              BY <3>2, <5>3
            <6>2. k - 1 # 0
              BY <5>3
            <6>3. g[k - 1] = v[k - 1] /\ g[k] = v[k]
              BY <5>1, <6>2
            <6> QED
              BY <6>1, <6>3
          <5> QED
            BY <5>2, <5>3
        <4> QED
          BY <4>1, <4>2 DEF Flattens
      <3>5. f[N] = g[N]
        <4> HIDE DEF g
        <4> QED
          <5>1. Same(s, s, N)
            BY DEF Same
          <5> QED
            BY <1>1, <1>5, <3>4, <5>1, FlattensOnce
      <3>6. g[N] = v[N]
        BY <1>1, <2>2
      <3> QED
        BY <3>3, <3>5, <3>6
    <2> QED
      BY <2>1, <2>2
  <1>7. f[N] \in Seq(B)
    BY <1>1, <1>4
  <1> QED
    BY <1>5, <1>6, <1>7

\* One sequence more goes behind what was strung together.
LEMMA FlattenAppend ==
    ASSUME NEW B, NEW s \in Seq(Seq(B)), NEW x \in Seq(B)
    PROVE  /\ FlattenSeq(s) \in Seq(B)
           /\ FlattenSeq(Append(s, x)) = FlattenSeq(s) \o x
  <1> DEFINE more == Append(s, x)
             last == Len(s)
  <1>1. /\ more \in Seq(Seq(B)) /\ Len(more) = last + 1 /\ last \in Nat
        /\ more[last + 1] = x /\ \A k \in 1..last : more[k] = s[k]
    OBVIOUS
  <1>2. PICK f : Flattens(f, s, last) /\ f[last] \in Seq(B) /\ FlattenSeq(s) = f[last]
    BY FlattenRecursion
  <1> HIDE DEF more, last
  <1>3. PICK g : Flattens(g, more, Len(more)) /\ FlattenSeq(more) = g[Len(more)]
    BY <1>1, FlattenRecursion
  <1>4. Flattens(g, more, last) /\ g[last + 1] = g[last] \o x
    <2>1. last + 1 \in 1..(last + 1) /\ (last + 1) - 1 = last /\ \A k \in 1..last : k \in 1..(last + 1)
      BY <1>1
    <2> QED
      BY <1>1, <1>3, <2>1 DEF Flattens
  <1>5. f[last] = g[last]
    <2>1. Same(s, more, last)
      BY <1>1 DEF Same
    <2> QED
      BY <1>1, <1>2, <1>4, <2>1, FlattensOnce
  <1> QED
    BY <1>1, <1>2, <1>3, <1>4, <1>5 DEF more

\* Nothing strung together is nothing.
LEMMA FlattenEmpty == FlattenSeq(<<>>) = <<>>
  BY DEF FlattenSeq

(***************************************************************************)
(* Sequences of unnamed items, and those a response consists of.           *)
(***************************************************************************)
IsSeq(s) == \E T : s \in Seq(T)

LEMMA IsSeqConcat ==
    ASSUME NEW s, NEW t, IsSeq(s), IsSeq(t)
    PROVE  IsSeq(s \o t)
  <1>1. PICK S : s \in Seq(S)
    BY DEF IsSeq
  <1>2. PICK T : t \in Seq(T)
    BY DEF IsSeq
  <1>3. s \in Seq(S \cup T) /\ t \in Seq(S \cup T)
    BY <1>1, <1>2, SeqMonotonic
  <1>4. s \o t \in Seq(S \cup T)
    BY <1>3, ConcatProperties
  <1> QED
    BY <1>4 DEF IsSeq

LEMMA IsSeqOne == ASSUME NEW x PROVE IsSeq(<<x>>) /\ IsSeq(<<>>)
  <1>1. <<x>> \in Seq({x}) /\ <<>> \in Seq({x})
    OBVIOUS
  <1> QED
    BY <1>1 DEF IsSeq

\* The headers of a response can be put in an order.
LEMMA HeadersInOrder ==
    ASSUME NEW H, IsFiniteSet(H)
    PROVE  IsSeq(SetToSeq({<<h>> : h \in H}))
  <1> DEFINE T == {<<h>> : h \in H}
             f == [h \in H |-> <<h>>]
  <1>1. f \in Surjection(H, T)
    BY DEF Surjection
  <1>2. IsFiniteSet(T)
    <2> HIDE DEF f, T
    <2> QED
      BY <1>1, FS_Surjection
  <1> HIDE DEF T
  <1>3. Cardinality(T) \in Nat /\ ExistsBijection(1..Cardinality(T), T)
    BY <1>2, FS_CardinalityType
  <1>4. \E g \in [1..Cardinality(T) -> T] : IsInjective(g)
    BY <1>3 DEF ExistsBijection, Bijection, Injection
  <1>5. SetToSeq(T) \in [1..Cardinality(T) -> T]
    BY <1>4 DEF SetToSeq
  <1>6. SetToSeq(T) \in Seq(T)
    BY <1>3, <1>5
  <1>7. IsSeq(SetToSeq(T))
    BY <1>6 DEF IsSeq
  <1> QED
    BY <1>7 DEF T

\* The bytes of a response are a sequence.
LEMMA ResponseIsSeq ==
    ASSUME NEW r, IsFiniteSet(r.headers), IsSeq(r.body)
    PROVE  IsSeq(gen_response(r))
  <1> DEFINE a == << <<"status", req._http_version, r.code>> >>
             b == IF "Content-Type" \in r.headers THEN <<>> ELSE << <<"Content-Type">> >>
             c == IF "Content-Length" \in r.headers THEN <<>> ELSE << <<"Content-Length", Len(r.body)>> >>
             d == << <<"Connection", is_keepalive>> >>
             e == SetToSeq({<<h>> : h \in r.headers})
             f == << <<"end">> >>
  <1>1. IsSeq(a) /\ IsSeq(d) /\ IsSeq(f)
    BY IsSeqOne, Zenon
  <1>2. IsSeq(b) /\ IsSeq(c)
    BY IsSeqOne, Zenon
  <1>3. IsSeq(e)
    BY HeadersInOrder, Zenon
  <1>4. gen_response(r) = a \o b \o c \o d \o e \o f \o r.body
    BY DEF gen_response
  <1> HIDE DEF a, b, c, d, e, f
  <1>5. IsSeq(a \o b)
    BY <1>1, <1>2, IsSeqConcat
  <1>6. IsSeq(a \o b \o c)
    BY <1>2, <1>5, IsSeqConcat
  <1>7. IsSeq(a \o b \o c \o d)
    BY <1>1, <1>6, IsSeqConcat
  <1>8. IsSeq(a \o b \o c \o d \o e)
    BY <1>3, <1>7, IsSeqConcat
  <1>9. IsSeq(a \o b \o c \o d \o e \o f)
    BY <1>1, <1>8, IsSeqConcat
  <1> QED
    BY <1>4, <1>9, IsSeqConcat

\* The first part of a sequence is a prefix of it.
LEMMA ConcatPrefix ==
    ASSUME NEW S, NEW s \in Seq(S), NEW t \in Seq(S)
    PROVE  IsPrefix(s, s \o t) /\ IsPrefix(s, s)
  <1>1. SubSeq(s \o t, 1, Len(s)) = s
    OBVIOUS
  <1>2. SubSeq(s, 1, Len(s)) = s
    OBVIOUS
  <1>3. Len(s) <= Len(s \o t) /\ Len(s) <= Len(s)
    OBVIOUS
  <1> QED
    BY <1>1, <1>2, <1>3 DEF IsPrefix

LEMMA MinOfTwo ==
    ASSUME NEW a \in Int, NEW b \in Int
    PROVE  Min({a, b}) = IF a <= b THEN a ELSE b
  <1>1. \E x \in {a, b} : \A y \in {a, b} : x =< y
    OBVIOUS
  <1> DEFINE m == CHOOSE x \in {a, b} : \A y \in {a, b} : x =< y
  <1>2. m \in {a, b} /\ \A y \in {a, b} : m =< y
    BY <1>1
  <1> HIDE DEF m
  <1>3. m = IF a <= b THEN a ELSE b
    BY <1>2
  <1> QED
    BY <1>3 DEF m, Min

\* A part of the rest joins what comes before it.
LEMMA MoveOn ==
    ASSUME NEW S, NEW s \in Seq(S), NEW t \in Seq(S), NEW i \in Nat, NEW j \in Nat, i + j <= Len(t)
    PROVE  /\ s \o SubSeq(t, i + 1, i + j) \in Seq(S)
           /\ (s \o SubSeq(t, i + 1, i + j)) \o SubSeq(t, i + j + 1, Len(t)) = s \o SubSeq(t, i + 1, Len(t))
  <1> DEFINE a == SubSeq(t, i + 1, i + j)
             b == SubSeq(t, i + j + 1, Len(t))
  <1>1. a \in Seq(S) /\ b \in Seq(S)
    OBVIOUS
  <1>2. a \o b = SubSeq(t, i + 1, Len(t))
    <2>1. i + 1 \in 1..(Len(t) + 1) /\ i + j \in ((i + 1) - 1)..Len(t) /\ Len(t) \in (i + j)..Len(t)
      OBVIOUS
    <2> QED
      BY <2>1, ConcatAdjacentSubSeq
  <1> HIDE DEF a, b
  <1>3. (s \o a) \o b = s \o (a \o b)
    BY <1>1, ConcatAssociative, SMTT(30)
  <1>4. s \o a \in Seq(S)
    BY <1>1, ConcatProperties
  <1> QED
    BY <1>2, <1>3, <1>4 DEF a, b

(***************************************************************************)
(* The response: what is sent of it, and what is still to send.            *)
(***************************************************************************)
ResFields == {"code", "headers", "body", "written", "bytes", "tellg", "eof"}

\* Its bytes are made once, and the read position is among them.
ResInv ==
    /\ ResFields \subseteq DOMAIN res
    /\ IsFiniteSet(res.headers) /\ IsSeq(res.body) /\ res.written \in BOOLEAN
    /\ res.tellg \in Nat
    /\ ~res.written => res.tellg = 0 /\ res.bytes = <<>>

\* What was received and what is left of the response at hand are the
\* responses made, unless a part was thrown away.
SentInv ==
    /\ armed \in {"in", "parse", "out", "closed"}
    /\ armed \in {"in", "parse"} => ~res.written
    /\ \E S : /\ texts \in Seq(Seq(S)) /\ received \in Seq(S) /\ res.bytes \in Seq(S)
              /\ res.tellg <= Len(res.bytes)
              /\ ~cut => IsPrefix(received, FlattenSeq(texts))
              /\ ~cut /\ armed # "closed" =>
                    received \o SubSeq(res.bytes, res.tellg + 1, Len(res.bytes)) = FlattenSeq(texts)

\* Nothing that they speak of changes.
LEMMA SameResponse ==
    ASSUME ResInv, SentInv, UNCHANGED <<res, texts, received, cut>>, armed' \in {"in", "parse", "out", "closed"},
           armed' \in {"in", "parse"} => armed \in {"in", "parse"}, armed' # "closed" => armed # "closed"
    PROVE  ResInv' /\ SentInv'
  <1>1. ResInv'
    BY DEF ResInv
  <1>2. SentInv'
    BY DEF SentInv
  <1> QED
    BY <1>1, <1>2

\* A response that nothing was sent of leaves the client with the responses
\* made before.
LEMMA NothingLeft ==
    ASSUME NEW r, r.tellg = 0, r.bytes = <<>>, NEW S, NEW s \in Seq(S)
    PROVE  s \o SubSeq(r.bytes, r.tellg + 1, Len(r.bytes)) = s
  <1>1. SubSeq(<<>>, 0 + 1, Len(<<>>)) = <<>>
    OBVIOUS
  <1> QED
    BY <1>1

\* A reply becomes the response.
LEMMA AnswerKeeps ==
    ASSUME ResInv, SentInv, armed = "parse", armed' = "out", NEW reply, Answer(reply),
           IsFiniteSet(reply.headers), IsSeq(reply.body), UNCHANGED <<texts, received, cut>>
    PROVE  ResInv' /\ SentInv'
  <1>1. /\ DOMAIN res' = DOMAIN res /\ res'.headers = reply.headers /\ res'.body = reply.body
        /\ res'.written = res.written /\ res'.tellg = res.tellg /\ res'.bytes = res.bytes
    BY DEF Answer, ResInv, ResFields
  <1>2. ResInv'
    BY <1>1 DEF ResInv
  <1>3. SentInv'
    BY <1>1 DEF SentInv
  <1> QED
    BY <1>2, <1>3

\* Whatever handle_request makes is a reply.
LEMMA Replies ==
    ASSUME NEW reply \in handle_request
    PROVE  IsFiniteSet(reply.headers) /\ IsSeq(reply.body)
  <1> DEFINE uri == get_request_uri
             r404 == [code |-> STATUS_NOT_FOUND, headers |-> {}, body |-> <<"Not Found">>]
             r405 == [code |-> STATUS_METHOD_NOT_ALLOWED, headers |-> {"Allow"}, body |-> <<>>]
  <1>1. \/ reply = r404 \/ reply = r405
        \/ uri \in DOMAIN Resources /\ reply \in Resources[uri].replies
    BY DEF handle_request
  <1>2. CASE reply = r404
    <2>1. IsFiniteSet({})
      BY FS_EmptySet
    <2> QED
      BY <1>2, <2>1, IsSeqOne
  <1>3. CASE reply = r405
    <2>1. IsFiniteSet({"Allow"})
      BY FS_Singleton
    <2> QED
      BY <1>3, <2>1, IsSeqOne
  <1>4. CASE uri \in DOMAIN Resources /\ reply \in Resources[uri].replies
    BY <1>4, RepliesAssumption DEF IsSeq
  <1> QED
    BY <1>1, <1>2, <1>3, <1>4

LEMMA ParsedKeeps == ASSUME ResInv, SentInv, Parsed PROVE ResInv' /\ SentInv'
  <1>1. armed = "parse" /\ UNCHANGED <<texts, received, cut>>
    BY DEF Parsed, connUnchanged
  <1>2. CASE ParseResult = "NEED_MORE_STATUS"
    <2>1. armed' = "in" /\ UNCHANGED res
      BY <1>2 DEF Parsed
    <2> QED
      BY <1>1, <2>1, SameResponse
  <1>3. CASE ParseResult = "PARSE_LEN_REQUIRED"
    <2> DEFINE reply == [code |-> STATUS_LENGTH_REQUIRED, headers |-> {}, body |-> <<"Length Required">>]
    <2>1. armed' = "out" /\ Answer(reply)
      BY <1>3 DEF Parsed
    <2>2. IsFiniteSet(reply.headers) /\ IsSeq(reply.body)
      BY FS_EmptySet, IsSeqOne
    <2> HIDE DEF reply
    <2> QED
      BY <1>1, <2>1, <2>2, AnswerKeeps
  <1>4. CASE ParseResult = "over"
    <2>1. armed' = "out" /\ \E reply \in handle_request : Answer(reply)
      BY <1>4 DEF Parsed
    <2>2. PICK reply \in handle_request : Answer(reply)
      BY <2>1
    <2>3. IsFiniteSet(reply.headers) /\ IsSeq(reply.body)
      BY Replies
    <2> QED
      BY <1>1, <2>1, <2>2, <2>3, AnswerKeeps
  <1>5. CASE ParseResult \notin {"NEED_MORE_STATUS", "PARSE_LEN_REQUIRED", "over"}
    <2>1. armed' = "closed" /\ UNCHANGED res
      BY <1>5 DEF Parsed
    <2> QED
      BY <1>1, <2>1, SameResponse
  <1> QED
    BY <1>2, <1>3, <1>4, <1>5

\* With its bytes, the response is what the client still lacks.
LEMMA GeneratedLacks ==
    ASSUME ResInv, SentInv, armed = "out",
           texts' = IF res.written THEN texts ELSE Append(texts, gen_response(res))
    PROVE  /\ ResFields \subseteq DOMAIN Generated /\ Generated.written = TRUE
           /\ IsFiniteSet(Generated.headers) /\ IsSeq(Generated.body) /\ Generated.tellg \in Nat
           /\ \E S : /\ texts' \in Seq(Seq(S)) /\ received \in Seq(S) /\ Generated.bytes \in Seq(S)
                     /\ Generated.tellg <= Len(Generated.bytes)
                     /\ ~cut => /\ IsPrefix(received, FlattenSeq(texts'))
                                /\ received \o SubSeq(Generated.bytes, Generated.tellg + 1, Len(Generated.bytes))
                                     = FlattenSeq(texts')
  <1>1. PICK S : /\ texts \in Seq(Seq(S)) /\ received \in Seq(S) /\ res.bytes \in Seq(S)
                 /\ res.tellg <= Len(res.bytes)
                 /\ ~cut => /\ IsPrefix(received, FlattenSeq(texts))
                            /\ received \o SubSeq(res.bytes, res.tellg + 1, Len(res.bytes)) = FlattenSeq(texts)
    BY DEF SentInv
  <1>2. CASE res.written
    <2>1. Generated = res /\ texts' = texts
      BY <1>2 DEF Generated
    <2> QED
      BY <1>1, <1>2, <2>1 DEF ResInv
  <1>3. CASE ~res.written
    <2> DEFINE g == gen_response(res)
    <2>1. PICK T : g \in Seq(T)
      BY ResponseIsSeq DEF ResInv, IsSeq
    <2> HIDE DEF g
    <2>2. /\ Generated = [res EXCEPT !.bytes = g, !.written = TRUE]
          /\ texts' = Append(texts, g)
      BY <1>3 DEF Generated, g
    <2>3. /\ DOMAIN Generated = DOMAIN res /\ Generated.written = TRUE
          /\ Generated.headers = res.headers /\ Generated.body = res.body
          /\ Generated.tellg = 0 /\ Generated.bytes = g
      BY <1>3, <2>2 DEF ResInv, ResFields
    <2> DEFINE R == S \cup T
    <2>4. Seq(S) \subseteq Seq(R) /\ g \in Seq(R)
      BY <2>1, SeqMonotonic
    <2>5. texts \in Seq(Seq(R)) /\ received \in Seq(R)
      <3>1. received \in Seq(R)
        BY <1>1, <2>4
      <3>2. texts \in Seq(Seq(R))
        BY <1>1, <2>4, SeqMonotonic, Zenon
      <3> QED
        BY <3>1, <3>2
    <2> HIDE DEF R
    <2>6. texts' \in Seq(Seq(R))
      BY <2>2, <2>4, <2>5
    <2>7. FlattenSeq(texts') = FlattenSeq(texts) \o g
      BY <2>2, <2>4, <2>5, FlattenAppend
    <2>8. ~cut => received = FlattenSeq(texts)
      BY <1>1, <1>3, NothingLeft DEF ResInv
    <2>9. SubSeq(g, 0 + 1, Len(g)) = g /\ 0 <= Len(g)
      BY <2>4
    <2>10. ~cut => IsPrefix(received, FlattenSeq(texts'))
      BY <2>4, <2>5, <2>7, <2>8, ConcatPrefix
    <2>11. ~cut => received \o SubSeq(Generated.bytes, Generated.tellg + 1, Len(Generated.bytes)) = FlattenSeq(texts')
      BY <2>3, <2>7, <2>8, <2>9
    <2>12. /\ ResFields \subseteq DOMAIN Generated /\ Generated.written = TRUE
           /\ IsFiniteSet(Generated.headers) /\ IsSeq(Generated.body) /\ Generated.tellg \in Nat
      BY <2>3 DEF ResInv
    <2>13. Generated.bytes \in Seq(R) /\ Generated.tellg <= Len(Generated.bytes)
      BY <2>3, <2>4, <2>9
    <2> QED
      BY <2>5, <2>6, <2>10, <2>11, <2>12, <2>13
  <1> QED
    BY <1>2, <1>3 DEF ResInv

LEMMA WriteKeeps == ASSUME ResInv, SentInv, on_writeable PROVE ResInv' /\ SentInv'
  <1> DEFINE gen == Generated
             size == ReadSize(gen)
  <1>1. armed = "out" /\ texts' = IF res.written THEN texts ELSE Append(texts, gen_response(res))
    BY DEF on_writeable
  <1>2. /\ ResFields \subseteq DOMAIN gen /\ gen.written = TRUE
        /\ IsFiniteSet(gen.headers) /\ IsSeq(gen.body) /\ gen.tellg \in Nat
    BY <1>1, GeneratedLacks, Zenon
  <1>3. PICK S : /\ texts' \in Seq(Seq(S)) /\ received \in Seq(S) /\ gen.bytes \in Seq(S)
                 /\ gen.tellg <= Len(gen.bytes)
                 /\ ~cut => /\ IsPrefix(received, FlattenSeq(texts'))
                            /\ received \o SubSeq(gen.bytes, gen.tellg + 1, Len(gen.bytes)) = FlattenSeq(texts')
    BY <1>1, GeneratedLacks, Zenon
  <1> HIDE DEF gen
  <1>4. CASE armed' = "closed" /\ UNCHANGED <<req, parser, res, received, cut>>
    <2>1. ResInv'
      BY <1>4 DEF ResInv
    <2>2. PICK R : res.bytes \in Seq(R) /\ res.tellg <= Len(res.bytes)
      BY DEF SentInv
    <2> DEFINE Q == S \cup R
    <2>3. Seq(S) \subseteq Seq(Q) /\ res.bytes \in Seq(Q)
      BY <2>2, SeqMonotonic
    <2>4. texts' \in Seq(Seq(Q)) /\ received \in Seq(Q)
      <3>1. received \in Seq(Q)
        BY <1>3, <2>3
      <3>2. texts' \in Seq(Seq(Q))
        BY <1>3, <2>3, SeqMonotonic, Zenon
      <3> QED
        BY <3>1, <3>2
    <2> HIDE DEF Q
    <2>5. SentInv'
      BY <1>3, <1>4, <2>2, <2>3, <2>4 DEF SentInv
    <2> QED
      BY <2>1, <2>5
  <1>5. CASE \E nwrite \in 0..size : size > 0 /\ Send(gen, nwrite)
    <2>1. PICK nwrite \in 0..size : Send(gen, nwrite)
      BY <1>5
    <2> DEFINE some == readsome(gen)
               left == IF nwrite < size THEN rollback(some, size - nwrite) ELSE some
               rest == Len(gen.bytes) - gen.tellg
    <2>2. rest \in Nat /\ Len(gen.bytes) \in Nat /\ SS_WRITE_BUFFER_SIZE \in Nat
      BY <1>2, <1>3, ConnAssumption
    <2>3. size \in Nat /\ size <= rest /\ (SS_WRITE_BUFFER_SIZE > rest => size = rest)
      <3>1. size = Min({SS_WRITE_BUFFER_SIZE, rest})
        BY DEF ReadSize
      <3> HIDE DEF rest, size
      <3> QED
        BY <2>2, <3>1, MinOfTwo
    <2>4. nwrite \in Nat /\ nwrite <= size /\ gen.tellg + nwrite <= Len(gen.bytes)
      BY <1>2, <2>2, <2>3
    <2>5. some.eof = (SS_WRITE_BUFFER_SIZE > rest)
      BY <1>2 DEF readsome, ResFields
    <2>6. /\ ResFields \subseteq DOMAIN left /\ left.headers = gen.headers /\ left.body = gen.body
          /\ left.written = TRUE /\ left.bytes = gen.bytes /\ left.tellg = gen.tellg + nwrite
      <3>1. /\ DOMAIN some = DOMAIN gen /\ some.headers = gen.headers /\ some.body = gen.body
            /\ some.written = TRUE /\ some.bytes = gen.bytes /\ some.tellg = gen.tellg + size
        BY <1>2 DEF readsome, ResFields
      <3> HIDE DEF some, size
      <3>2. CASE nwrite < size
        <4>1. left = [some EXCEPT !.tellg = @ - (size - nwrite), !.eof = FALSE]
          BY <3>2 DEF rollback
        <4> HIDE DEF left
        <4>2. left.tellg = some.tellg - (size - nwrite)
          BY <1>2, <3>1, <4>1 DEF ResFields
        <4>3. left.tellg = gen.tellg + nwrite
          BY <1>2, <2>3, <2>4, <3>1, <4>2
        <4> QED
          BY <1>2, <3>1, <4>1, <4>3 DEF ResFields
      <3>3. CASE ~(nwrite < size)
        <4>1. nwrite = size /\ left = some
          BY <2>3, <2>4, <3>3
        <4> QED
          BY <1>2, <3>1, <4>1
      <3> QED
        BY <3>2, <3>3
    <2>7. /\ received' = received \o SubSeq(gen.bytes, gen.tellg + 1, gen.tellg + nwrite)
          /\ \/ ~some.eof /\ armed' = "out" /\ res' = left /\ UNCHANGED cut
             \/ /\ some.eof
                /\ \/ armed' = "in" /\ res' = Response
                   \/ armed' = "closed" /\ UNCHANGED res
                /\ cut' = (cut \/ nwrite < size)
      BY <2>1 DEF Send, clear
    <2> HIDE DEF some, left, size
    <2>8. /\ received' \in Seq(S)
          /\ received' \o SubSeq(gen.bytes, gen.tellg + nwrite + 1, Len(gen.bytes))
                = received \o SubSeq(gen.bytes, gen.tellg + 1, Len(gen.bytes))
      <3> DEFINE i == gen.tellg
                 t == gen.bytes
      <3>1. i \in Nat /\ i + nwrite <= Len(t) /\ t \in Seq(S)
        BY <1>2, <1>3, <2>4
      <3>2. received' = received \o SubSeq(t, i + 1, i + nwrite)
        BY <2>7
      <3> HIDE DEF i, t
      <3>3. received \in Seq(S) /\ nwrite \in Nat
        BY <1>3, <2>4
      <3>4. /\ received \o SubSeq(t, i + 1, i + nwrite) \in Seq(S)
            /\ (received \o SubSeq(t, i + 1, i + nwrite)) \o SubSeq(t, i + nwrite + 1, Len(t))
                 = received \o SubSeq(t, i + 1, Len(t))
        <4>1. \A r, u \in Seq(S) : \A x, y \in Nat : x + y <= Len(u) =>
                 /\ r \o SubSeq(u, x + 1, x + y) \in Seq(S)
                 /\ (r \o SubSeq(u, x + 1, x + y)) \o SubSeq(u, x + y + 1, Len(u)) = r \o SubSeq(u, x + 1, Len(u))
          BY ONLY MoveOn, Zenon
        <4> QED
          BY ONLY <3>1, <3>3, <4>1, Zenon
      <3>5. /\ received' \in Seq(S)
            /\ received' \o SubSeq(t, i + nwrite + 1, Len(t)) = received \o SubSeq(t, i + 1, Len(t))
        BY <3>2, <3>4, Zenon
      <3> QED
        BY <3>5 DEF i, t
    <2>9. ~cut => /\ received' \o SubSeq(gen.bytes, gen.tellg + nwrite + 1, Len(gen.bytes)) = FlattenSeq(texts')
                  /\ IsPrefix(received', FlattenSeq(texts'))
      <3>1. SubSeq(gen.bytes, gen.tellg + nwrite + 1, Len(gen.bytes)) \in Seq(S)
        BY <1>2, <1>3, <2>4
      <3>2. ~cut => received' \o SubSeq(gen.bytes, gen.tellg + nwrite + 1, Len(gen.bytes)) = FlattenSeq(texts')
        BY <1>3, <2>8
      <3> QED
        BY <2>8, <3>1, <3>2, ConcatPrefix
    <2>10. CASE armed' = "out" /\ res' = left /\ UNCHANGED cut
      <3>1. ResInv'
        <4>1. /\ ResFields \subseteq DOMAIN res' /\ IsFiniteSet(res'.headers) /\ IsSeq(res'.body)
              /\ res'.written = TRUE /\ res'.tellg \in Nat
          <5>1. gen.tellg + nwrite \in Nat
            BY <1>2, <2>4
          <5> QED
            BY <1>2, <2>6, <2>10, <5>1
        <4> QED
          BY <4>1 DEF ResInv
      <3>2. SentInv'
        <4>1. res'.bytes = gen.bytes /\ res'.tellg = gen.tellg + nwrite
          BY <2>6, <2>10
        <4> QED
          BY <1>3, <2>4, <2>8, <2>9, <2>10, <4>1 DEF SentInv
      <3> QED
        BY <3>1, <3>2
    <2>11. CASE armed' = "in" /\ res' = Response /\ some.eof /\ cut' = (cut \/ nwrite < size)
      <3>1. ResInv'
        <4>1. IsFiniteSet({}) /\ IsSeq(<<>>)
          BY FS_EmptySet, IsSeqOne
        <4>2. /\ ResFields \subseteq DOMAIN res' /\ res'.headers = {} /\ res'.body = <<>> /\ res'.written = FALSE
              /\ res'.tellg = 0 /\ res'.bytes = <<>>
          BY <2>11 DEF Response, ResFields
        <4>3. /\ IsFiniteSet(res'.headers) /\ IsSeq(res'.body)
              /\ res'.written \in BOOLEAN
          BY <4>1, <4>2, Zenon
        <4> QED
          BY <4>2, <4>3 DEF ResInv
      <3>2. ~cut' => received' = FlattenSeq(texts')
        <4>1. SUFFICES ASSUME ~cut' PROVE received' = FlattenSeq(texts')
          OBVIOUS
        <4>2. ~cut /\ ~(nwrite < size)
          BY <2>11, <4>1
        <4>3. SS_WRITE_BUFFER_SIZE > rest
          BY <2>5, <2>11
        <4>4. nwrite = size /\ size = rest
          BY <2>2, <2>3, <2>4, <4>2, <4>3
        <4>5. SubSeq(gen.bytes, gen.tellg + nwrite + 1, Len(gen.bytes)) = <<>>
          <5>1. gen.tellg + nwrite = Len(gen.bytes)
            BY <1>2, <2>2, <4>4
          <5> DEFINE m == gen.tellg + nwrite + 1
                     k == Len(gen.bytes)
          <5>2. m \in Int /\ k \in Int /\ k < m
            BY <1>2, <2>2, <2>4, <5>1
          <5> HIDE DEF m, k
          <5>3. SubSeq(gen.bytes, m, k) = <<>>
            BY <5>2, SubSeqEmpty
          <5> QED
            BY <5>3 DEF m, k
        <4>6. received' \o <<>> = received'
          BY <2>8, ConcatEmptySeq
        <4> QED
          BY <2>9, <4>2, <4>5, <4>6
      <3>3. res'.tellg = 0 /\ res'.bytes = <<>> /\ res'.written = FALSE
        BY <2>11 DEF Response
      <3>4. received' \o SubSeq(res'.bytes, res'.tellg + 1, Len(res'.bytes)) = received'
        BY <2>8, <3>3, NothingLeft
      <3>5. res'.bytes \in Seq(S) /\ res'.tellg <= Len(res'.bytes)
        BY <3>3
      <3>6. ~cut' => IsPrefix(received', FlattenSeq(texts'))
        BY <2>8, <3>2, ConcatPrefix
      <3>7. SentInv'
        BY <1>3, <2>8, <2>11, <3>2, <3>3, <3>4, <3>5, <3>6 DEF SentInv
      <3> QED
        BY <3>1, <3>7
    <2>12. CASE armed' = "closed" /\ UNCHANGED res /\ cut' = (cut \/ nwrite < size)
      <3>1. ResInv'
        BY <2>12 DEF ResInv
      <3>2. PICK R : res.bytes \in Seq(R) /\ res.tellg <= Len(res.bytes)
        BY DEF SentInv
      <3> DEFINE Q == S \cup R
      <3>3. Seq(S) \subseteq Seq(Q) /\ res.bytes \in Seq(Q)
        BY <3>2, SeqMonotonic
      <3>4. texts' \in Seq(Seq(Q)) /\ received' \in Seq(Q)
        <4>1. received' \in Seq(Q)
          BY <2>8, <3>3
        <4>2. texts' \in Seq(Seq(Q))
          BY <1>3, <3>3, SeqMonotonic, Zenon
        <4> QED
          BY <4>1, <4>2
      <3> HIDE DEF Q
      <3>5. SentInv'
        BY <2>9, <2>12, <3>2, <3>3, <3>4 DEF SentInv
      <3> QED
        BY <3>1, <3>5
    <2> QED
      BY <2>7, <2>10, <2>11, <2>12
  <1> QED
    BY <1>4, <1>5 DEF on_writeable, gen

LEMMA ResponseInit == Init => ResInv /\ SentInv
  <1> SUFFICES ASSUME Init PROVE ResInv /\ SentInv
    OBVIOUS
  <1>1. /\ res.headers = {} /\ res.body = <<>> /\ res.written = FALSE /\ res.tellg = 0 /\ res.bytes = <<>>
        /\ ResFields \subseteq DOMAIN res
    BY DEF Init, Response, ResFields
  <1>2. ResInv
    <2>1. IsFiniteSet({}) /\ IsSeq(<<>>)
      BY FS_EmptySet, IsSeqOne
    <2>2. IsFiniteSet(res.headers) /\ IsSeq(res.body) /\ res.written \in BOOLEAN
      BY <1>1, <2>1, Zenon
    <2> QED
      BY <1>1, <2>2 DEF ResInv
  <1>3. SentInv
    <2>1. armed = "in" /\ texts = <<>> /\ received = <<>>
      BY DEF Init
    <2>2. <<>> \in Seq(Seq({})) /\ <<>> \in Seq({}) /\ 0 <= Len(<<>>)
      OBVIOUS
    <2>3. received \o SubSeq(res.bytes, res.tellg + 1, Len(res.bytes)) = <<>>
      BY <1>1, <2>1, <2>2, NothingLeft
    <2>4. FlattenSeq(texts) = <<>>
      BY <2>1, FlattenEmpty
    <2>5. IsPrefix(<<>>, <<>>)
      BY <2>2, ConcatPrefix
    <2> QED
      BY <1>1, <2>1, <2>2, <2>3, <2>4, <2>5 DEF SentInv
  <1> QED
    BY <1>2, <1>3

LEMMA ResponseStep == ASSUME ResInv, SentInv, [Next]_vars PROVE ResInv' /\ SentInv'
  <1>0. armed \in {"in", "parse", "out", "closed"}
    BY DEF SentInv
  <1>1. CASE on_readable
    <2>1. armed = "in" /\ armed' \in {"parse", "closed"} /\ UNCHANGED <<res, texts, received, cut>>
      BY <1>1 DEF on_readable, parse_request, connUnchanged
    <2> QED
      BY <2>1, SameResponse
  <1>2. CASE Parses
    <2>1. UNCHANGED <<armed, res, texts, received, cut>>
      BY <1>2 DEF Parses, connUnchanged
    <2> QED
      BY <1>0, <2>1, SameResponse
  <1>3. CASE Parsed
    BY <1>3, ParsedKeeps
  <1>4. CASE on_writeable
    BY <1>4, WriteKeeps
  <1>5. CASE on_close
    <2>1. armed' = "closed" /\ UNCHANGED <<res, texts, received, cut>>
      BY <1>5 DEF on_close
    <2> QED
      BY <2>1, SameResponse
  <1>6. CASE (\E r \in Requests : ClientSends(r)) \/ ClientCloses \/ UNCHANGED vars
    <2>1. UNCHANGED <<armed, res, texts, received, cut>>
      BY <1>6 DEF ClientSends, ClientCloses, vars
    <2> QED
      BY <1>0, <2>1, SameResponse
  <1> QED
    BY <1>1, <1>2, <1>3, <1>4, <1>5, <1>6 DEF Next

\* Whatever parts send takes, the client receives the bytes of the responses
\* in order, none twice and none left out, and all of them before the next
\* request is read, unless the rest of a response was thrown away.
THEOREM ResponsesAreWhole == Spec => []ResponsesWhole
  <1>1. Init => ResInv /\ SentInv
    BY ResponseInit
  <1>2. ResInv /\ SentInv /\ [Next]_vars => ResInv' /\ SentInv'
    BY ResponseStep
  <1>3. ResInv /\ SentInv => ResponsesWhole
    <2> SUFFICES ASSUME ResInv, SentInv, ~cut
                 PROVE  /\ IsPrefix(received, FlattenSeq(texts))
                        /\ armed = "in" => received = FlattenSeq(texts)
      BY DEF ResponsesWhole
    <2>1. PICK S : /\ received \in Seq(S)
                   /\ IsPrefix(received, FlattenSeq(texts))
                   /\ armed # "closed" =>
                         received \o SubSeq(res.bytes, res.tellg + 1, Len(res.bytes)) = FlattenSeq(texts)
      BY DEF SentInv
    <2>2. ASSUME armed = "in" PROVE received = FlattenSeq(texts)
      <3>1. res.tellg = 0 /\ res.bytes = <<>>
        BY <2>2 DEF ResInv, SentInv
      <3> QED
        BY <2>1, <2>2, <3>1, NothingLeft
    <2> QED
      BY <2>1, <2>2
  <1> QED
    BY <1>1, <1>2, <1>3, PTL DEF Spec

(***************************************************************************)
(* The tokens of the client's requests, one behind the other.              *)
(***************************************************************************)
Tokens == UNION {ToSet(r.stream) : r \in Requests}

Streams(k) == [i \in 1..k |-> sent[i].stream]

Total(k) == FlattenSeq(Streams(k))

\* Where the headers of a request end.
IsEnd(r, e) ==
    /\ e \in 1..Len(r.stream)
    /\ \A k \in 1..Len(r.stream) : r.stream[k][1] = "end" <=> k = e
    /\ r.stream[e][2].length \in Nat /\ Len(r.stream) = e + r.stream[e][2].length

EndOf(r) == CHOOSE e : IsEnd(r, e)

LEMMA StreamFacts ==
    ASSUME NEW r \in Requests
    PROVE  /\ r.stream \in Seq(Tokens) /\ Len(r.stream) \in Nat /\ IsEnd(r, EndOf(r))
           /\ \A k \in 1..Len(r.stream) : r.stream[k][1] = "method" <=> k = 1
           /\ EndOf(r) > 1
  <1>1. r.stream \in Seq(ToSet(r.stream))
    BY RequestsAssumption
  <1>2. ToSet(r.stream) \subseteq Tokens
    BY DEF Tokens
  <1>3. r.stream \in Seq(Tokens)
    BY <1>1, <1>2, SeqMonotonic
  <1>4. DOMAIN r.stream = 1..Len(r.stream) /\ Len(r.stream) \in Nat
    BY <1>3
  <1>5. \E e : IsEnd(r, e)
    <2>1. PICK e \in DOMAIN r.stream :
              /\ \A k \in DOMAIN r.stream : r.stream[k][1] = "end" <=> k = e
              /\ r.stream[e][2].length \in Nat /\ Len(r.stream) = e + r.stream[e][2].length
      BY RequestsAssumption
    <2>2. IsEnd(r, e)
      BY <1>4, <2>1 DEF IsEnd
    <2> QED
      BY <2>2
  <1>6. IsEnd(r, EndOf(r))
    BY <1>5 DEF EndOf
  <1>7. \A k \in 1..Len(r.stream) : r.stream[k][1] = "method" <=> k = 1
    BY <1>4, RequestsAssumption
  <1>8. EndOf(r) > 1
    <2>1. EndOf(r) \in 1..Len(r.stream) /\ r.stream[EndOf(r)][1] = "end"
      BY <1>6 DEF IsEnd
    <2>2. EndOf(r) # 1
      BY <1>7, <2>1
    <2> QED
      BY <1>4, <2>1, <2>2
  <1> QED
    BY <1>3, <1>4, <1>6, <1>7, <1>8

\* The requests up to the k-th are those before and the k-th.
LEMMA TotalStep ==
    ASSUME sent \in Seq(Requests), NEW k \in Nat, k <= Len(sent)
    PROVE  /\ Total(k) \in Seq(Tokens) /\ Size(k) = Len(Total(k)) /\ Size(k) \in Nat
           /\ k < Len(sent) => /\ sent[k + 1] \in Requests /\ sent[k + 1].stream \in Seq(Tokens)
                               /\ Total(k + 1) = Total(k) \o sent[k + 1].stream
  <1>1. \A i \in 1..Len(sent) : sent[i] \in Requests /\ sent[i].stream \in Seq(Tokens)
    BY StreamFacts
  <1>2. \A i \in 1..k : sent[i].stream \in Seq(Tokens)
    BY <1>1
  <1>3. Streams(k) \in Seq(Seq(Tokens)) /\ Len(Streams(k)) = k
    BY <1>2 DEF Streams
  <1>4. Total(k) \in Seq(Tokens)
    BY <1>3, EmptySeq, FlattenAppend DEF Total
  <1>5. Size(k) = Len(Total(k))
    BY DEF Size, Total, Streams
  <1>6. ASSUME k < Len(sent)
        PROVE  /\ sent[k + 1] \in Requests /\ sent[k + 1].stream \in Seq(Tokens)
               /\ Total(k + 1) = Total(k) \o sent[k + 1].stream
    <2>1. k + 1 \in 1..Len(sent)
      BY <1>6
    <2>2. sent[k + 1] \in Requests /\ sent[k + 1].stream \in Seq(Tokens)
      BY <1>1, <2>1
    <2> DEFINE x == sent[k + 1].stream
    <2>3. Streams(k + 1) = Append(Streams(k), x)
      BY <1>1, <1>2, <2>1 DEF Streams
    <2> HIDE DEF x
    <2>4. Total(k + 1) = Total(k) \o x
      BY <1>3, <2>2, <2>3, FlattenAppend DEF Total, x
    <2> QED
      BY <2>2, <2>4 DEF x
  <1> QED
    BY <1>4, <1>5, <1>6

\* What was sent first stays in front.
LEMMA TotalPrefix ==
    ASSUME sent \in Seq(Requests), NEW k \in Nat, NEW n \in Nat, k <= n, n <= Len(sent)
    PROVE  Size(k) <= Size(n) /\ \A i \in 1..Size(k) : Total(n)[i] = Total(k)[i]
  <1> DEFINE P(m) == Size(k) <= Size(m) /\ \A i \in 1..Size(k) : Total(m)[i] = Total(k)[i]
             T == {d \in Nat : k + d <= n => P(k + d)}
  <1>1. 0 \in T
    <2>1. k + 0 = k /\ Size(k) \in Nat
      BY TotalStep
    <2>2. P(k + 0)
      BY <2>1
    <2> QED
      BY <2>2
  <1>2. ASSUME NEW d \in T PROVE d + 1 \in T
    <2>1. d \in Nat
      OBVIOUS
    <2>2. SUFFICES ASSUME k + (d + 1) <= n PROVE P(k + (d + 1))
      BY <2>1
    <2> DEFINE m == k + d
    <2>3. m \in Nat /\ m < Len(sent) /\ m <= n /\ k + (d + 1) = m + 1
      BY <2>1, <2>2
    <2>4. P(m)
      BY <1>2, <2>3
    <2> HIDE DEF m
    <2>5. /\ Total(m) \in Seq(Tokens) /\ Size(m) = Len(Total(m)) /\ sent[m + 1].stream \in Seq(Tokens)
          /\ Total(m + 1) = Total(m) \o sent[m + 1].stream
      BY <2>3, TotalStep, SMTT(30)
    <2>6. Size(m + 1) = Len(Total(m + 1)) /\ Size(k) \in Nat
      BY <2>3, TotalStep
    <2> DEFINE s == Total(m)
               t == sent[m + 1].stream
    <2> HIDE DEF s, t
    <2>7. Len(s \o t) = Len(s) + Len(t) /\ Len(s) \in Nat /\ Len(t) \in Nat
          /\ \A i \in 1..Len(s) : (s \o t)[i] = s[i]
      BY <2>5 DEF s, t
    <2>8. P(m + 1)
      BY <2>4, <2>5, <2>6, <2>7, SMTT(30) DEF s, t
    <2> QED
      BY <2>3, <2>8
  <1>3. T \subseteq Nat
    OBVIOUS
  <1>4. T = Nat
    <2> HIDE DEF T
    <2> QED
      BY <1>1, <1>2, <1>3, SetInduction
  <1>5. n - k \in T /\ k + (n - k) = n
    <2>1. n - k \in Nat
      OBVIOUS
    <2> HIDE DEF T
    <2> QED
      BY <1>4, <2>1
  <1>6. P(k + (n - k))
    BY <1>5
  <1> QED
    BY <1>5, <1>6

\* The tokens of a request, where they come in all that was sent.
LEMMA TokenAt ==
    ASSUME sent \in Seq(Requests), NEW j \in Nat, j < Len(sent)
    PROVE  /\ Size(j + 1) = Size(j) + Len(sent[j + 1].stream)
           /\ \A p \in 1..Len(sent[j + 1].stream) :
                 Total(Len(sent))[Size(j) + p] = sent[j + 1].stream[p]
  <1> DEFINE s == Total(j)
             t == sent[j + 1].stream
  <1>1. /\ s \in Seq(Tokens) /\ Size(j) = Len(s) /\ t \in Seq(Tokens)
        /\ Total(j + 1) = s \o t
    BY TotalStep
  <1>2. Size(j + 1) = Len(Total(j + 1)) /\ j + 1 \in Nat /\ j + 1 <= Len(sent) /\ Len(sent) \in Nat
    BY TotalStep
  <1>3. \A i \in 1..Size(j + 1) : Total(Len(sent))[i] = Total(j + 1)[i]
    BY <1>2, TotalPrefix
  <1> HIDE DEF s, t
  <1>4. Len(s \o t) = Len(s) + Len(t) /\ Len(s) \in Nat /\ Len(t) \in Nat
        /\ \A p \in 1..Len(t) : (s \o t)[Len(s) + p] = t[p]
    BY <1>1
  <1>5. ASSUME NEW p \in 1..Len(t) PROVE Total(Len(sent))[Size(j) + p] = t[p]
    <2>1. Size(j) + p \in 1..Size(j + 1)
      BY <1>1, <1>2, <1>4
    <2> QED
      BY <1>1, <1>3, <1>4, <2>1
  <1> QED
    BY <1>1, <1>2, <1>4, <1>5 DEF t

\* One request more goes behind the others.
LEMMA TotalAppend ==
    ASSUME sent \in Seq(Requests), NEW r \in Requests, sent' = Append(sent, r), NEW n, n = Len(sent)
    PROVE  /\ sent' \in Seq(Requests) /\ Len(sent') = n + 1 /\ n \in Nat
           /\ sent'[n + 1] = r /\ \A k \in 1..n : sent'[k] = sent[k]
           /\ \A k \in 0..n : Size(k)' = Size(k)
           /\ Total(n + 1)' = Total(n) \o r.stream
  <1>1. /\ sent' \in Seq(Requests) /\ Len(sent') = n + 1 /\ n \in Nat
        /\ sent'[n + 1] = r /\ \A k \in 1..n : sent'[k] = sent[k]
    OBVIOUS
  <1>2. ASSUME NEW k \in 0..n PROVE Streams(k)' = Streams(k)
    <2>1. \A i \in 1..k : sent'[i] = sent[i]
      BY <1>1
    <2> QED
      BY <2>1 DEF Streams
  <1>3. ASSUME NEW k \in 0..n PROVE Size(k)' = Size(k)
    BY <1>2 DEF Size, Streams
  <1>4. \A i \in 1..n : sent[i].stream \in Seq(Tokens)
    BY StreamFacts
  <1>5. r.stream \in Seq(Tokens)
    BY StreamFacts
  <1>6. Streams(n) \in Seq(Seq(Tokens)) /\ Len(Streams(n)) = n
    BY <1>1, <1>4 DEF Streams
  <1>7. Streams(n + 1)' = Append(Streams(n), r.stream)
    <2>1. Streams(n + 1)' = [i \in 1..(n + 1) |-> sent'[i].stream]
      BY DEF Streams
    <2>2. Append(Streams(n), r.stream) = [i \in 1..(n + 1) |-> IF i = n + 1 THEN r.stream ELSE Streams(n)[i]]
      BY <1>1, <1>5, <1>6
    <2>3. ASSUME NEW i \in 1..(n + 1)
          PROVE  sent'[i].stream = IF i = n + 1 THEN r.stream ELSE Streams(n)[i]
      BY <1>1 DEF Streams
    <2> QED
      BY <2>1, <2>2, <2>3, Zenon
  <1>8. Total(n + 1)' = Total(n) \o r.stream
    BY <1>5, <1>6, <1>7, FlattenAppend DEF Total
  <1> QED
    BY <1>1, <1>3, <1>8

(***************************************************************************)
(* What the callbacks of the parsers do to the request and to the place in *)
(* the bytes.                                                              *)
(***************************************************************************)
ReqFields == {"_parse_part", "_total_req_size", "_last_was_value", "_parse_err", "_header_fields", "_header_values"}

ParserFields == {"last", "left", "errno"}

ParseErrs == {"none", "PARSE_LEN_REQUIRED", "PARSE_MULTIPART_ERR"}

\* Each header name but the last, for which it may yet come, has a value.
HeadersPaired(r) ==
    /\ IsSeq(r._header_fields) /\ IsSeq(r._header_values) /\ r._last_was_value \in BOOLEAN
    /\ Len(r._header_fields) \in Nat /\ Len(r._header_values) \in Nat
    /\ r._last_was_value => Len(r._header_values) = Len(r._header_fields)
    /\ ~r._last_was_value => Len(r._header_fields) = Len(r._header_values) + 1

ReqInv ==
    /\ ReqFields \subseteq DOMAIN req /\ ParserFields \subseteq DOMAIN parser
    /\ HeadersPaired(req)
    /\ req._parse_err \in ParseErrs
    /\ req._total_req_size \in Nat
    /\ armed # "closed" => req._total_req_size <= MAX_REQ_SIZE

\* No token is taken.
Still ==
    /\ chunk' = chunk /\ parser'.last = parser.last /\ parser'.left = parser.left
    /\ ppc' = ppc \/ {ppc, ppc'} \subseteq {"message", "multipart"}
    /\ req'._parse_part \in {req._parse_part, "PARSE_REQ_HEAD_OVER"}

\* The next token, of a kind that may follow, is taken.
Takes1(kinds) ==
    /\ Parsing /\ Head(chunk)[1] \in kinds /\ Head(chunk)[1] \in Follows[parser.last]
    /\ chunk' = Tail(chunk) /\ parser'.last = Head(chunk)[1]

Words == {"method", "url", "version", "field", "value"}

Word == Takes1(Words) /\ ppc' = ppc /\ req'._parse_part \in {req._parse_part, "PARSE_REQ_HEAD"}

HeadersEnd ==
    /\ Takes1({"end"}) /\ parser'.left = piece.length /\ ppc' = IF piece.length = 0 THEN "message" ELSE ppc
    /\ req'._parse_part = "PARSE_REQ_HEAD_OVER"

BodyPart ==
    /\ Takes1({"body"}) /\ parser'.left = parser.left - 1 /\ ppc' = IF parser.left = 1 THEN "message" ELSE ppc
    /\ req'._parse_part = "PARSE_REQ_BODY"

Over ==
    /\ ppc \in {"message", "multipart"} /\ ppc' = "callbacks"
    /\ chunk' = chunk /\ parser'.last \in {"message", "dead"}
    /\ req'._parse_part = "PARSE_REQ_OVER"

ParseStep == Still \/ Word \/ HeadersEnd \/ BodyPart \/ Over

\* The members of the request that ReqInv speaks of, as they become.
SameReq(r) ==
    /\ DOMAIN r = DOMAIN req
    /\ r._header_fields = req._header_fields /\ r._header_values = req._header_values
    /\ r._last_was_value = req._last_was_value /\ r._total_req_size = req._total_req_size
    /\ r._parse_err \in {req._parse_err} \cup ParseErrs

\* What a callback does: a step of the parse that leaves a good request.
Callback == ReqFields \subseteq DOMAIN req' /\ ParserFields \subseteq DOMAIN parser' /\ ParseStep
            /\ HeadersPaired(req') /\ req'._parse_err \in ParseErrs /\ req'._total_req_size = req._total_req_size

LEMMA CallbackOf ==
    ASSUME ReqInv, SameReq(req'), ParserFields \subseteq DOMAIN parser', ParseStep
    PROVE  Callback
  <1>1. ReqFields \subseteq DOMAIN req' /\ req'._parse_err \in ParseErrs
    BY DEF ReqInv, SameReq
  <1>2. HeadersPaired(req')
    BY DEF ReqInv, SameReq, HeadersPaired
  <1>3. req'._total_req_size = req._total_req_size
    BY DEF SameReq
  <1> QED
    BY <1>1, <1>2, <1>3 DEF Callback

LEMMA MethodOrVersionStep == ASSUME ReqInv, MethodOrVersion PROVE Callback
  <1>1. SameReq(req')
    BY DEF MethodOrVersion, SameReq
  <1>2. /\ Parsing /\ Head(chunk)[1] \in Follows[parser.last] /\ Head(chunk)[1] \in Words
        /\ chunk' = Tail(chunk)
    BY DEF MethodOrVersion, Sees, Takes, Words
  <1>3. ParserFields \subseteq DOMAIN parser' /\ parser'.last = Head(chunk)[1]
    BY DEF MethodOrVersion, Takes, ReqInv, ParserFields
  <1>4. ppc' = ppc /\ req' = req
    BY DEF MethodOrVersion
  <1>5. Word
    BY <1>2, <1>3, <1>4 DEF Word, Takes1
  <1> QED
    BY <1>1, <1>3, <1>5, CallbackOf DEF ParseStep

LEMMA SyntaxErrorStep == ASSUME ReqInv, SyntaxError PROVE Callback
  <1>1. SameReq(req')
    BY DEF SyntaxError, SameReq
  <1>2. ParserFields \subseteq DOMAIN parser' /\ parser'.last = parser.last /\ parser'.left = parser.left
    BY DEF SyntaxError, ReqInv, ParserFields
  <1>3. Still
    BY <1>2 DEF SyntaxError, Still
  <1> QED
    BY <1>1, <1>2, <1>3, CallbackOf DEF ParseStep

LEMMA UrlStep == ASSUME ReqInv, ss_on_url PROVE Callback
  <1>1. SameReq(req') /\ req'._parse_part = req._parse_part
    BY DEF ss_on_url, SameReq, ReqInv, ReqFields
  <1>2. /\ Parsing /\ Head(chunk)[1] \in Follows[parser.last] /\ Head(chunk)[1] \in Words
        /\ chunk' = Tail(chunk) /\ ppc' = ppc
    BY DEF ss_on_url, Sees, Takes, Words
  <1>3. ParserFields \subseteq DOMAIN parser' /\ parser'.last = Head(chunk)[1]
    BY DEF ss_on_url, Takes, ReqInv, ParserFields
  <1>4. Word
    BY <1>1, <1>2, <1>3 DEF Word, Takes1
  <1> QED
    BY <1>1, <1>3, <1>4, CallbackOf DEF ParseStep

LEMMA AppendIsSeq ==
    ASSUME NEW s, IsSeq(s), NEW x
    PROVE  IsSeq(Append(s, x)) /\ Len(Append(s, x)) = Len(s) + 1 /\ Len(s) \in Nat
  <1>1. PICK S : s \in Seq(S)
    BY DEF IsSeq
  <1>2. s \in Seq(S \cup {x}) /\ x \in S \cup {x}
    BY <1>1, SeqMonotonic
  <1>3. Append(s, x) \in Seq(S \cup {x}) /\ Len(Append(s, x)) = Len(s) + 1 /\ Len(s) \in Nat
    BY <1>2
  <1> QED
    BY <1>3 DEF IsSeq

LEMMA ExceptIsSeq ==
    ASSUME NEW s, IsSeq(s), NEW k, NEW x
    PROVE  IsSeq([s EXCEPT ![k] = x]) /\ Len([s EXCEPT ![k] = x]) = Len(s)
  <1>1. PICK S : s \in Seq(S)
    BY DEF IsSeq
  <1> DEFINE T == S \cup {x}
             t == [s EXCEPT ![k] = x]
  <1>2. s \in [1..Len(s) -> T] /\ Len(s) \in Nat /\ x \in T
    BY <1>1
  <1> HIDE DEF T
  <1>3. t \in [1..Len(s) -> T]
    BY <1>2
  <1> HIDE DEF t
  <1>4. t \in Seq(T) /\ Len(t) = Len(s)
    BY <1>2, <1>3
  <1>5. IsSeq(t)
    BY <1>4 DEF IsSeq
  <1> QED
    BY <1>4, <1>5 DEF t

LEMMA FieldStep == ASSUME ReqInv, ss_on_header_field PROVE Callback
  <1> DEFINE r == RequestLine
             fields == IF req._last_was_value THEN Append(r._header_fields, <<piece>>)
                       ELSE AddToLast(r._header_fields, piece)
  <1>0. Len(req._header_fields) \in Nat /\ Len(req._header_values) \in Nat
    BY DEF ReqInv, HeadersPaired
  <1>1. SameReq(r) /\ r._parse_part \in {req._parse_part, "PARSE_REQ_HEAD"}
        /\ r._parse_err = req._parse_err
    BY DEF RequestLine, SameReq, ReqInv, ReqFields
  <1>2. req' = [r EXCEPT !._header_fields = fields, !._last_was_value = FALSE]
    BY DEF ss_on_header_field
  <1>3. /\ IsSeq(fields) /\ Len(fields) \in Nat
        /\ Len(fields) = Len(req._header_values) + 1
    <2>1. IsSeq(r._header_fields) /\ r._header_fields = req._header_fields
      BY <1>1 DEF ReqInv, HeadersPaired, SameReq
    <2>2. CASE req._last_was_value
      <3>1. fields = Append(r._header_fields, <<piece>>)
        BY <2>2
      <3>2. Len(req._header_fields) = Len(req._header_values)
        BY <2>2 DEF ReqInv, HeadersPaired
      <3> DEFINE x == <<piece>>
      <3> HIDE DEF fields, r, x
      <3>3. IsSeq(Append(r._header_fields, x)) /\ Len(Append(r._header_fields, x)) = Len(r._header_fields) + 1
        BY <2>1, AppendIsSeq
      <3>4. fields = Append(r._header_fields, x)
        BY <3>1 DEF x
      <3> QED
        BY <1>0, <2>1, <3>2, <3>3, <3>4
    <2>3. CASE ~req._last_was_value
      <3> DEFINE x == Append(r._header_fields[Len(r._header_fields)], piece)
      <3>1. fields = [r._header_fields EXCEPT ![Len(r._header_fields)] = x]
        BY <2>3 DEF AddToLast
      <3>2. Len(req._header_fields) = Len(req._header_values) + 1
        BY <2>3 DEF ReqInv, HeadersPaired
      <3> HIDE DEF fields, r, x
      <3>3. IsSeq(fields) /\ Len(fields) = Len(r._header_fields)
        BY <2>1, <3>1, ExceptIsSeq
      <3> QED
        BY <1>0, <2>1, <3>2, <3>3
    <2> QED
      BY <2>2, <2>3
  <1> HIDE DEF fields, r
  <1>4. /\ DOMAIN req' = DOMAIN req /\ req'._header_fields = fields /\ req'._header_values = req._header_values
        /\ req'._last_was_value = FALSE /\ req'._total_req_size = req._total_req_size
        /\ req'._parse_err = req._parse_err
    BY <1>1, <1>2 DEF SameReq, ReqInv, ReqFields
  <1>5. req'._parse_part \in {req._parse_part, "PARSE_REQ_HEAD"}
    BY <1>1, <1>2
  <1>6. HeadersPaired(req')
    <2>1. IsSeq(req'._header_fields) /\ IsSeq(req'._header_values)
      BY <1>3, <1>4, Zenon DEF ReqInv, HeadersPaired
    <2>2. req'._last_was_value \in BOOLEAN /\ ~req'._last_was_value
      BY <1>4
    <2>3. /\ Len(req'._header_fields) = Len(req'._header_values) + 1
          /\ Len(req'._header_fields) \in Nat /\ Len(req'._header_values) \in Nat
      BY <1>3, <1>4 DEF ReqInv, HeadersPaired
    <2> QED
      BY <2>1, <2>2, <2>3 DEF HeadersPaired
  <1>7. /\ Parsing /\ Head(chunk)[1] \in Follows[parser.last] /\ Head(chunk)[1] \in Words
        /\ chunk' = Tail(chunk) /\ ppc' = ppc
    BY DEF ss_on_header_field, Sees, Takes, Words
  <1>8. ParserFields \subseteq DOMAIN parser' /\ parser'.last = Head(chunk)[1]
    BY DEF ss_on_header_field, Takes, ReqInv, ParserFields
  <1>9. Word
    BY <1>5, <1>7, <1>8 DEF Word, Takes1
  <1> QED
    BY <1>4, <1>6, <1>8, <1>9 DEF Callback, ParseStep, ReqInv

LEMMA ValueStep == ASSUME ReqInv, ss_on_header_value PROVE Callback
  <1> DEFINE old == req._header_values
             values == IF ~req._last_was_value THEN Append(old, <<piece>>)
                       ELSE AddToLast(old, piece)
  <1>1. req' = [req EXCEPT !._header_values = values, !._last_was_value = TRUE]
    BY DEF ss_on_header_value
  <1>2. /\ IsSeq(values) /\ Len(values) \in Nat
        /\ Len(values) = Len(req._header_fields)
    <2>1. IsSeq(old)
      BY DEF ReqInv, HeadersPaired
    <2>2. CASE ~req._last_was_value
      <3>1. values = Append(old, <<piece>>)
        BY <2>2
      <3>2. Len(req._header_fields) = Len(old) + 1
        BY <2>2 DEF ReqInv, HeadersPaired
      <3> HIDE DEF values, old
      <3> QED
        BY <2>1, <3>1, <3>2, AppendIsSeq DEF ReqInv, HeadersPaired
    <2>3. CASE req._last_was_value
      <3> DEFINE x == Append(old[Len(old)], piece)
      <3>1. values = [old EXCEPT ![Len(old)] = x]
        BY <2>3 DEF AddToLast
      <3>2. Len(req._header_fields) = Len(old) /\ Len(old) \in Nat
        BY <2>3 DEF ReqInv, HeadersPaired
      <3> HIDE DEF values, old, x
      <3> QED
        BY <2>1, <3>1, <3>2, ExceptIsSeq
    <2> QED
      BY <2>2, <2>3
  <1> HIDE DEF values
  <1>3. /\ DOMAIN req' = DOMAIN req /\ req'._header_values = values /\ req'._header_fields = req._header_fields
        /\ req'._last_was_value = TRUE /\ req'._total_req_size = req._total_req_size
        /\ req'._parse_err = req._parse_err /\ req'._parse_part = req._parse_part
    BY <1>1 DEF ReqInv, ReqFields
  <1>4. HeadersPaired(req')
    <2>1. IsSeq(req'._header_fields) /\ IsSeq(req'._header_values)
      BY <1>2, <1>3, Zenon DEF ReqInv, HeadersPaired
    <2>2. req'._last_was_value \in BOOLEAN /\ req'._last_was_value
      BY <1>3
    <2>3. /\ Len(req'._header_values) = Len(req'._header_fields)
          /\ Len(req'._header_fields) \in Nat /\ Len(req'._header_values) \in Nat
      BY <1>2, <1>3
    <2> QED
      BY <2>1, <2>2, <2>3 DEF HeadersPaired
  <1>5. /\ Parsing /\ Head(chunk)[1] \in Follows[parser.last] /\ Head(chunk)[1] \in Words
        /\ chunk' = Tail(chunk) /\ ppc' = ppc
    BY DEF ss_on_header_value, Sees, Takes, Words
  <1>6. ParserFields \subseteq DOMAIN parser' /\ parser'.last = Head(chunk)[1]
    BY DEF ss_on_header_value, Takes, ReqInv, ParserFields
  <1>7. Word
    BY <1>3, <1>5, <1>6 DEF Word, Takes1
  <1> QED
    BY <1>3, <1>4, <1>6, <1>7 DEF Callback, ParseStep, ReqInv

LEMMA HeadersCompleteStep == ASSUME ReqInv, ss_on_headers_complete PROVE Callback
  <1>1. Sees("end")
    BY DEF ss_on_headers_complete
  <1>2. CASE Len(req._header_fields) # Len(req._header_values)
    <2>1. parser' = [parser EXCEPT !.errno = TRUE] /\ UNCHANGED <<req, chunk, ppc>>
      BY <1>2 DEF ss_on_headers_complete
    <2>2. ParserFields \subseteq DOMAIN parser' /\ parser'.last = parser.last /\ parser'.left = parser.left
      BY <2>1 DEF ReqInv, ParserFields
    <2>3. Still /\ SameReq(req')
      BY <2>1, <2>2 DEF Still, SameReq
    <2> QED
      BY <2>2, <2>3, CallbackOf DEF ParseStep
  <1>3. CASE Len(req._header_fields) = Len(req._header_values)
    <2> DEFINE err == IF LengthRequired THEN "PARSE_LEN_REQUIRED" ELSE req._parse_err
    <2>1. req' = [req EXCEPT !._headers = Headers, !._parse_part = "PARSE_REQ_HEAD_OVER", !._parse_err = err]
      BY <1>3 DEF ss_on_headers_complete
    <2>2. err \in {req._parse_err} \cup ParseErrs
      BY DEF ParseErrs
    <2> HIDE DEF err
    <2>3. SameReq(req') /\ req'._parse_part = "PARSE_REQ_HEAD_OVER"
      BY <2>1, <2>2 DEF SameReq, ReqInv, ReqFields
    <2>4. CASE LengthRequired
      <3>1. parser' = [parser EXCEPT !.errno = TRUE] /\ UNCHANGED <<chunk, ppc>>
        BY <1>3, <2>4 DEF ss_on_headers_complete
      <3>2. ParserFields \subseteq DOMAIN parser' /\ parser'.last = parser.last /\ parser'.left = parser.left
        BY <3>1 DEF ReqInv, ParserFields
      <3>3. Still
        BY <2>3, <3>1, <3>2 DEF Still
      <3> QED
        BY <2>3, <3>2, <3>3, CallbackOf DEF ParseStep
    <2>5. CASE ~LengthRequired
      <3>1. /\ Takes([parser EXCEPT !.left = piece.length, !.keep = piece.keep])
            /\ ppc' = IF piece.length = 0 THEN "message" ELSE ppc
        BY <1>3, <2>5 DEF ss_on_headers_complete
      <3>2. ParserFields \subseteq DOMAIN parser' /\ parser'.last = Head(chunk)[1] /\ parser'.left = piece.length
        BY <3>1 DEF Takes, ReqInv, ParserFields
      <3>3. HeadersEnd
        BY <1>1, <2>3, <3>1, <3>2 DEF HeadersEnd, Takes1, Takes, Sees
      <3> QED
        BY <2>3, <3>2, <3>3, CallbackOf DEF ParseStep
    <2> QED
      BY <2>4, <2>5
  <1> QED
    BY <1>2, <1>3

LEMMA BodyStep == ASSUME ReqInv, ss_on_body PROVE Callback
  <1>1. SameReq(req') /\ req'._parse_part = "PARSE_REQ_BODY"
    BY DEF ss_on_body, SameReq, ReqInv, ReqFields
  <1>2. ParserFields \subseteq DOMAIN parser' /\ parser'.last = Head(chunk)[1] /\ parser'.left = parser.left - 1
    BY DEF ss_on_body, Takes, ReqInv, ParserFields
  <1>3. BodyPart
    BY <1>1, <1>2 DEF ss_on_body, BodyPart, Takes1, Takes, Sees
  <1> QED
    BY <1>1, <1>2, <1>3, CallbackOf DEF ParseStep

\* The end of a message, whatever it does to the parameters.
LEMMA OverStep ==
    ASSUME ReqInv, NEW r, SameReq(r), NEW ret, MessageOver(r, ret), chunk' = chunk, ppc \in {"message", "multipart"}
    PROVE  Callback
  <1> DEFINE err == IF ret = 0 THEN r._parse_err ELSE "PARSE_MULTIPART_ERR"
             last == IF parser.keep THEN "message" ELSE "dead"
             errno == ret # 0
  <1>1. req' = [r EXCEPT !._parse_part = "PARSE_REQ_OVER", !._parse_err = err]
    BY DEF MessageOver
  <1>2. parser' = [parser EXCEPT !.last = last, !.errno = errno]
    BY DEF MessageOver
  <1>3. err \in {req._parse_err} \cup ParseErrs
    BY DEF ParseErrs, SameReq
  <1>4. last \in {"message", "dead"}
    OBVIOUS
  <1> HIDE DEF err, last, errno
  <1>5. SameReq(req') /\ req'._parse_part = "PARSE_REQ_OVER"
    BY <1>1, <1>3 DEF SameReq, ReqInv, ReqFields
  <1>6. ParserFields \subseteq DOMAIN parser' /\ parser'.last = last
    BY <1>2 DEF ReqInv, ParserFields
  <1>7. Over
    BY <1>4, <1>5, <1>6 DEF Over, MessageOver
  <1> QED
    BY <1>5, <1>6, <1>7, CallbackOf DEF ParseStep

\* A callback that leaves the parsers where they are.
LEMMA StillStep ==
    ASSUME ReqInv, SameReq(req'), req'._parse_part = req._parse_part, UNCHANGED <<parser, chunk, ppc>>
    PROVE  Callback
  <1>1. ParserFields \subseteq DOMAIN parser'
    BY DEF ReqInv
  <1>2. Still
    BY DEF Still
  <1> QED
    BY <1>1, <1>2, CallbackOf DEF ParseStep

LEMMA MessageCompleteStep == ASSUME ReqInv, ss_on_message_complete PROVE Callback
  <1>1. ppc \in {"message", "multipart"} /\ chunk' = chunk
    BY DEF ss_on_message_complete
  <1>2. SameReq(req)
    BY DEF SameReq
  <1>3. CASE "multipart/form-data" \in ToSet(ContentType)
    <2>1. ss_parse_multipart_data
      BY <1>3 DEF ss_on_message_complete
    <2>2. CASE MessageOver(req, -1)
      BY <1>1, <1>2, <2>2, OverStep
    <2>3. CASE MessageOver(req, 0)
      BY <1>1, <1>2, <2>3, OverStep
    <2>4. CASE ppc' = "multipart" /\ UNCHANGED <<req, parser>>
      <3>1. ParserFields \subseteq DOMAIN parser'
        BY <2>4 DEF ReqInv
      <3>2. Still /\ SameReq(req')
        BY <1>1, <2>4 DEF Still, SameReq
      <3> QED
        BY <3>1, <3>2, CallbackOf DEF ParseStep
    <2> QED
      BY <2>1, <2>2, <2>3, <2>4 DEF ss_parse_multipart_data
  <1>4. CASE "multipart/form-data" \notin ToSet(ContentType)
    <2> DEFINE form == [req EXCEPT !._req_params = @ \o parse_query_url(req._raw_string)]
    <2>1. MessageOver(form, 0) \/ MessageOver(req, 0)
      BY <1>4 DEF ss_on_message_complete
    <2>2. SameReq(form)
      BY DEF SameReq
    <2> HIDE DEF form
    <2> QED
      BY <1>1, <1>2, <2>1, <2>2, OverStep
  <1> QED
    BY <1>3, <1>4

\* A failing callback of multipart_parser ends the message.
LEMMA PartFailsStep == ASSUME ReqInv, PartFails, chunk' = chunk, ppc = "multipart" PROVE Callback
  <1>1. SameReq(req)
    BY DEF SameReq
  <1> QED
    BY <1>1, OverStep DEF PartFails

LEMMA MultipartNameStep == ASSUME ReqInv, ss_on_multipart_name PROVE Callback
  <1>1. ppc = "multipart" /\ chunk' = chunk
    BY DEF ss_on_multipart_name, InPart
  <1>2. CASE part = "Content-Disposition"
    <2>1. req' = [req EXCEPT !._file_items = Append(@, FileItem)] /\ UNCHANGED <<parser, ppc>>
      BY <1>2 DEF ss_on_multipart_name
    <2>2. SameReq(req') /\ req'._parse_part = req._parse_part
      BY <2>1 DEF SameReq
    <2> QED
      BY <1>1, <2>1, <2>2, StillStep
  <1>3. CASE part = "Content-Type"
    <2>1. CASE PartFails
      BY <1>1, <2>1, PartFailsStep
    <2>2. CASE Item(LAMBDA i : [i EXCEPT !.parse_state = TRUE])
      <3>1. SameReq(req') /\ req'._parse_part = req._parse_part /\ UNCHANGED <<parser, ppc>>
        BY <2>2 DEF Item, SameReq
      <3> QED
        BY <1>1, <3>1, StillStep
    <2> QED
      BY <1>3, <2>1, <2>2 DEF ss_on_multipart_name
  <1>4. CASE part \notin {"Content-Disposition", "Content-Type"}
    <2>1. UNCHANGED <<req, parser, ppc>>
      BY <1>4 DEF ss_on_multipart_name
    <2>2. SameReq(req')
      BY <2>1 DEF SameReq
    <2> QED
      BY <1>1, <2>1, <2>2, StillStep
  <1> QED
    BY <1>2, <1>3, <1>4

LEMMA MultipartValueStep == ASSUME ReqInv, ss_on_multipart_value PROVE Callback
  <1>1. ppc = "multipart" /\ chunk' = chunk
    BY DEF ss_on_multipart_value, InPart
  <1>2. CASE PartFails
    BY <1>1, <1>2, PartFailsStep
  <1>3. CASE Item(LAMBDA i : [i EXCEPT !.content_type = part])
    <2>1. SameReq(req') /\ req'._parse_part = req._parse_part /\ UNCHANGED <<parser, ppc>>
      BY <1>3 DEF Item, SameReq
    <2> QED
      BY <1>1, <2>1, StillStep
  <1>4. CASE ss_parse_multi_disposition(ss_split_str(part, ";")) /\ ~PartFails
    <2>1. \E i : req' = [req EXCEPT !._file_items[Len(file_items)] = i] /\ UNCHANGED <<parser, ppc>>
      BY <1>4, Zenon DEF ss_parse_multi_disposition, Item
    <2>2. SameReq(req') /\ req'._parse_part = req._parse_part
      BY <2>1 DEF SameReq
    <2> QED
      BY <1>1, <2>1, <2>2, StillStep
  <1> QED
    BY <1>2, <1>3, <1>4 DEF ss_on_multipart_value

LEMMA MultipartDataStep == ASSUME ReqInv, ss_on_multipart_data \/ ss_on_multipart_data_over PROVE Callback
  <1>1. ppc = "multipart" /\ chunk' = chunk
    BY DEF ss_on_multipart_data, ss_on_multipart_data_over, InPart
  <1>2. CASE PartFails
    BY <1>1, <1>2, PartFailsStep
  <1>3. CASE Item(LAMBDA i : [i EXCEPT !.data = @ \o part]) \/ Item(LAMBDA i : [i EXCEPT !.parse_state = TRUE])
    <2>1. \E i : req' = [req EXCEPT !._file_items[Len(file_items)] = i] /\ UNCHANGED <<parser, ppc>>
      BY <1>3, Zenon DEF Item
    <2>2. SameReq(req') /\ req'._parse_part = req._parse_part
      BY <2>1 DEF SameReq
    <2> QED
      BY <1>1, <2>1, <2>2, StillStep
  <1> QED
    BY <1>2, <1>3 DEF ss_on_multipart_data, ss_on_multipart_data_over

LEMMA MultipartEndStep == ASSUME ReqInv, ss_on_multipart_body_end \/ MultipartEnds PROVE Callback
  <1>1. ppc = "multipart" /\ chunk' = chunk
    BY DEF ss_on_multipart_body_end, MultipartEnds, InPart
  <1> DEFINE form == [req EXCEPT !._req_params = @ \o parse_multi_params]
  <1>2. SameReq(form) /\ SameReq(req)
    BY DEF SameReq
  <1>3. MessageOver(form, 0) \/ MessageOver(req, 0)
    BY DEF ss_on_multipart_body_end, MultipartEnds
  <1> HIDE DEF form
  <1> QED
    BY <1>1, <1>2, <1>3, OverStep

LEMMA MultipartErrorStep == ASSUME ReqInv, MultipartError PROVE Callback
  BY PartFailsStep DEF MultipartError

LEMMA CallbackStep == ASSUME ReqInv, http_parser_execute PROVE Callback
  BY MethodOrVersionStep, SyntaxErrorStep, UrlStep, FieldStep, ValueStep, HeadersCompleteStep, BodyStep,
     MessageCompleteStep, MultipartNameStep, MultipartValueStep, MultipartDataStep, MultipartEndStep,
     MultipartErrorStep
     DEF http_parser_execute

LEMMA ReqInit == Init => ReqInv
  <1> SUFFICES ASSUME Init PROVE ReqInv
    OBVIOUS
  <1>1. IsSeq(<<>>) /\ Len(<<>>) = 0
    BY IsSeqOne
  <1>2. /\ ReqFields \subseteq DOMAIN req /\ ParserFields \subseteq DOMAIN parser
        /\ req._header_fields = <<>> /\ req._header_values = <<>> /\ req._last_was_value = TRUE
        /\ req._parse_err = "none" /\ req._total_req_size = 0
    BY DEF Init, Request, http_parser, ReqFields, ParserFields
  <1>3. HeadersPaired(req)
    <2>1. IsSeq(req._header_fields) /\ IsSeq(req._header_values) /\ req._last_was_value \in BOOLEAN
      BY <1>1, <1>2, Zenon
    <2> QED
      BY <1>1, <1>2, <2>1 DEF HeadersPaired
  <1> QED
    BY <1>2, <1>3, RequestAssumption DEF ReqInv, ParseErrs

\* A cleared request is one that never was read.
LEMMA ClearStep == ASSUME clear PROVE ReqInv'
  <1>1. IsSeq(<<>>) /\ Len(<<>>) = 0
    BY IsSeqOne
  <1>2. /\ ReqFields \subseteq DOMAIN req' /\ ParserFields \subseteq DOMAIN parser'
        /\ req'._header_fields = <<>> /\ req'._header_values = <<>> /\ req'._last_was_value = TRUE
        /\ req'._parse_err = "none" /\ req'._total_req_size = 0
    BY DEF clear, Request, http_parser, ReqFields, ParserFields
  <1>3. HeadersPaired(req')
    <2>1. IsSeq(req'._header_fields) /\ IsSeq(req'._header_values) /\ req'._last_was_value \in BOOLEAN
      BY <1>1, <1>2, Zenon
    <2> QED
      BY <1>1, <1>2, <2>1 DEF HeadersPaired
  <1> QED
    BY <1>2, <1>3, RequestAssumption DEF ReqInv, ParseErrs

LEMMA SameReqStep == ASSUME ReqInv, UNCHANGED <<req, parser>>, armed' # "closed" => armed # "closed" PROVE ReqInv'
  BY DEF ReqInv

LEMMA ReqStep == ASSUME ReqInv, SentInv, [Next]_vars PROVE ReqInv'
  <1>0. armed \in {"in", "parse", "out", "closed"}
    BY DEF SentInv
  <1>1. CASE on_readable
    <2>1. CASE armed' = "closed" /\ UNCHANGED <<req, parser>>
      BY <2>1, SameReqStep
    <2>2. CASE \E n \in 1..Min({SS_READ_BUFFER_SIZE, Len(wire)}) : parse_request(n)
      <3>1. PICK n \in 1..Min({SS_READ_BUFFER_SIZE, Len(wire)}) : parse_request(n)
        BY <2>2
      <3>2. n \in Nat
        OBVIOUS
      <3>3. /\ DOMAIN req' = DOMAIN req /\ req'._header_fields = req._header_fields
            /\ req'._header_values = req._header_values /\ req'._last_was_value = req._last_was_value
            /\ req'._parse_err = req._parse_err /\ req'._total_req_size = req._total_req_size + n
        BY <3>1 DEF parse_request, ReqInv, ReqFields
      <3>4. HeadersPaired(req')
        BY <3>3 DEF ReqInv, HeadersPaired
      <3>5. req'._total_req_size \in Nat
        BY <3>2, <3>3 DEF ReqInv
      <3>6. armed' # "closed" => req'._total_req_size <= MAX_REQ_SIZE
        BY <3>1, <3>5, RequestAssumption DEF parse_request
      <3>7. UNCHANGED parser
        BY <1>1 DEF on_readable
      <3> QED
        BY <3>3, <3>4, <3>5, <3>6, <3>7 DEF ReqInv
    <2> QED
      BY <1>1, <2>1, <2>2 DEF on_readable
  <1>2. CASE Parses
    <2>1. Callback /\ armed' = armed
      BY <1>2, CallbackStep DEF Parses
    <2> QED
      BY <2>1 DEF Callback, ReqInv
  <1>3. CASE Parsed
    <2>1. UNCHANGED <<req, parser>> /\ armed = "parse"
      BY <1>3 DEF Parsed, requestVars
    <2> QED
      BY <2>1, SameReqStep
  <1>4. CASE on_writeable
    <2>1. armed = "out" /\ (UNCHANGED <<req, parser>> \/ clear)
      BY <1>4 DEF on_writeable, Send
    <2> QED
      BY <2>1, SameReqStep, ClearStep
  <1>5. CASE on_close
    <2>1. armed' = "closed" /\ UNCHANGED <<req, parser>>
      BY <1>5 DEF on_close, requestVars
    <2> QED
      BY <2>1, SameReqStep
  <1>6. CASE (\E r \in Requests : ClientSends(r)) \/ ClientCloses \/ UNCHANGED vars
    <2>1. UNCHANGED <<armed, req, parser>>
      BY <1>6 DEF ClientSends, ClientCloses, vars, requestVars
    <2> QED
      BY <2>1, SameReqStep
  <1> QED
    BY <1>1, <1>2, <1>3, <1>4, <1>5, <1>6 DEF Next

(***************************************************************************)
(* How far the server is in what the client sent.                          *)
(***************************************************************************)
Kinds == {"message", "method", "url", "version", "field", "value", "end", "body", "dead"}

Phases == {"callbacks", "message", "multipart"}

\* pos tokens are parsed: j whole requests and p tokens of the next one.  The
\* parser knows it, unless it begins anew inside a request, which then no
\* method follows.
At(pos, j, p) ==
    /\ pos \in 0..read /\ read <= Size(Len(sent))
    /\ chunk = SubSeq(Total(Len(sent)), pos + 1, read)
    /\ wire = SubSeq(Total(Len(sent)), read + 1, Size(Len(sent)))
    /\ j \in 0..Len(sent) /\ p \in Nat /\ pos = Size(j) + p
    /\ Len(seen) <= j
    /\ armed = "parse" /\ req._parse_part = "PARSE_REQ_OVER" => Len(seen) < j
    /\ p > 0 => j < Len(sent) /\ p <= Len(sent[j + 1].stream)
    /\ ppc = "callbacks" /\ p > 0 => p < Len(sent[j + 1].stream)
    /\ ppc # "callbacks" => p > 0 /\ p = Len(sent[j + 1].stream)
    /\ ppc = "callbacks" /\ parser.last \in Words => p > 0 /\ p < EndOf(sent[j + 1])
    /\ ppc = "callbacks" /\ parser.last \in {"end", "body"} =>
          p > 0 /\ parser.left = Len(sent[j + 1].stream) - p

PosInv ==
    /\ sent \in Seq(Requests) /\ IsSeq(seen)
    /\ ppc \in Phases /\ read \in Nat /\ parser.last \in Kinds
    /\ armed \in {"in", "out"} => chunk = <<>> /\ ppc = "callbacks"
    /\ armed = "in" => req._parse_part # "PARSE_REQ_OVER"
    /\ \E pos, j, p : At(pos, j, p)

\* The token that is next.
LEMMA NextToken ==
    ASSUME PosInv, NEW pos, NEW j, NEW p, At(pos, j, p), Parsing
    PROVE  /\ j < Len(sent) /\ sent[j + 1] \in Requests /\ p < Len(sent[j + 1].stream)
           /\ Head(chunk) = sent[j + 1].stream[p + 1] /\ pos + 1 \in 0..read
           /\ Tail(chunk) = SubSeq(Total(Len(sent)), (pos + 1) + 1, read)
  <1> DEFINE n == Len(sent)
             s == Total(n)
  <1>1. /\ n \in Nat /\ s \in Seq(Tokens) /\ Size(n) = Len(s) /\ Size(n) \in Nat
        /\ j \in Nat /\ j <= n /\ Size(j) \in Nat
    <2>1. n \in Nat /\ j \in Nat /\ j <= n
      BY DEF PosInv, At
    <2> QED
      BY <2>1, TotalStep DEF PosInv
  <1> HIDE DEF n, s
  <1>2. /\ pos \in 0..read /\ read \in Nat /\ read <= Len(s) /\ chunk = SubSeq(s, pos + 1, read) /\ chunk # <<>>
        /\ p \in Nat /\ pos = Size(j) + p /\ ppc = "callbacks"
    BY <1>1 DEF PosInv, At, Parsing, n, s
  <1>3. pos < read
    <2>1. pos >= read => SubSeq(s, pos + 1, read) = <<>>
      BY <1>2, SubSeqEmpty
    <2> QED
      BY <1>2, <2>1
  <1>4. Head(chunk) = s[pos + 1] /\ Tail(chunk) = SubSeq(s, (pos + 1) + 1, read)
    <2> DEFINE m == pos + 1
    <2>1. m \in 1..Len(s) /\ read \in m..Len(s)
      BY <1>1, <1>2, <1>3, SMTT(30)
    <2>2. chunk = SubSeq(s, m, read)
      BY <1>2
    <2> HIDE DEF m
    <2>3. Head(chunk) = s[m] /\ Tail(chunk) = SubSeq(s, m + 1, read)
      BY <1>1, <2>1, <2>2, HeadTailOfSubSeq
    <2> QED
      BY <2>3 DEF m
  <1>5. j < n
    <2>1. CASE p > 0
      BY <2>1 DEF At, n
    <2>2. CASE p = 0
      <3>1. j = n => pos = Len(s)
        BY <1>1, <1>2, <2>2
      <3> QED
        BY <1>1, <1>2, <1>3, <3>1
    <2> QED
      BY <1>2, <2>1, <2>2
  <1>6. sent[j + 1] \in Requests
    BY <1>1, <1>5 DEF PosInv, n
  <1>7. p < Len(sent[j + 1].stream) /\ Len(sent[j + 1].stream) \in Nat
    <2>1. Len(sent[j + 1].stream) \in Nat /\ EndOf(sent[j + 1]) \in 1..Len(sent[j + 1].stream)
      BY <1>6, StreamFacts DEF IsEnd
    <2> QED
      BY <1>2, <2>1, SMTT(30) DEF At
  <1>8. s[pos + 1] = sent[j + 1].stream[p + 1]
    <2>1. p + 1 \in 1..Len(sent[j + 1].stream)
      BY <1>2, <1>7, SMTT(30)
    <2>2. s[Size(j) + (p + 1)] = sent[j + 1].stream[p + 1]
      BY <1>1, <1>5, <2>1, TokenAt DEF n, s, PosInv
    <2>3. Size(j) + (p + 1) = pos + 1
      BY <1>1, <1>2, SMTT(30)
    <2> QED
      BY <2>2, <2>3
  <1>9. pos + 1 \in 0..read
    BY <1>2, <1>3
  <1>10. Head(chunk) = sent[j + 1].stream[p + 1]
    BY <1>4, <1>8
  <1> QED
    BY <1>4, <1>5, <1>6, <1>7, <1>9, <1>10, Zenon DEF n, s

\* A token taken leaves the place one further.
LEMMA TakenStep ==
    ASSUME PosInv, NEW pos, NEW j, NEW p, At(pos, j, p), Parsing,
           UNCHANGED <<sent, seen, wire, read, armed>>, chunk' = Tail(chunk),
           req'._parse_part # "PARSE_REQ_OVER" \/ req'._parse_part = req._parse_part,
           ppc' \in {"callbacks", "message"},
           parser'.last \in Words => ppc' = "callbacks" /\ p + 1 < EndOf(sent[j + 1]),
           parser'.last \in {"end", "body"} => parser'.left = Len(sent[j + 1].stream) - (p + 1),
           ppc' = "message" <=> p + 1 = Len(sent[j + 1].stream)
    PROVE  At(pos + 1, j, p + 1)'
  <1>1. /\ j < Len(sent) /\ p < Len(sent[j + 1].stream)
        /\ pos + 1 \in 0..read
        /\ chunk' = SubSeq(Total(Len(sent)), (pos + 1) + 1, read)
    BY NextToken
  <1>2. /\ p \in Nat /\ p + 1 \in Nat /\ p + 1 > 0 /\ pos + 1 = Size(j) + (p + 1)
        /\ p + 1 <= Len(sent[j + 1].stream)
    <2>1. sent[j + 1] \in Requests /\ p \in Nat /\ pos = Size(j) + p /\ j \in Nat /\ j <= Len(sent)
      <3>1. sent[j + 1] \in Requests
        BY NextToken
      <3>2. p \in Nat /\ pos = Size(j) + p /\ j \in 0..Len(sent)
        BY DEF At
      <3> QED
        BY <3>1, <3>2 DEF PosInv
    <2>2. Size(j) \in Nat /\ Len(sent[j + 1].stream) \in Nat
      BY <2>1, TotalStep, StreamFacts DEF PosInv
    <2> QED
      BY <1>1, <2>1, <2>2, SMTT(30)
  <1>3. \A k : Size(k)' = Size(k) /\ Total(k)' = Total(k)
    BY DEF Size, Total, Streams
  <1>4. /\ (ppc' = "callbacks" => p + 1 < Len(sent[j + 1].stream))
        /\ (ppc' # "callbacks" => p + 1 = Len(sent[j + 1].stream))
    <2>1. sent[j + 1] \in Requests
      BY NextToken
    <2>2. Len(sent[j + 1].stream) \in Nat
      BY <2>1, StreamFacts
    <2> QED
      BY <1>2, <2>2
  <1> QED
    BY <1>1, <1>2, <1>3, <1>4 DEF At

\* A callback that ends no message leaves the requests parsed.
LEMMA CallbackPlace ==
    ASSUME PosInv, armed = "parse", NEW pos, NEW j, NEW p, At(pos, j, p), UNCHANGED <<sent, seen, wire, read, armed>>,
           ParseStep
    PROVE  /\ ppc' \in Phases /\ parser'.last \in Kinds
           /\ At(pos, j, p)' \/ At(pos + 1, j, p + 1)' \/ At(pos, j + 1, 0)'
  <1>0. \A k : Size(k)' = Size(k) /\ Total(k)' = Total(k)
    BY DEF Size, Total, Streams
  <1> DEFINE r == sent[j + 1]
             n == Len(r.stream)
  <1>1. CASE Still
    <2>1. ppc' \in Phases /\ parser'.last \in Kinds
      BY <1>1 DEF Still, PosInv, Phases
    <2>2. At(pos, j, p)'
      BY <1>0, <1>1 DEF Still, At
    <2> QED
      BY <2>1, <2>2
  <1>2. ASSUME NEW kinds, Takes1(kinds)
        PROVE  /\ Parsing /\ ppc = "callbacks" /\ chunk' = Tail(chunk) /\ parser'.last = Head(chunk)[1]
               /\ Head(chunk)[1] \in kinds
               /\ r \in Requests /\ p \in Nat /\ n \in Nat /\ p < n
               /\ Head(chunk) = r.stream[p + 1] /\ p + 1 \in 1..n
               /\ IsEnd(r, EndOf(r)) /\ EndOf(r) > 1 /\ EndOf(r) \in 1..n
    <2>1. Parsing /\ ppc = "callbacks"
      BY <1>2 DEF Takes1, Parsing
    <2>2. r \in Requests /\ p < n /\ Head(chunk) = r.stream[p + 1]
      BY <2>1, NextToken
    <2>3. n \in Nat /\ IsEnd(r, EndOf(r)) /\ EndOf(r) > 1 /\ EndOf(r) \in 1..n
      BY <2>2, StreamFacts DEF IsEnd
    <2>4. p \in Nat
      BY DEF At
    <2>5. p + 1 \in 1..n
      BY <2>2, <2>3, <2>4
    <2> HIDE DEF r, n
    <2> QED
      BY <1>2, <2>1, <2>2, <2>3, <2>4, <2>5 DEF Takes1
  <1>3. CASE Word
    <2>1. Takes1(Words) /\ ppc' = ppc /\ req'._parse_part \in {req._parse_part, "PARSE_REQ_HEAD"}
      BY <1>3 DEF Word
    <2>2. /\ Parsing /\ ppc = "callbacks" /\ chunk' = Tail(chunk) /\ parser'.last = Head(chunk)[1]
          /\ Head(chunk)[1] \in Words /\ r \in Requests /\ p \in Nat /\ n \in Nat /\ p < n
          /\ Head(chunk) = r.stream[p + 1] /\ p + 1 \in 1..n /\ IsEnd(r, EndOf(r)) /\ EndOf(r) > 1
          /\ EndOf(r) \in 1..n
      BY <1>2, <2>1, SMTT(30)
    <2>3. p + 1 # EndOf(r)
      <3>1. r.stream[p + 1][1] # "end"
        BY <2>2 DEF Words
      <3> QED
        BY <2>2, <3>1 DEF IsEnd
    <2>4. p < EndOf(r)
      <3>1. CASE parser.last = "message"
        <4>1. Head(chunk)[1] = "method"
          BY <2>1, <3>1 DEF Takes1, Follows
        <4>2. p + 1 = 1
          BY <2>2, <4>1, StreamFacts
        <4> QED
          BY <2>2, <4>2
      <3>2. CASE parser.last \in Words
        BY <2>2, <3>2 DEF At
      <3>3. CASE parser.last \in {"end", "body", "dead"}
        <4>1. Head(chunk)[1] \in {"body"}
          BY <2>1, <3>3 DEF Takes1, Follows
        <4> QED
          BY <2>2, <4>1 DEF Words
      <3> QED
        BY <3>1, <3>2, <3>3 DEF PosInv, Kinds, Words
    <2>5. p + 1 < EndOf(r) /\ p + 1 < n
      BY <2>2, <2>3, <2>4
    <2> HIDE DEF n, r
    <2>6. parser'.last \in Words /\ parser'.last \in Kinds /\ ppc' = "callbacks"
      BY <2>1, <2>2 DEF Words, Kinds
    <2>7. At(pos + 1, j, p + 1)'
      <3>1. req'._parse_part # "PARSE_REQ_OVER" \/ req'._parse_part = req._parse_part
        BY <2>1
      <3>2. parser'.last \in {"end", "body"} => parser'.left = n - (p + 1)
        BY <2>6 DEF Words
      <3>3. ppc' = "message" <=> p + 1 = n
        BY <2>2, <2>5, <2>6
      <3> QED
        BY <2>2, <2>5, <2>6, <3>1, <3>2, <3>3, TakenStep DEF n, r
    <2> QED
      BY <2>6, <2>7 DEF Phases
  <1>4. CASE HeadersEnd
    <2>1. Takes1({"end"}) /\ parser'.left = piece.length /\ ppc' = IF piece.length = 0 THEN "message" ELSE ppc
      BY <1>4 DEF HeadersEnd
    <2>2. /\ Parsing /\ ppc = "callbacks" /\ chunk' = Tail(chunk) /\ parser'.last = Head(chunk)[1]
          /\ Head(chunk)[1] \in {"end"} /\ r \in Requests /\ p \in Nat /\ n \in Nat /\ p < n
          /\ Head(chunk) = r.stream[p + 1] /\ p + 1 \in 1..n /\ IsEnd(r, EndOf(r)) /\ EndOf(r) > 1
          /\ EndOf(r) \in 1..n
      BY <1>2, <2>1, SMTT(30)
    <2>3. p + 1 = EndOf(r)
      BY <2>2 DEF IsEnd
    <2>4. piece = r.stream[EndOf(r)][2]
      BY <2>2, <2>3 DEF piece
    <2>5. piece.length \in Nat /\ n = (p + 1) + piece.length
      BY <2>2, <2>3, <2>4 DEF IsEnd
    <2> HIDE DEF n, r
    <2>6. parser'.last = "end"
      BY <2>2
    <2>7. At(pos + 1, j, p + 1)'
      <3>1. req'._parse_part # "PARSE_REQ_OVER"
        BY <1>4 DEF HeadersEnd
      <3>2. parser'.left = n - (p + 1) /\ (piece.length = 0 <=> p + 1 = n)
        BY <2>1, <2>2, <2>5
      <3>3. ppc' \in {"callbacks", "message"} /\ (ppc' = "message" <=> p + 1 = n)
        BY <2>1, <2>2, <3>2
      <3>4. parser'.last \notin Words
        BY <2>6 DEF Words
      <3> QED
        BY <2>2, <3>1, <3>2, <3>3, <3>4, TakenStep DEF n, r
    <2> QED
      BY <2>1, <2>2, <2>6, <2>7 DEF Phases, Kinds
  <1>5. CASE BodyPart
    <2>1. /\ Takes1({"body"}) /\ parser'.left = parser.left - 1
          /\ ppc' = IF parser.left = 1 THEN "message" ELSE ppc
      BY <1>5 DEF BodyPart
    <2>2. /\ Parsing /\ ppc = "callbacks" /\ chunk' = Tail(chunk) /\ parser'.last = Head(chunk)[1]
          /\ Head(chunk)[1] \in {"body"} /\ r \in Requests /\ p \in Nat /\ n \in Nat /\ p < n
          /\ Head(chunk) = r.stream[p + 1]
      BY <1>2, <2>1
    <2>3. parser.last \in {"end", "body"}
      BY <2>1, <2>2 DEF Takes1, Follows, PosInv, Kinds
    <2>4. parser.left = n - p
      BY <2>2, <2>3 DEF At
    <2> HIDE DEF n, r
    <2>5. parser'.last = "body"
      BY <2>2
    <2>6. At(pos + 1, j, p + 1)'
      <3>1. req'._parse_part # "PARSE_REQ_OVER"
        BY <1>5 DEF BodyPart
      <3>2. parser'.left = n - (p + 1) /\ (parser.left = 1 <=> p + 1 = n)
        BY <2>1, <2>2, <2>4
      <3>3. ppc' \in {"callbacks", "message"} /\ (ppc' = "message" <=> p + 1 = n)
        BY <2>1, <2>2, <3>2
      <3>4. parser'.last \notin Words
        BY <2>5 DEF Words
      <3> QED
        BY <2>2, <3>1, <3>2, <3>3, <3>4, TakenStep DEF n, r
    <2> QED
      BY <2>1, <2>2, <2>5, <2>6 DEF Phases, Kinds
  <1>6. CASE Over
    <2>1. /\ ppc # "callbacks" /\ ppc' = "callbacks" /\ chunk' = chunk
          /\ parser'.last \in {"message", "dead"} /\ req'._parse_part = "PARSE_REQ_OVER"
      BY <1>6 DEF Over
    <2>2. j \in Nat /\ j < Len(sent) /\ Len(sent) \in Nat /\ p > 0 /\ p = n
      BY <2>1 DEF At, PosInv
    <2>3. pos = Size(j + 1) /\ Size(j + 1) \in Nat
      <3>1. Size(j + 1) = Size(j) + n /\ j + 1 \in Nat /\ j + 1 <= Len(sent)
        BY <2>2, TokenAt DEF PosInv
      <3>2. Size(j + 1) \in Nat
        BY <3>1, TotalStep DEF PosInv
      <3> QED
        BY <2>2, <3>1, <3>2 DEF At
    <2>4. Len(seen) \in Nat
      BY AppendIsSeq DEF PosInv
    <2>5. At(pos, j + 1, 0)'
      <3>1. j + 1 \in 0..Len(sent) /\ Len(seen) <= j + 1 /\ Len(seen) < j + 1 /\ pos = Size(j + 1) + 0
        <4>1. Len(seen) <= j
          BY DEF At
        <4> QED
          BY <2>2, <2>3, <2>4, <4>1
      <3>2. parser'.last \notin Words \cup {"end", "body"}
        BY <2>1 DEF Words
      <3>3. /\ (pos \in 0..read /\ read <= Size(Len(sent)))'
            /\ (chunk = SubSeq(Total(Len(sent)), pos + 1, read))'
            /\ (wire = SubSeq(Total(Len(sent)), read + 1, Size(Len(sent))))'
        BY <1>0, <2>1 DEF At
      <3>4. (j + 1 \in 0..Len(sent) /\ pos = Size(j + 1) + 0 /\ Len(seen) <= j + 1 /\ Len(seen) < j + 1)'
        BY <1>0, <3>1
      <3>5. 0 \in Nat /\ ~(0 > 0)
        OBVIOUS
      <3> QED
        BY <2>1, <3>2, <3>3, <3>4, <3>5 DEF At
    <2> QED
      BY <2>1, <2>5 DEF Phases, Kinds
  <1> QED
    BY <1>1, <1>3, <1>4, <1>5, <1>6 DEF ParseStep

\* What is behind a place is longer by what is appended, what is before it
\* the same.
LEMMA SplitConcat ==
    ASSUME NEW S, NEW s \in Seq(S), NEW t \in Seq(S), NEW i \in 0..Len(s), NEW k \in 0..i
    PROVE  /\ SubSeq(s \o t, k + 1, i) = SubSeq(s, k + 1, i)
           /\ SubSeq(s \o t, i + 1, Len(s) + Len(t)) = SubSeq(s, i + 1, Len(s)) \o t
  <1> DEFINE u == s \o t
             n == Len(s)
             m == Len(t)
  <1>1. /\ u \in Seq(S) /\ Len(u) = n + m /\ n \in Nat /\ m \in Nat /\ i \in 0..n
        /\ (\A x \in 1..n : u[x] = s[x] /\ s[x] \in S)
        /\ (\A x \in 1..m : u[n + x] = t[x] /\ t[x] \in S)
    OBVIOUS
  <1>2. SubSeq(u, k + 1, i) = SubSeq(s, k + 1, i)
    <2> HIDE DEF u, n, m
    <2>1. SubSeq(u, k + 1, i) = [x \in 1..(i - k) |-> u[k + x]]
      BY <1>1
    <2>2. SubSeq(s, k + 1, i) = [x \in 1..(i - k) |-> s[k + x]]
      BY <1>1
    <2>3. \A x \in 1..(i - k) : k + x \in 1..n
      BY <1>1
    <2>4. \A x \in 1..(i - k) : u[k + x] = s[k + x]
      BY <1>1, <2>3
    <2> QED
      BY <2>1, <2>2, <2>4
  <1>3. SubSeq(u, i + 1, n + m) = SubSeq(s, i + 1, n) \o t
    <2> DEFINE a == SubSeq(s, i + 1, n)
               b == SubSeq(u, i + 1, n + m)
    <2>1. a \in Seq(S) /\ Len(a) = n - i /\ \A x \in 1..(n - i) : a[x] = s[i + x]
      BY SMTT(30)
    <2> HIDE DEF a
    <2>2. a \o t \in Seq(S) /\ Len(a \o t) = (n - i) + m
      BY <2>1, ConcatProperties
    <2>3. \A x \in 1..((n - i) + m) : (a \o t)[x] = IF x <= n - i THEN s[i + x] ELSE t[x - (n - i)]
      BY <2>1
    <2> HIDE DEF u, n, m
    <2>4. \A x \in (i + 1)..(n + m) : u[x] \in S
      BY <1>1
    <2>5. b \in Seq(S) /\ Len(b) = (n + m) - i /\ \A x \in 1..((n + m) - i) : b[x] = u[i + x]
      BY <1>1, <2>4
    <2> HIDE DEF b
    <2>6. ASSUME NEW x \in 1..((n - i) + m) PROVE b[x] = (a \o t)[x]
      <3>1. b[x] = u[i + x]
        BY <1>1, <2>5
      <3>2. CASE x <= n - i
        <4>1. i + x \in 1..n
          BY <1>1, <3>2
        <4> QED
          BY <1>1, <2>3, <3>1, <3>2, <4>1
      <3>3. CASE ~(x <= n - i)
        <4> DEFINE y == x - (n - i)
        <4>1. y \in 1..m /\ i + x = n + y
          BY <1>1, <3>3
        <4>2. u[n + y] = t[y]
          BY <1>1, <4>1
        <4> QED
          BY <2>3, <3>1, <3>3, <4>1, <4>2
      <3> QED
        BY <3>2, <3>3
    <2>7. Len(b) = Len(a \o t) /\ Len(b) = (n - i) + m
      BY <1>1, <2>2, <2>5, SMTT(30)
    <2>8. b = a \o t
      BY <2>2, <2>5, <2>6, <2>7, SeqEqual
    <2> QED
      BY <2>8 DEF a, b
  <1> QED
    BY <1>2, <1>3

\* All that the client sent is as long as At says.
LEMMA AllFacts ==
    ASSUME PosInv
    PROVE  /\ Total(Len(sent)) \in Seq(Tokens) /\ Size(Len(sent)) = Len(Total(Len(sent)))
           /\ Size(Len(sent)) \in Nat /\ Len(sent) \in Nat /\ read \in Nat /\ Len(seen) \in Nat
  <1>1. Len(sent) \in Nat /\ Len(sent) <= Len(sent) /\ read \in Nat
    BY DEF PosInv
  <1>2. Len(seen) \in Nat
    BY AppendIsSeq DEF PosInv
  <1> QED
    BY <1>1, <1>2, TotalStep DEF PosInv

LEMMA PosInit == Init => PosInv
  <1> SUFFICES ASSUME Init PROVE PosInv
    OBVIOUS
  <1>1. /\ sent = <<>> /\ seen = <<>> /\ ppc = "callbacks" /\ read = 0 /\ chunk = <<>> /\ wire = <<>> /\ armed = "in"
        /\ parser.last = "message" /\ req._parse_part = "PARSE_REQ_LINE"
    BY DEF Init, Request, http_parser
  <1>2. sent \in Seq(Requests) /\ IsSeq(seen) /\ Len(sent) = 0 /\ Len(seen) = 0
    <2>1. IsSeq(seen)
      BY <1>1, IsSeqOne, Zenon
    <2>2. <<>> \in Seq(Requests) /\ Len(<<>>) = 0
      OBVIOUS
    <2> QED
      BY <1>1, <2>1, <2>2
  <1>3. Size(0) = 0
    <2>1. Streams(0) = <<>>
      BY DEF Streams
    <2> QED
      BY <2>1, FlattenEmpty DEF Size, Streams
  <1>4. \A s : SubSeq(s, 0 + 1, 0) = <<>>
    BY SubSeqEmpty
  <1>5. At(0, 0, 0)
    BY <1>1, <1>2, <1>3, <1>4 DEF At, Words
  <1> QED
    BY <1>1, <1>2, <1>5 DEF PosInv, Phases, Kinds

\* Nothing but the state of the connection changes.
LEMMA SamePlace ==
    ASSUME PosInv, UNCHANGED <<sent, seen, wire, read, chunk, ppc, parser, req>>,
           armed' = "closed" \/ (armed' = armed) \/ (armed' = "out" /\ chunk = <<>> /\ ppc = "callbacks")
           \/ (armed' = "in" /\ chunk = <<>> /\ ppc = "callbacks" /\ req._parse_part # "PARSE_REQ_OVER")
    PROVE  PosInv'
  <1>0. \A k : Size(k)' = Size(k) /\ Total(k)' = Total(k)
    BY DEF Size, Total, Streams
  <1>1. PICK pos, j, p : At(pos, j, p)
    BY DEF PosInv
  <1>2. At(pos, j, p)'
    BY <1>0, <1>1 DEF At
  <1> QED
    BY <1>2 DEF PosInv

\* The part of a sequence between two places.
LEMMA PartFacts ==
    ASSUME NEW S, NEW s \in Seq(S), NEW a \in Nat, NEW b \in Nat, a <= b, b <= Len(s)
    PROVE  /\ SubSeq(s, a + 1, b) \in Seq(S) /\ Len(SubSeq(s, a + 1, b)) = b - a
           /\ \A x \in 1..(b - a) : SubSeq(s, a + 1, b)[x] = s[a + x]
  OBVIOUS

\* What is read comes next behind what was read before.
LEMMA ReadStep ==
    ASSUME PosInv, armed = "in", armed' \in {"parse", "closed"}, NEW m \in 1..Min({SS_READ_BUFFER_SIZE, Len(wire)}),
           chunk' = SubSeq(wire, 1, m), wire' = SubSeq(wire, m + 1, Len(wire)), read' = read + m,
           req'._parse_part = req._parse_part, UNCHANGED <<parser, ppc, sent, seen>>
    PROVE  PosInv'
  <1>0. \A k : Size(k)' = Size(k) /\ Total(k)' = Total(k)
    BY DEF Size, Total, Streams
  <1>1. PICK pos, j, p : At(pos, j, p)
    BY DEF PosInv
  <1> DEFINE s == Total(Len(sent))
             n == Size(Len(sent))
  <1>2. s \in Seq(Tokens) /\ n = Len(s) /\ n \in Nat /\ read \in Nat
    BY AllFacts
  <1>3. /\ pos \in 0..read /\ read <= n /\ chunk = SubSeq(s, pos + 1, read) /\ wire = SubSeq(s, read + 1, n)
        /\ chunk = <<>>
    BY <1>1, SMTT(30) DEF At, PosInv
  <1> HIDE DEF s, n
  <1>4. pos = read
    <2>1. Len(SubSeq(s, pos + 1, read)) = read - pos
      <3>1. pos \in Nat /\ pos <= read /\ read <= Len(s)
        BY <1>2, <1>3
      <3> QED
        BY <1>2, <3>1, PartFacts
    <2>2. Len(SubSeq(s, pos + 1, read)) = 0
      <3>1. SubSeq(s, pos + 1, read) = <<>>
        BY <1>3, Zenon
      <3>2. Len(<<>>) = 0
        OBVIOUS
      <3> QED
        BY <3>1, <3>2, Zenon
    <2> QED
      BY <1>2, <1>3, <2>1, <2>2, SMTT(30)
  <1>5. Len(wire) = n - read /\ Len(wire) \in Nat
    BY <1>2, <1>3
  <1>w. \A x \in 1..Len(wire) : wire[x] = s[read + x]
    <2>1. wire = SubSeq(s, read + 1, n)
      BY <1>3
    <2>2. n \in Nat /\ read \in Nat /\ read <= n /\ n <= Len(s) /\ s \in Seq(Tokens)
      BY <1>2, <1>3
    <2>3. \A x \in 1..(n - read) : SubSeq(s, read + 1, n)[x] = s[read + x]
      BY ONLY <2>2, PartFacts
    <2> QED
      BY ONLY <1>5, <2>1, <2>3
  <1>6. m \in 1..Len(wire) /\ m \in Nat
    <2>1. Min({SS_READ_BUFFER_SIZE, Len(wire)}) <= Len(wire) /\ Min({SS_READ_BUFFER_SIZE, Len(wire)}) \in Int
      BY <1>5, ConnAssumption, MinOfTwo, SMTT(30)
    <2> QED
      BY <1>5, <2>1
  <1>7. /\ read' \in Nat /\ read' <= n /\ read + 1 \in 1..n /\ n \in 1..n
        /\ m \in 1..(n - (read + 1) + 1)
    BY <1>2, <1>3, <1>5, <1>6
  <1>8. chunk' = SubSeq(s, pos + 1, read')
    <2>1. \A x \in 1..n : s[x] \in Tokens
      BY <1>2
    <2>3. \A x \in 1..m : SubSeq(wire, 1, m)[x] = wire[x]
      OBVIOUS
    <2>4. SubSeq(wire, 1, m) = [x \in 1..m |-> wire[x]]
      BY <1>6
    <2>5. SubSeq(s, read + 1, read + m) = [x \in 1..m |-> s[read + x]]
      BY <1>2, <1>6
    <2>6. \A x \in 1..m : wire[x] = s[read + x]
      BY <1>5, <1>6, <1>w
    <2> QED
      BY <1>4, <2>4, <2>5, <2>6
  <1>9. wire' = SubSeq(s, read' + 1, n)
    <2> DEFINE d == (n - read) - m
    <2>1. d \in Nat /\ Len(wire) = m + d /\ n = (read + m) + d
      BY <1>2, <1>5, <1>6, <1>7
    <2> HIDE DEF d
    <2>3. SubSeq(wire, m + 1, m + d) = [x \in 1..d |-> wire[m + x]]
      BY <1>6, <2>1
    <2>4. SubSeq(s, (read + m) + 1, (read + m) + d) = [x \in 1..d |-> s[(read + m) + x]]
      BY <1>2, <1>6, <2>1
    <2>5. ASSUME NEW x \in 1..d PROVE wire[m + x] = s[(read + m) + x]
      <3>1. m + x \in 1..Len(wire) /\ read + (m + x) = (read + m) + x
        BY <1>2, <1>6, <2>1
      <3>2. wire[m + x] = s[read + (m + x)]
        BY <1>w, <3>1
      <3> QED
        BY <3>1, <3>2
    <2> QED
      BY <2>1, <2>3, <2>4, <2>5
  <1>10. At(pos, j, p)'
    <2>1. (pos \in 0..read)' /\ read' <= n
      BY <1>2, <1>3, <1>6, <1>7
    <2>2. (Total(Len(sent)))' = s /\ Size(Len(sent))' = n
      BY <1>0 DEF s, n
    <2>3. req'._parse_part # "PARSE_REQ_OVER"
      BY DEF PosInv
    <2> QED
      BY <1>0, <1>1, <1>8, <1>9, <2>1, <2>2, <2>3 DEF At
  <1> QED
    BY <1>7, <1>10 DEF PosInv

\* The client's next request comes behind all that it sent.
LEMMA SendStep ==
    ASSUME PosInv, NEW r \in Requests, sent' = Append(sent, r), wire' = wire \o r.stream,
           UNCHANGED <<req, parser, chunk, ppc, armed, seen, read>>
    PROVE  PosInv'
  <1>1. PICK pos, j, p : At(pos, j, p)
    BY DEF PosInv
  <1>2. \E n : n = Len(sent)
    OBVIOUS
  <1>3. PICK n : n = Len(sent)
    BY <1>2
  <1>4. /\ sent' \in Seq(Requests) /\ Len(sent') = n + 1 /\ n \in Nat
        /\ sent'[n + 1] = r /\ \A k \in 1..n : sent'[k] = sent[k]
        /\ \A k \in 0..n : Size(k)' = Size(k)
        /\ Total(n + 1)' = Total(n) \o r.stream
    BY <1>3, TotalAppend DEF PosInv
  <1> DEFINE s == Total(n)
             t == r.stream
             all == (Total(Len(sent)))'
  <1>5. s \in Seq(Tokens) /\ Size(n) = Len(s) /\ read \in Nat /\ t \in Seq(Tokens)
    BY <1>3, AllFacts, StreamFacts
  <1>6. all = s \o t /\ Size(Len(sent))' = Len(s) + Len(t)
    <2>1. all = Total(n + 1)' /\ Size(Len(sent))' = Len(Total(n + 1)')
      BY <1>4 DEF Size, Total, Streams
    <2>2. all = s \o t
      BY <1>4, <2>1
    <2>3. Len(s \o t) = Len(s) + Len(t)
      BY <1>5, ConcatProperties
    <2>4. Len(Total(n + 1)') = Len(s \o t)
      BY <1>4
    <2> QED
      BY <2>1, <2>2, <2>3, <2>4, Zenon
  <1>7. /\ pos \in 0..read /\ read <= Len(s) /\ chunk = SubSeq(s, pos + 1, read)
        /\ wire = SubSeq(s, read + 1, Len(s)) /\ j \in 0..n
    BY <1>1, <1>3, <1>5 DEF At
  <1> HIDE DEF s, t, all
  <1>8. chunk' = SubSeq(all, pos + 1, read) /\ wire' = SubSeq(all, read + 1, Len(s) + Len(t))
    <2>1. read \in 0..Len(s) /\ pos \in 0..read
      BY <1>5, <1>7
    <2>2. /\ SubSeq(s \o t, pos + 1, read) = SubSeq(s, pos + 1, read)
          /\ SubSeq(s \o t, read + 1, Len(s) + Len(t)) = SubSeq(s, read + 1, Len(s)) \o t
      BY <1>5, <2>1, SplitConcat
    <2> QED
      BY <1>6, <1>7, <2>2 DEF t
  <1>9. (chunk = SubSeq(Total(Len(sent)), pos + 1, read))'
        /\ (wire = SubSeq(Total(Len(sent)), read + 1, Size(Len(sent))))'
    BY <1>6, <1>8 DEF all
  <1>10. (pos \in 0..read /\ read <= Size(Len(sent)) /\ j \in 0..Len(sent) /\ p \in Nat /\ pos = Size(j) + p)'
    <2>1. Len(s) \in Nat /\ Len(t) \in Nat
      BY <1>5
    <2>2. Size(j)' = Size(j)
      BY <1>4, <1>7
    <2>3. p \in Nat /\ pos = Size(j) + p
      BY <1>1 DEF At
    <2>4. j \in 0..(n + 1)
      BY <1>4, <1>7
    <2>5. read <= Len(s) + Len(t)
      BY <1>5, <1>7, <2>1
    <2> QED
      BY <1>4, <1>6, <1>7, <2>2, <2>3, <2>4, <2>5
  <1>11. ASSUME p > 0
         PROVE  j < n /\ j < Len(sent') /\ sent'[j + 1] = sent[j + 1]
    <2>1. j < n
      BY <1>1, <1>3, <1>11 DEF At
    <2> QED
      BY <1>4, <1>7, <2>1
  <1>12. /\ (Len(seen) <= j)'
         /\ (armed = "parse" /\ req._parse_part = "PARSE_REQ_OVER" => Len(seen) < j)'
    BY <1>1, SMTT(30) DEF At
  <1>13. /\ (p > 0 => j < Len(sent) /\ p <= Len(sent[j + 1].stream))'
         /\ (ppc = "callbacks" /\ p > 0 => p < Len(sent[j + 1].stream))'
         /\ (ppc # "callbacks" => p > 0 /\ p = Len(sent[j + 1].stream))'
         /\ (ppc = "callbacks" /\ parser.last \in Words => p > 0 /\ p < EndOf(sent[j + 1]))'
         /\ (ppc = "callbacks" /\ parser.last \in {"end", "body"} =>
               p > 0 /\ parser.left = Len(sent[j + 1].stream) - p)'
    BY <1>1, <1>11, ZenonT(60) DEF At, EndOf, IsEnd
  <1>14. At(pos, j, p)'
    BY <1>9, <1>10, <1>12, <1>13 DEF At
  <1> QED
    BY <1>4, <1>14 DEF PosInv

\* A request that is handled was there.
LEMMA HandledStep ==
    ASSUME PosInv, armed = "parse", armed' = "out", chunk = <<>>, ppc = "callbacks",
           req._parse_part = "PARSE_REQ_OVER", NEW v, seen' = Append(seen, v),
           UNCHANGED <<req, parser, chunk, ppc, sent, wire, read>>
    PROVE  PosInv'
  <1>0. \A k : Size(k)' = Size(k) /\ Total(k)' = Total(k)
    BY DEF Size, Total, Streams
  <1>1. PICK pos, j, p : At(pos, j, p)
    BY DEF PosInv
  <1>2. IsSeq(seen') /\ Len(seen') = Len(seen) + 1 /\ Len(seen) \in Nat
    BY AppendIsSeq DEF PosInv
  <1>3. Len(seen') <= j
    <2>1. Len(seen) < j /\ j \in Nat
      BY <1>1 DEF At, PosInv
    <2> QED
      BY <1>2, <2>1
  <1>4. At(pos, j, p)'
    BY <1>0, <1>1, <1>3 DEF At
  <1> QED
    BY <1>2, <1>4 DEF PosInv

\* A connection that begins anew is at the same place.
LEMMA AnewStep ==
    ASSUME PosInv, armed = "out", armed' = "in", clear, UNCHANGED <<chunk, ppc, sent, seen, wire, read>>
    PROVE  PosInv'
  <1>0. \A k : Size(k)' = Size(k) /\ Total(k)' = Total(k)
    BY DEF Size, Total, Streams
  <1>1. PICK pos, j, p : At(pos, j, p)
    BY DEF PosInv
  <1>2. parser'.last = "message" /\ req'._parse_part = "PARSE_REQ_LINE"
    BY DEF clear, http_parser, Request
  <1>3. parser'.last \notin Words \cup {"end", "body"}
    BY <1>2 DEF Words
  <1>4. At(pos, j, p)'
    BY <1>0, <1>1, <1>3 DEF At
  <1> QED
    BY <1>2, <1>4 DEF PosInv, Kinds

LEMMA PosStep == ASSUME ReqInv, PosInv, [Next]_vars PROVE PosInv'
  <1>1. CASE on_readable
    <2>1. CASE armed' = "closed" /\ UNCHANGED <<req, chunk, wire, read>>
      <3>1. UNCHANGED <<sent, seen, ppc, parser>>
        BY <1>1 DEF on_readable, connUnchanged
      <3> QED
        BY <2>1, <3>1, SamePlace
    <2>2. CASE \E n \in 1..Min({SS_READ_BUFFER_SIZE, Len(wire)}) :
                  /\ chunk' = SubSeq(wire, 1, n) /\ wire' = SubSeq(wire, n + 1, Len(wire))
                  /\ read' = read + n /\ parse_request(n)
      <3>1. PICK n \in 1..Min({SS_READ_BUFFER_SIZE, Len(wire)}) :
                  /\ chunk' = SubSeq(wire, 1, n) /\ wire' = SubSeq(wire, n + 1, Len(wire))
                  /\ read' = read + n /\ parse_request(n)
        BY <2>2
      <3>2. req'._parse_part = req._parse_part /\ armed' \in {"parse", "closed"}
        BY <3>1 DEF parse_request
      <3>3. armed = "in" /\ UNCHANGED <<parser, ppc, sent, seen>>
        BY <1>1 DEF on_readable, connUnchanged
      <3> QED
        BY <3>1, <3>2, <3>3, ReadStep
    <2> QED
      BY <1>1, <2>1, <2>2 DEF on_readable
  <1>2. CASE Parses
    <2>1. armed = "parse" /\ ParseStep /\ UNCHANGED <<armed, sent, seen, wire, read>>
      BY <1>2, CallbackStep DEF Parses, connUnchanged, Callback
    <2>2. PICK pos, j, p : At(pos, j, p)
      BY DEF PosInv
    <2>3. /\ ppc' \in Phases /\ parser'.last \in Kinds
          /\ At(pos, j, p)' \/ At(pos + 1, j, p + 1)' \/ At(pos, j + 1, 0)'
      BY <2>1, <2>2, CallbackPlace
    <2>4. \E x, y, z : At(x, y, z)'
      BY <2>3
    <2> QED
      BY <2>1, <2>3, <2>4 DEF PosInv
  <1>3. CASE Parsed
    <2>1. armed = "parse" /\ ppc = "callbacks" /\ UNCHANGED <<req, parser, chunk, ppc, sent, wire, read>>
      BY <1>3 DEF Parsed, Executed, requestVars, connUnchanged
    <2>2. CASE ParseResult = "NEED_MORE_STATUS"
      <3>1. armed' = "in" /\ UNCHANGED seen
        BY <1>3, <2>2 DEF Parsed
      <3>2. chunk = <<>> /\ req._parse_part # "PARSE_REQ_OVER"
        BY <2>2 DEF ParseResult, ReqInv, ParseErrs
      <3> QED
        BY <2>1, <3>1, <3>2, SamePlace
    <2>3. CASE ParseResult = "PARSE_LEN_REQUIRED"
      <3>1. armed' = "out" /\ UNCHANGED seen
        BY <1>3, <2>3 DEF Parsed
      <3>2. chunk = <<>>
        BY <2>3 DEF ParseResult
      <3> QED
        BY <2>1, <3>1, <3>2, SamePlace
    <2>4. CASE ParseResult = "over"
      <3>1. armed' = "out" /\ seen' = Append(seen, View)
        BY <1>3, <2>4 DEF Parsed
      <3>2. chunk = <<>> /\ req._parse_part = "PARSE_REQ_OVER"
        BY <2>4 DEF ParseResult, ReqInv, ParseErrs
      <3> QED
        BY <2>1, <3>1, <3>2, HandledStep
    <2>5. CASE ParseResult \notin {"NEED_MORE_STATUS", "PARSE_LEN_REQUIRED", "over"}
      <3>1. armed' = "closed" /\ UNCHANGED seen
        BY <1>3, <2>5 DEF Parsed
      <3> QED
        BY <2>1, <3>1, SamePlace
    <2> QED
      BY <2>2, <2>3, <2>4, <2>5
  <1>4. CASE on_writeable
    <2>1. /\ armed = "out" /\ UNCHANGED <<chunk, ppc, sent, seen, wire, read>>
          /\ \/ armed' \in {"out", "closed"} /\ UNCHANGED <<req, parser>>
             \/ armed' = "in" /\ clear
      BY <1>4 DEF on_writeable, Send
    <2> QED
      BY <2>1, SamePlace, AnewStep
  <1>5. CASE on_close
    <2>1. armed' = "closed" /\ UNCHANGED <<sent, seen, wire, read, chunk, ppc, parser, req>>
      BY <1>5 DEF on_close, requestVars
    <2> QED
      BY <2>1, SamePlace
  <1>6. CASE \E r \in Requests : ClientSends(r)
    <2>1. PICK r \in Requests : ClientSends(r)
      BY <1>6
    <2>2. /\ sent' = Append(sent, r) /\ wire' = wire \o r.stream
          /\ UNCHANGED <<req, parser, chunk, ppc, armed, seen, read>>
      BY <2>1 DEF ClientSends, requestVars
    <2> QED
      BY <2>2, SendStep
  <1>7. CASE ClientCloses \/ UNCHANGED vars
    <2>1. UNCHANGED <<armed, sent, seen, wire, read, chunk, ppc, parser, req>>
      BY <1>7 DEF ClientCloses, vars, requestVars
    <2> QED
      BY <2>1, SamePlace
  <1> QED
    BY <1>1, <1>2, <1>3, <1>4, <1>5, <1>6, <1>7 DEF Next

(***************************************************************************)
(* The connection coheres.                                                 *)
(***************************************************************************)
FlagsInv == open \in BOOLEAN /\ piped \in BOOLEAN /\ cut \in BOOLEAN

IInv == ResInv /\ SentInv /\ ReqInv /\ PosInv /\ FlagsInv

LEMMA FlagsStep == ASSUME FlagsInv, [Next]_vars PROVE FlagsInv'
  <1>1. CASE on_writeable
    <2>1. cut' \in BOOLEAN /\ UNCHANGED <<open, piped>>
      BY <1>1, Zenon DEF on_writeable, Send, FlagsInv
    <2> QED
      BY <2>1 DEF FlagsInv
  <1>2. CASE on_readable \/ Parses \/ Parsed \/ on_close \/ (\E r \in Requests : ClientSends(r)) \/ UNCHANGED vars
    BY <1>2 DEF on_readable, Parses, Parsed, on_close, ClientSends, vars, connUnchanged, FlagsInv
  <1>3. CASE ClientCloses
    BY <1>3 DEF ClientCloses, FlagsInv
  <1> QED
    BY <1>1, <1>2, <1>3 DEF Next

LEMMA Inductive == Spec => []IInv
  <1>1. Init => IInv
    <2>1. Init => FlagsInv
      BY DEF Init, FlagsInv
    <2> QED
      BY <2>1, ResponseInit, ReqInit, PosInit DEF IInv
  <1>2. IInv /\ [Next]_vars => IInv'
    BY ResponseStep, ReqStep, PosStep, FlagsStep DEF IInv
  <1> QED
    BY <1>1, <1>2, PTL DEF Spec

LEMMA TypeImplied == IInv => TypeOK
  <1> SUFFICES ASSUME IInv PROVE TypeOK
    OBVIOUS
  <1>1. armed \in {"in", "parse", "out", "closed"}
    BY DEF IInv, SentInv
  <1>2. res.tellg \in 0..Len(res.bytes)
    <2>1. PICK S : res.bytes \in Seq(S) /\ res.tellg <= Len(res.bytes)
      BY DEF IInv, SentInv
    <2>2. res.tellg \in Nat
      BY DEF IInv, ResInv
    <2> QED
      BY <2>1, <2>2
  <1>3. armed # "closed" => req._total_req_size \in 0..MAX_REQ_SIZE
    BY RequestAssumption DEF IInv, ReqInv
  <1>4. Len(req._header_values) <= Len(req._header_fields)
    BY DEF IInv, ReqInv, HeadersPaired
  <1> QED
    BY <1>1, <1>2, <1>3, <1>4 DEF TypeOK, IInv, FlagsInv

LEMMA AnswersImplied == IInv => AnswersOnlyWhole
  <1> SUFFICES ASSUME IInv PROVE AnswersOnlyWhole
    OBVIOUS
  <1>1. PICK pos, j, p : At(pos, j, p)
    BY DEF IInv, PosInv
  <1>2. sent \in Seq(Requests) /\ Len(sent) \in Nat /\ DOMAIN sent = 1..Len(sent) /\ read \in Nat /\ Len(seen) \in Nat
    BY AllFacts DEF IInv, PosInv
  <1>3. j \in Nat /\ j <= Len(sent) /\ p \in Nat /\ pos = Size(j) + p /\ pos \in 0..read /\ Len(seen) <= j
    BY <1>1, <1>2 DEF At
  <1> DEFINE T == {k \in DOMAIN sent : Size(k) <= read}
  <1>4. 1..j \subseteq T
    <2> SUFFICES ASSUME NEW k \in 1..j PROVE k \in T
      BY Zenon
    <2>1. k \in Nat /\ k <= j /\ k \in DOMAIN sent
      BY <1>2, <1>3
    <2>2. Size(k) <= Size(j)
      BY <1>2, <1>3, <2>1, TotalPrefix
    <2>3. Size(k) \in Nat /\ Size(j) \in Nat
      <3>1. k <= Len(sent)
        BY <1>2, <1>3, <2>1
      <3> QED
        BY <1>2, <1>3, <2>1, <3>1, TotalStep
    <2> QED
      BY <1>2, <1>3, <2>1, <2>2, <2>3
  <1>5. IsFiniteSet(T)
    <2>1. IsFiniteSet(DOMAIN sent)
      BY <1>2, FS_Interval
    <2>2. T \in SUBSET DOMAIN sent
      OBVIOUS
    <2> QED
      BY <2>1, <2>2, FS_Subset
  <1> HIDE DEF T
  <1>6. Cardinality(1..j) = j /\ Cardinality(T) \in Nat
    BY <1>3, <1>5, FS_Interval, FS_CardinalityType, SMTT(30)
  <1>7. Cardinality(1..j) <= Cardinality(T)
    BY <1>4, <1>5, FS_Subset
  <1>8. Cardinality(T) >= Len(seen)
    BY <1>2, <1>3, <1>6, <1>7
  <1> QED
    BY <1>8 DEF AnswersOnlyWhole, T

\* The response's read position lies in its bytes, an open connection has
\* taken no more than MAX_REQ_SIZE bytes for its request, and header values
\* are not ahead of header names.
THEOREM TypeCorrect == Spec => []TypeOK
  BY Inductive, TypeImplied, PTL

\* The state of the connection coheres, and however the requests are cut into
\* pieces and strung together, there are never more answers than requests
\* whose last byte was read.
THEOREM AnswersFollowRequests == Spec => []Safe
  <1>1. IInv => Safe
    BY TypeImplied, AnswersImplied DEF Safe
  <1> QED
    BY <1>1, Inductive, PTL

=============================================================================
