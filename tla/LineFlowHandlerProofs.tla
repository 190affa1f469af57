------------------------ MODULE LineFlowHandlerProofs ------------------------
(***************************************************************************)
(* Theorems about LineFlowHandler.  Types are right whatever the callers   *)
(* do; that lines are whole and none is lost holds for one caller, as in a *)
(* FileAgent.  (TLC shows it false for two.)                               *)
(*                                                                         *)
(* The argument: between calls part_line is the bytes after some newline   *)
(* of the flow, without a newline of its own; so during a call flow_str is *)
(* what follows some newline of the flow, its lines are lines of the flow, *)
(* and the lines before that newline have been handled.                    *)
(***************************************************************************)
EXTENDS LineFlowHandler, SequenceTheorems, FiniteSetTheorems, WellFoundedInduction, TLAPS

\* t is what follows the first n bytes of s, which are none or end a line.
Follows(t, s, n) ==
    /\ n \in 0..Len(s)
    /\ Len(t) = Len(s) - n
    /\ \A k \in 1..Len(t) : t[k] = s[n + k]
    /\ n = 0 \/ s[n] = NL

NoNL(t) == \A k \in 1..Len(t) : t[k] # NL

\* Each member of ls is a line of s.
Sound(ls, s) ==
    \A i \in 1..Len(ls) : \E a, b \in Nat : IsLine(s, a, b) /\ ls[i] = SubSeq(s, a, b)

\* Each line of the first n bytes of s is a member of ls.
Complete(ls, s, n) ==
    \A a, b \in Nat :
        IsLine(s, a, b) /\ b < n => Contains(ls, SubSeq(s, a, b))


(***************************************************************************)
(* The inductive invariant of one call, over the caller's own variables:   *)
(* it holds for any number of callers.  split_str has dealt with whole     *)
(* lines up to pos, and with all of flow_str when it ends.                 *)
(***************************************************************************)
SplitInv(c) ==
    pc[c] = "split" =>
        /\ pos[c] <= Len(flow_str[c]) + 1
        /\ pos[c] = 1 \/ flow_str[c][pos[c] - 1] = NL
        /\ Sound(lines[c], flow_str[c])
        /\ Complete(lines[c], flow_str[c], pos[c] - 1)

\* The lines do_handle is about to handle.
FullLines(c) == IF EndsInNewline(c) THEN lines[c] ELSE Front(lines[c])

HandleInv(c) ==
    pc[c] = "handle" =>
        /\ Sound(FullLines(c), flow_str[c])
        /\ Complete(FullLines(c), flow_str[c], Len(flow_str[c]))

\* The last token of a flow_str without a final newline is its rest.
RestInv(c) ==
    pc[c] \in {"handle", "keep"} /\ ~EndsInNewline(c) =>
        /\ Len(lines[c]) > 0
        /\ NoNL(Last(lines[c]))
        /\ \E n \in Nat : Follows(Last(lines[c]), flow_str[c], n)

CallInv(c) ==
    /\ pc[c] # "idle" => Len(flow_str[c]) > 0
    /\ pc[c] = "keep" => ~EndsInNewline(c)
    /\ SplitInv(c) /\ HandleInv(c) /\ RestInv(c)

LocalInv == TypeOK /\ \A c \in Caller : CallInv(c)

(***************************************************************************)
(* The inductive invariant of a flow, for one caller.                      *)
(***************************************************************************)
FlowInv(c) ==
    /\ Sound(handled, received[c])
    /\ pc[c] = "idle" =>
          /\ NoNL(part_line)
          /\ \E n \in Nat : Follows(part_line, received[c], n)
    /\ pc[c] \in {"idle", "keep"} => Complete(handled, received[c], Len(received[c]))
    /\ pc[c] \in {"split", "handle"} =>
          /\ part_line = <<>>
          /\ \E n \in Nat : /\ Follows(flow_str[c], received[c], n)
                           /\ Complete(handled, received[c], n)
    /\ pc[c] = "keep" => \E n \in Nat : Follows(flow_str[c], received[c], n)

IInv == LocalInv /\ \A c \in Caller : FlowInv(c)

-----------------------------------------------------------------------------
(***************************************************************************)
(* Lemmas on the strings.                                                  *)
(***************************************************************************)

\* A nonempty set of naturals has a least element.
LEMMA LeastNatural ==
    ASSUME NEW T, T \subseteq Nat, T # {}
    PROVE  \E x \in T : \A y \in T : x <= y
<1> DEFINE R == OpToRel(<, Nat)
<1>1. \E x \in T : \A y \in T : <<y, x>> \notin R
  BY NatLessThanWellFounded, WFMin
<1>2. \A x, y \in Nat : y < x => <<y, x>> \in R
  BY DEF OpToRel
<1> HIDE DEF R
<1>3. \A x, y \in T : <<y, x>> \notin R => ~(y < x)
  BY <1>2
<1>4. \E x \in T : \A y \in T : ~(y < x)
  BY <1>1, <1>3, Zenon
<1> QED
  BY <1>4

\* A set of naturals with 0 and the successor of each member holds them all.
LEMMA SetInduction ==
    ASSUME NEW T, T \subseteq Nat, 0 \in T, \A n \in T : n + 1 \in T
    PROVE  T = Nat
<1> SUFFICES ASSUME Nat \ T # {} PROVE FALSE
  OBVIOUS
<1>1. PICK n \in Nat \ T : \A m \in Nat \ T : n <= m
  BY LeastNatural
<1>2. n # 0 /\ n - 1 \in Nat
  OBVIOUS
<1>3. n - 1 \in T
  BY <1>1, <1>2
<1>4. (n - 1) + 1 \in T
  BY <1>3
<1> QED
  BY <1>1, <1>2, <1>4

\* getline's stop: the first newline, or the end of the string.
LEMMA TokenEndLemma ==
    ASSUME NEW s \in Line, NEW p \in 1..(Len(s) + 1)
    PROVE  /\ TokenEnd(s, p) \in p..(Len(s) + 1)
           /\ TokenEnd(s, p) = Len(s) + 1 \/ s[TokenEnd(s, p)] = NL
           /\ \A k \in p..(TokenEnd(s, p) - 1) : s[k] # NL
<1>1. Len(s) \in Nat
  BY DEF Line
<1> DEFINE T == {e \in p..(Len(s) + 1) : e = Len(s) + 1 \/ s[e] = NL}
<1>2. T \subseteq Nat /\ T # {}
  <2>1. Len(s) + 1 \in T
    BY <1>1
  <2> QED
    BY <1>1, <2>1
<1>3. PICK e \in T : \A y \in T : e <= y
  <2> HIDE DEF T
  <2> QED BY <1>2, LeastNatural
<1>4. \A k \in p..(e - 1) : s[k] # NL
  BY <1>1, <1>3
<1> DEFINE P(x) == /\ x = Len(s) + 1 \/ s[x] = NL
                   /\ \A k \in p..(x - 1) : s[k] # NL
<1>5. \E x \in p..(Len(s) + 1) : P(x)
  BY <1>3, <1>4
<1>6. TokenEnd(s, p) = CHOOSE x \in p..(Len(s) + 1) : P(x)
  BY DEF TokenEnd
<1> HIDE DEF P
<1>7. TokenEnd(s, p) \in p..(Len(s) + 1) /\ P(TokenEnd(s, p))
  BY <1>5, <1>6
<1> QED
  BY <1>7 DEF P

\* A slice of what follows n bytes is the slice n further on.
LEMMA SliceShift ==
    ASSUME NEW s \in Line, NEW t \in Line, NEW n \in Nat,
           \A k \in 1..Len(t) : t[k] = s[n + k], n + Len(t) <= Len(s),
           NEW a \in Nat, NEW b \in Nat, 1 <= a, b <= Len(t)
    PROVE  SubSeq(t, a, b) = SubSeq(s, n + a, n + b)
<1> DEFINE u == SubSeq(t, a, b)
           v == SubSeq(s, n + a, n + b)
<1>1. Len(s) \in Nat /\ Len(t) \in Nat
  BY DEF Line
<1>2. /\ u \in Seq(Byte)
      /\ Len(u) = IF a <= b THEN b - a + 1 ELSE 0
      /\ \A i \in 1..(b - a + 1) : u[i] = t[a + i - 1]
  <2>1. \A i \in a..b : t[i] \in Byte
    BY <1>1 DEF Line
  <2> QED
    BY <2>1, SubSeqProperties
<1>3. /\ v \in Seq(Byte)
      /\ Len(v) = IF a <= b THEN b - a + 1 ELSE 0
      /\ \A i \in 1..(b - a + 1) : v[i] = s[n + a + i - 1]
  <2>1. \A i \in (n + a)..(n + b) : s[i] \in Byte
    BY <1>1 DEF Line
  <2> HIDE DEF v
  <2>2. /\ v \in Seq(Byte)
        /\ Len(v) = IF n + a <= n + b THEN (n + b) - (n + a) + 1 ELSE 0
        /\ \A i \in 1..((n + b) - (n + a) + 1) : v[i] = s[(n + a) + i - 1]
    BY <2>1, SubSeqProperties DEF v
  <2> QED
    BY <2>2
<1> HIDE DEF u, v
<1>4. \A i \in 1..Len(u) : u[i] = v[i]
  <2> SUFFICES ASSUME NEW i \in 1..Len(u)
               PROVE  u[i] = v[i]
    OBVIOUS
  <2>1. i \in 1..(b - a + 1) /\ a + i - 1 \in 1..Len(t) /\ n + (a + i - 1) = n + a + i - 1
    BY <1>1, <1>2
  <2> QED
    BY <2>1, <1>2, <1>3
<1>5. u = v
  BY <1>2, <1>3, <1>4, SeqEqual
<1> QED
  BY <1>5 DEF u, v

\* A line of what follows n bytes is a line, n further on.
LEMMA LineShift ==
    ASSUME NEW s \in Line, NEW t \in Line, NEW n \in Nat, Follows(t, s, n),
           NEW a \in Nat, NEW b \in Nat, 1 <= a
    PROVE  IsLine(t, a, b) <=> IsLine(s, n + a, n + b)
<1>1. Len(s) \in Nat /\ Len(t) \in Nat /\ Len(s) = n + Len(t)
  BY DEF Line, Follows
<1>2. \A k \in 1..Len(t) : t[k] = s[n + k]
  BY DEF Follows
<1>3. (b < Len(t)) <=> (n + b < Len(s))
  BY <1>1
<1>4. ASSUME a <= b, b < Len(t)
      PROVE  /\ t[b + 1] = s[n + b + 1]
             /\ (a = 1 \/ t[a - 1] = NL) <=> (n + a = 1 \/ s[n + a - 1] = NL)
  <2>1. t[b + 1] = s[n + b + 1]
    BY <1>1, <1>2, <1>4
  <2>2. CASE a = 1
    <3>1. n + a - 1 = n
      BY <2>2
    <3>2. n = 0 \/ s[n] = NL
      BY DEF Follows
    <3> QED
      BY <2>1, <2>2, <3>1, <3>2
  <2>3. CASE a > 1
    <3>1. a - 1 \in 1..Len(t)
      BY <1>1, <1>4, <2>3
    <3>2. t[a - 1] = s[n + (a - 1)] /\ n + (a - 1) = n + a - 1
      BY <1>2, <3>1
    <3> QED
      BY <2>1, <2>3, <3>2
  <2> QED
    BY <2>2, <2>3
<1>5. ASSUME a <= b, b < Len(t)
      PROVE  (\A k \in a..b : t[k] # NL) <=> (\A k \in (n + a)..(n + b) : s[k] # NL)
  <2>1. \A k \in a..b : t[k] = s[n + k]
    BY <1>1, <1>2, <1>5
  <2>2. \A k \in (n + a)..(n + b) : k - n \in a..b /\ n + (k - n) = k
    OBVIOUS
  <2>3. \A k \in a..b : n + k \in (n + a)..(n + b)
    OBVIOUS
  <2> QED
    BY <2>1, <2>2, <2>3
<1>6. (a <= b) <=> (n + a <= n + b)
  OBVIOUS
<1> QED
  BY <1>1, <1>3, <1>4, <1>5, <1>6 DEF IsLine

\* What follows in what follows: the two distances add up.
LEMMA FollowsTrans ==
    ASSUME NEW s \in Line, NEW t \in Line, NEW u \in Line, NEW n \in Nat, NEW m \in Nat,
           Follows(t, s, n), Follows(u, t, m)
    PROVE  Follows(u, s, n + m)
<1>1. Len(s) \in Nat /\ Len(t) \in Nat /\ Len(u) \in Nat
  BY DEF Line
<1>2. n + m \in 0..Len(s) /\ Len(u) = Len(s) - (n + m)
  BY <1>1 DEF Follows
<1>3. \A k \in 1..Len(u) : u[k] = s[(n + m) + k]
  <2> TAKE k \in 1..Len(u)
  <2>1. m + k \in 1..Len(t) /\ n + (m + k) = (n + m) + k
    BY <1>1 DEF Follows
  <2> QED
    BY <2>1 DEF Follows
<1>4. n + m = 0 \/ s[n + m] = NL
  <2>1. CASE m = 0
    BY <2>1 DEF Follows
  <2>2. CASE m > 0
    <3>1. m \in 1..Len(t) /\ t[m] = NL
      BY <1>1, <2>2 DEF Follows
    <3> QED
      BY <3>1 DEF Follows
  <2> QED
    BY <2>1, <2>2
<1> QED
  BY <1>2, <1>3, <1>4 DEF Follows

\* Bytes that arrive later leave a line a line, and make no line before them.
LEMMA LineStable ==
    ASSUME NEW s \in Line, NEW t \in Line, NEW a \in Nat, NEW b \in Nat, b < Len(s)
    PROVE  /\ IsLine(s \o t, a, b) <=> IsLine(s, a, b)
           /\ 1 <= a => SubSeq(s \o t, a, b) = SubSeq(s, a, b)
<1>1. Len(s) \in Nat /\ Len(t) \in Nat
  BY DEF Line
<1>2. /\ s \o t \in Line
      /\ Len(s \o t) = Len(s) + Len(t)
      /\ \A i \in 1..Len(s) : (s \o t)[i] = s[i]
  BY <1>1, ConcatProperties DEF Line
<1>3. IsLine(s \o t, a, b) <=> IsLine(s, a, b)
  <2> DEFINE st == s \o t
  <2>1. b < Len(st)
    BY <1>1, <1>2
  <2>2. ASSUME 1 <= a, a <= b
        PROVE  /\ (a = 1 \/ st[a - 1] = NL) <=> (a = 1 \/ s[a - 1] = NL)
               /\ (\A k \in a..b : st[k] # NL) <=> (\A k \in a..b : s[k] # NL)
               /\ st[b + 1] = s[b + 1]
    <3>1. a > 1 => st[a - 1] = s[a - 1]
      BY <1>1, <1>2, <2>2
    <3>2. \A k \in a..b : st[k] = s[k]
      BY <1>1, <1>2, <2>2
    <3>3. st[b + 1] = s[b + 1]
      BY <1>1, <1>2, <2>2
    <3> QED
      BY <2>2, <3>1, <3>2, <3>3
  <2> HIDE DEF st
  <2>3. IsLine(st, a, b) <=> IsLine(s, a, b)
    BY <2>1, <2>2 DEF IsLine
  <2> QED
    BY <2>3 DEF st
<1>4. ASSUME 1 <= a
      PROVE  SubSeq(s \o t, a, b) = SubSeq(s, a, b)
  <2>1. \A k \in 1..Len(s) : s[k] = (s \o t)[0 + k]
    BY <1>2
  <2>2. SubSeq(s, a, b) = SubSeq(s \o t, 0 + a, 0 + b)
    BY <1>1, <1>2, <1>4, <2>1, SliceShift
  <2>3. 0 + a = a /\ 0 + b = b
    OBVIOUS
  <2> QED
    BY <2>2, <2>3, Zenon
<1> QED
  BY <1>3, <1>4

\* Lines of what follows are lines.
LEMMA SoundShift ==
    ASSUME NEW s \in Line, NEW t \in Line, NEW n \in Nat, Follows(t, s, n),
           NEW ls \in Seq(Line), Sound(ls, t)
    PROVE  Sound(ls, s)
<1> SUFFICES ASSUME NEW i \in 1..Len(ls)
             PROVE  \E a, b \in Nat : IsLine(s, a, b) /\ ls[i] = SubSeq(s, a, b)
  BY DEF Sound
<1>1. PICK a \in Nat, b \in Nat : IsLine(t, a, b) /\ ls[i] = SubSeq(t, a, b)
  BY DEF Sound
<1>2. 1 <= a /\ b <= Len(t) /\ Len(t) \in Nat /\ Len(s) \in Nat
  BY <1>1 DEF IsLine, Line
<1>3. IsLine(s, n + a, n + b)
  BY <1>1, <1>2, LineShift
<1>4. n + Len(t) <= Len(s) /\ \A k \in 1..Len(t) : t[k] = s[n + k]
  BY <1>2 DEF Follows
<1>5. SubSeq(t, a, b) = SubSeq(s, n + a, n + b)
  BY <1>2, <1>4, SliceShift
<1>6. n + a \in Nat /\ n + b \in Nat
  OBVIOUS
<1> QED
  BY <1>1, <1>3, <1>5, <1>6

\* Handling more lines of s leaves what has been handled lines of s.
LEMMA SoundConcat ==
    ASSUME NEW s \in Line, NEW h \in Seq(Line), NEW ls \in Seq(Line),
           Sound(h, s), Sound(ls, s)
    PROVE  Sound(h \o ls, s)
<1>1. /\ Len(h) \in Nat /\ Len(ls) \in Nat
      /\ Len(h \o ls) = Len(h) + Len(ls)
      /\ \A i \in 1..(Len(h) + Len(ls)) :
            (h \o ls)[i] = IF i <= Len(h) THEN h[i] ELSE ls[i - Len(h)]
  BY ConcatProperties
<1> SUFFICES ASSUME NEW i \in 1..(Len(h) + Len(ls))
             PROVE  \E a, b \in Nat : IsLine(s, a, b) /\ (h \o ls)[i] = SubSeq(s, a, b)
  BY <1>1 DEF Sound
<1>2. CASE i <= Len(h)
  <2>1. i \in 1..Len(h) /\ (h \o ls)[i] = h[i]
    BY <1>1, <1>2
  <2> QED
    BY <2>1 DEF Sound
<1>3. CASE i > Len(h)
  <2>1. i - Len(h) \in 1..Len(ls) /\ (h \o ls)[i] = ls[i - Len(h)]
    BY <1>1, <1>3
  <2> QED
    BY <2>1 DEF Sound
<1>4. Len(h) \in Nat /\ i \in Int
  BY <1>1
<1>5. i <= Len(h) \/ i > Len(h)
  BY <1>4
<1> QED
  BY <1>2, <1>3, <1>5, Zenon

LEMMA ContainsConcat ==
    ASSUME NEW h \in Seq(Line), NEW ls \in Seq(Line), NEW x,
           Contains(h, x) \/ Contains(ls, x)
    PROVE  Contains(h \o ls, x)
<1>1. /\ Len(h) \in Nat /\ Len(ls) \in Nat
      /\ Len(h \o ls) = Len(h) + Len(ls)
      /\ \A i \in 1..(Len(h) + Len(ls)) :
            (h \o ls)[i] = IF i <= Len(h) THEN h[i] ELSE ls[i - Len(h)]
  BY ConcatProperties
<1>2. CASE Contains(h, x)
  <2>1. PICK i \in 1..Len(h) : h[i] = x
    BY <1>2 DEF Contains
  <2>2. i \in 1..Len(h \o ls) /\ (h \o ls)[i] = x
    BY <1>1, <2>1
  <2> QED
    BY <2>2 DEF Contains
<1>3. CASE Contains(ls, x)
  <2>1. PICK i \in 1..Len(ls) : ls[i] = x
    BY <1>3 DEF Contains
  <2>2. /\ Len(h) + i \in 1..Len(h \o ls)
        /\ (Len(h) + i) - Len(h) = i
        /\ ~(Len(h) + i <= Len(h))
    BY <1>1
  <2>3. (h \o ls)[Len(h) + i] = x
    BY <1>1, <2>1, <2>2
  <2> QED
    BY <2>2, <2>3 DEF Contains
<1> QED
  BY <1>2, <1>3

\* If the lines before what follows were handled, handling its lines is enough.
LEMMA CompleteShift ==
    ASSUME NEW s \in Line, NEW t \in Line, NEW n \in Nat, Follows(t, s, n),
           NEW h \in Seq(Line), NEW ls \in Seq(Line),
           Complete(h, s, n), Complete(ls, t, Len(t))
    PROVE  Complete(h \o ls, s, Len(s))
<1> SUFFICES ASSUME NEW a \in Nat, NEW b \in Nat, IsLine(s, a, b)
             PROVE  Contains(h \o ls, SubSeq(s, a, b))
  BY DEF Complete
<1>1. Len(s) \in Nat /\ Len(t) \in Nat /\ Len(s) = n + Len(t)
  BY DEF Line, Follows
<1>2. 1 <= a /\ a <= b /\ b < Len(s) /\ (\A k \in a..b : s[k] # NL)
  BY DEF IsLine
<1>3. CASE b < n
  <2>1. Contains(h, SubSeq(s, a, b))
    BY <1>3 DEF Complete
  <2> QED
    BY <2>1, ContainsConcat
<1>4. CASE b >= n
  <2>1. a > n
    <3>1. n \notin a..b
      BY <1>2 DEF Follows
    <3> QED
      BY <1>4, <3>1
  <2> DEFINE i == a - n
             j == b - n
  <2>2. /\ i \in Nat /\ j \in Nat /\ 1 <= i /\ j < Len(t)
        /\ n + i = a /\ n + j = b
    BY <1>1, <1>2, <1>4, <2>1
  <2> HIDE DEF i, j
  <2>3. IsLine(t, i, j)
    BY <2>2, LineShift
  <2>4. SubSeq(t, i, j) = SubSeq(s, a, b)
    <3>1. n + Len(t) <= Len(s) /\ \A k \in 1..Len(t) : t[k] = s[n + k]
      BY <1>1 DEF Follows
    <3>2. SubSeq(t, i, j) = SubSeq(s, n + i, n + j)
      BY <1>1, <2>2, <3>1, SliceShift
    <3> QED
      BY <2>2, <3>2, Zenon
  <2>5. Contains(ls, SubSeq(s, a, b))
    BY <2>2, <2>3, <2>4 DEF Complete
  <2> QED
    BY <2>5, ContainsConcat
<1> QED
  BY <1>3, <1>4

\* Bytes that arrive later change neither.
LEMMA SoundStable ==
    ASSUME NEW s \in Line, NEW t \in Line, NEW h \in Seq(Line), Sound(h, s)
    PROVE  Sound(h, s \o t)
<1> SUFFICES ASSUME NEW i \in 1..Len(h)
             PROVE  \E a, b \in Nat : IsLine(s \o t, a, b) /\ h[i] = SubSeq(s \o t, a, b)
  BY DEF Sound
<1>1. PICK a \in Nat, b \in Nat : IsLine(s, a, b) /\ h[i] = SubSeq(s, a, b)
  BY DEF Sound
<1>2. b < Len(s) /\ 1 <= a
  BY <1>1 DEF IsLine
<1> QED
  BY <1>1, <1>2, LineStable

LEMMA CompleteStable ==
    ASSUME NEW s \in Line, NEW t \in Line, NEW h \in Seq(Line), Complete(h, s, Len(s)),
           NEW n \in Nat, n <= Len(s)
    PROVE  Complete(h, s \o t, n)
<1> SUFFICES ASSUME NEW a \in Nat, NEW b \in Nat, IsLine(s \o t, a, b), b < n
             PROVE  Contains(h, SubSeq(s \o t, a, b))
  BY DEF Complete
<1>1. b < Len(s) /\ 1 <= a
  <2>1. Len(s) \in Nat
    BY DEF Line
  <2> QED
    BY <2>1 DEF IsLine
<1>2. IsLine(s, a, b) /\ SubSeq(s \o t, a, b) = SubSeq(s, a, b)
  BY <1>1, LineStable
<1>3. Contains(h, SubSeq(s, a, b))
  BY <1>1, <1>2 DEF Complete
<1> QED
  BY <1>2, <1>3, Zenon

-----------------------------------------------------------------------------
(***************************************************************************)
(* One round of split_str, at the get position p, on a nonempty string s   *)
(* whose lines before p are ls.                                            *)
(***************************************************************************)

\* A slice of bytes is a string of its length.
LEMMA SliceType ==
    ASSUME NEW s \in Line, NEW a \in Nat, NEW b \in Int, 1 <= a, b <= Len(s)
    PROVE  /\ SubSeq(s, a, b) \in Line
           /\ Len(SubSeq(s, a, b)) = IF a <= b THEN b - a + 1 ELSE 0
           /\ \A k \in 1..(b - a + 1) : SubSeq(s, a, b)[k] = s[a + k - 1]
<1>1. \A k \in a..b : s[k] \in Byte
  BY DEF Line
<1> QED
  BY <1>1, SubSeqProperties DEF Line

LEMMA PushBack ==
    ASSUME NEW ls \in Seq(Line), NEW temp \in Line
    PROVE  /\ temp = <<>> <=> Len(temp) = 0
           /\ push_back(ls, temp) \in Seq(Line)
           /\ temp = <<>> => push_back(ls, temp) = ls
           /\ temp # <<>> =>
                 /\ Len(push_back(ls, temp)) = Len(ls) + 1
                 /\ \A i \in 1..Len(ls) : push_back(ls, temp)[i] = ls[i]
                 /\ push_back(ls, temp)[Len(ls) + 1] = temp
<1>1. temp = <<>> <=> Len(temp) = 0
  BY EmptySeq DEF Line
<1> QED
  BY <1>1, AppendProperties DEF push_back

\* A line that ends at or after p - 1 starts at or after p.
LEMMA LineFromPos ==
    ASSUME NEW s \in Line, NEW p \in 1..(Len(s) + 1), p = 1 \/ s[p - 1] = NL,
           NEW a \in Nat, NEW b \in Nat, IsLine(s, a, b), ~(b < p - 1)
    PROVE  p <= a
<1>1. 1 <= a /\ a <= b /\ \A k \in a..b : s[k] # NL
  BY DEF IsLine
<1>2. p - 1 \notin a..b \/ p = 1
  BY <1>1
<1> QED
  BY <1>1, <1>2 DEF Line

\* The only line that ends in the token of a round, which ends at a newline, is
\* the token.
LEMMA LineOfRound ==
    ASSUME NEW s \in Line, NEW p \in 1..(Len(s) + 1), p = 1 \/ s[p - 1] = NL,
           NEW e \in p..Len(s), s[e] = NL, \A k \in p..(e - 1) : s[k] # NL,
           NEW a \in Nat, NEW b \in Nat, IsLine(s, a, b), b < e, ~(b < p - 1)
    PROVE  a = p /\ b = e - 1
<1>1. /\ 1 <= a /\ a <= b /\ b < Len(s) /\ s[b + 1] = NL
      /\ a = 1 \/ s[a - 1] = NL
      /\ Len(s) \in Nat
  BY DEF IsLine, Line
<1>2. p <= a
  BY LineFromPos
<1>3. b + 1 \notin p..(e - 1)
  BY <1>1
<1>4. a > p => a - 1 \notin p..(e - 1)
  BY <1>1, <1>2
<1> QED
  BY <1>1, <1>2, <1>3, <1>4

LEMMA SplitRound ==
    ASSUME NEW s \in Line, NEW p \in 1..(Len(s) + 1), p = 1 \/ s[p - 1] = NL,
           NEW ls \in Seq(Line), Sound(ls, s), Complete(ls, s, p - 1),
           TokenEnd(s, p) <= Len(s)
    PROVE  LET e  == TokenEnd(s, p)
               l2 == push_back(ls, SubSeq(s, p, e - 1))
           IN  Sound(l2, s) /\ Complete(l2, s, e)
<1> DEFINE e == TokenEnd(s, p)
           temp == SubSeq(s, p, e - 1)
           l2 == push_back(ls, temp)
<1>1. /\ Len(s) \in Nat /\ e \in p..Len(s) /\ s[e] = NL
      /\ \A k \in p..(e - 1) : s[k] # NL
  BY TokenEndLemma DEF Line
<1> HIDE DEF e
<1>2. /\ temp \in Line
      /\ Len(temp) = IF p <= e - 1 THEN (e - 1) - p + 1 ELSE 0
  BY <1>1, SliceType
<1>3. e > p => IsLine(s, p, e - 1)
  BY <1>1 DEF IsLine
<1>4. \A a, b \in Nat : IsLine(s, a, b) /\ b < e /\ ~(b < p - 1) => a = p /\ b = e - 1
  BY <1>1, LineOfRound
<1>5. CASE e = p
  <2>1. l2 = ls
    <3>1. Len(temp) = 0
      BY <1>1, <1>2, <1>5
    <3> HIDE DEF temp
    <3> QED
      BY <1>2, <3>1, PushBack
  <2>2. Complete(ls, s, e)
    <3> SUFFICES ASSUME NEW a \in Nat, NEW b \in Nat, IsLine(s, a, b), b < e
                 PROVE  Contains(ls, SubSeq(s, a, b))
      BY DEF Complete
    <3>1. b < p - 1
      BY <1>4, <1>5 DEF IsLine
    <3> QED
      BY <3>1 DEF Complete
  <2> QED
    BY <2>1, <2>2 DEF e
<1>6. CASE e > p
  <2>1. /\ Len(ls) \in Nat
        /\ Len(l2) = Len(ls) + 1
        /\ \A i \in 1..Len(ls) : l2[i] = ls[i]
        /\ l2[Len(ls) + 1] = temp
    <3>1. Len(temp) # 0
      BY <1>1, <1>2, <1>6
    <3> HIDE DEF temp
    <3>2. temp # <<>>
      BY <1>2, <3>1, PushBack
    <3>3. Len(ls) \in Nat
      OBVIOUS
    <3> QED
      BY <1>2, <3>2, <3>3, PushBack, Zenon
  <2> HIDE DEF l2
  <2>2. Sound(l2, s)
    <3> SUFFICES ASSUME NEW i \in 1..(Len(ls) + 1)
                 PROVE  \E a, b \in Nat : IsLine(s, a, b) /\ l2[i] = SubSeq(s, a, b)
      BY <2>1 DEF Sound
    <3>1. CASE i \in 1..Len(ls)
      BY <2>1, <3>1 DEF Sound
    <3>2. CASE i = Len(ls) + 1
      <4>1. p \in Nat /\ e - 1 \in Nat
        BY <1>1, <1>6
      <4> QED
        BY <1>3, <1>6, <2>1, <3>2, <4>1
    <3>3. i \in 1..Len(ls) \/ i = Len(ls) + 1
      BY <2>1
    <3> QED
      BY <3>1, <3>2, <3>3, Zenon
  <2>3. Complete(l2, s, e)
    <3> SUFFICES ASSUME NEW a \in Nat, NEW b \in Nat, IsLine(s, a, b), b < e
                 PROVE  Contains(l2, SubSeq(s, a, b))
      BY DEF Complete
    <3>1. CASE b < p - 1
      <4>1. PICK i \in 1..Len(ls) : ls[i] = SubSeq(s, a, b)
        BY <3>1 DEF Complete, Contains
      <4>2. i \in 1..Len(l2) /\ l2[i] = ls[i]
        BY <2>1
      <4> QED
        BY <4>1, <4>2 DEF Contains
    <3>2. CASE ~(b < p - 1)
      <4>1. SubSeq(s, a, b) = temp
        BY <1>4, <3>2
      <4>2. Len(ls) + 1 \in 1..Len(l2)
        BY <2>1
      <4> HIDE DEF temp
      <4> QED
        BY <2>1, <4>1, <4>2 DEF Contains
    <3> QED
      BY <3>1, <3>2
  <2> QED
    BY <2>2, <2>3 DEF l2, e
<1> QED
  BY <1>1, <1>5, <1>6

LEMMA SplitEnd ==
    ASSUME NEW s \in Line, Len(s) > 0, NEW p \in 1..(Len(s) + 1), p = 1 \/ s[p - 1] = NL,
           NEW ls \in Seq(Line), Complete(ls, s, p - 1),
           TokenEnd(s, p) = Len(s) + 1
    PROVE  LET l2 == push_back(ls, SubSeq(s, p, TokenEnd(s, p) - 1))
           IN  /\ Complete(ls, s, Len(s))
               /\ s[Len(s)] = NL => l2 = ls
               /\ s[Len(s)] # NL =>
                     /\ Len(l2) > 0 /\ Front(l2) = ls
                     /\ NoNL(Last(l2))
                     /\ \E n \in Nat : Follows(Last(l2), s, n)
<1> DEFINE temp == SubSeq(s, p, Len(s))
           l2 == push_back(ls, temp)
<1>1. /\ Len(s) \in Nat
      /\ TokenEnd(s, p) - 1 = Len(s)
      /\ \A k \in p..Len(s) : s[k] # NL
  <2>1. Len(s) \in Nat
    BY DEF Line
  <2>2. (Len(s) + 1) - 1 = Len(s)
    BY <2>1
  <2>3. \A k \in p..(TokenEnd(s, p) - 1) : s[k] # NL
    BY TokenEndLemma
  <2> QED
    BY <2>1, <2>2, <2>3
<1>2. /\ temp \in Line
      /\ Len(temp) = Len(s) - p + 1
      /\ \A k \in 1..(Len(s) - p + 1) : temp[k] = s[p + k - 1]
  BY <1>1, SliceType
<1>3. Complete(ls, s, Len(s))
  <2> SUFFICES ASSUME NEW a \in Nat, NEW b \in Nat, IsLine(s, a, b)
               PROVE  Contains(ls, SubSeq(s, a, b))
    BY DEF Complete
  <2>1. 1 <= a /\ a <= b /\ b < Len(s) /\ s[b + 1] = NL
    BY DEF IsLine
  <2>2. b + 1 \notin p..Len(s)
    BY <1>1, <2>1
  <2>3. CASE ~(b < p - 1)
    <3>1. p <= a
      BY <2>3, LineFromPos
    <3> QED
      BY <1>1, <2>1, <2>2, <3>1
  <2> QED
    BY <2>3 DEF Complete
<1>4. ASSUME s[Len(s)] = NL
      PROVE  l2 = ls
  <2>1. Len(s) \notin p..Len(s)
    BY <1>1, <1>4
  <2>2. Len(temp) = 0
    BY <1>1, <1>2, <2>1
  <2> HIDE DEF temp
  <2> QED
    BY <1>2, <2>2, PushBack
<1>5. ASSUME s[Len(s)] # NL
      PROVE  /\ Len(l2) > 0 /\ Front(l2) = ls
             /\ NoNL(Last(l2))
             /\ \E n \in Nat : Follows(Last(l2), s, n)
  <2>1. p <= Len(s)
    BY <1>1, <1>5
  <2>2. Len(temp) > 0
    BY <1>1, <1>2, <2>1
  <2> HIDE DEF temp
  <2>3. /\ l2 \in Seq(Line) /\ Len(ls) \in Nat
        /\ Len(l2) = Len(ls) + 1
        /\ \A i \in 1..Len(ls) : l2[i] = ls[i]
        /\ l2[Len(ls) + 1] = temp
    <3>1. Len(temp) # 0
      BY <2>2
    <3>2. temp # <<>>
      BY <1>2, <3>1, PushBack
    <3>3. Len(ls) \in Nat
      OBVIOUS
    <3> QED
      BY <1>2, <3>2, <3>3, PushBack, Zenon
  <2> HIDE DEF l2
  <2>4. Last(l2) = temp
    BY <2>3 DEF Last
  <2>5. Front(l2) = ls
    <3>1. Len(l2) - 1 = Len(ls)
      BY <2>3
    <3>2. \A i \in 1..Len(ls) : l2[i] \in Line
      BY <2>3
    <3>3. /\ SubSeq(l2, 1, Len(ls)) \in Seq(Line)
          /\ Len(SubSeq(l2, 1, Len(ls))) = Len(ls)
          /\ \A i \in 1..Len(ls) : SubSeq(l2, 1, Len(ls))[i] = l2[i]
      <4>1. /\ SubSeq(l2, 1, Len(ls)) \in Seq(Line)
            /\ Len(SubSeq(l2, 1, Len(ls))) = IF 1 <= Len(ls) THEN Len(ls) - 1 + 1 ELSE 0
            /\ \A i \in 1..(Len(ls) - 1 + 1) : SubSeq(l2, 1, Len(ls))[i] = l2[1 + i - 1]
        BY <2>3, <3>2, SubSeqProperties
      <4>2. Len(ls) - 1 + 1 = Len(ls) /\ \A i \in 1..Len(ls) : 1 + i - 1 = i
        BY <2>3
      <4> QED
        BY <2>3, <4>1, <4>2
    <3>4. SubSeq(l2, 1, Len(ls)) = ls
      BY <2>3, <3>3, SeqEqual
    <3> QED
      BY <3>1, <3>4 DEF Front
  <2>6. NoNL(temp)
    BY <1>1, <1>2 DEF NoNL
  <2>7. Follows(temp, s, p - 1)
    <3>1. p - 1 \in 0..Len(s) /\ Len(temp) = Len(s) - (p - 1)
      BY <1>1, <1>2
    <3>2. \A k \in 1..Len(temp) : temp[k] = s[(p - 1) + k]
      <4>1. \A k \in 1..Len(temp) : k \in 1..(Len(s) - p + 1) /\ (p - 1) + k = p + k - 1
        BY <1>1, <1>2
      <4> QED
        BY <1>2, <4>1
    <3> QED
      BY <3>1, <3>2 DEF Follows
  <2>8. p - 1 \in Nat
    BY <1>1
  <2> QED
    BY <2>3, <2>4, <2>5, <2>6, <2>7, <2>8
<1> QED
  BY <1>1, <1>3, <1>4, <1>5

-----------------------------------------------------------------------------
(***************************************************************************)
(* The steps of a call, for any number of callers.                         *)
(***************************************************************************)

LEMMA ChunkType ==
    ASSUME NEW b \in Chunk
    PROVE  b \in Line /\ Len(b) > 0
<1>1. PICK n \in 1..BufSize : b \in [1..n -> Byte]
  BY DEF Chunk
<1>2. n \in Nat /\ n > 0
  BY BufSizeAssumption
<1> QED
  BY <1>1, <1>2 DEF Line

\* A step of another caller does not touch a caller's own variables.
LEMMA CallFrame ==
    ASSUME NEW c \in Caller, CallInv(c),
           pc'[c] = pc[c], flow_str'[c] = flow_str[c], pos'[c] = pos[c], lines'[c] = lines[c]
    PROVE  CallInv(c)'
BY DEF CallInv, SplitInv, HandleInv, RestInv, FullLines, EndsInNewline

LEMMA DoHandleLocal ==
    ASSUME LocalInv, NEW c \in Caller, NEW b \in Chunk, do_handle(c, b)
    PROVE  TypeOK' /\ CallInv(c)'
<1>1. b \in Line /\ Len(b) > 0 /\ Len(b) \in Nat
  BY ChunkType DEF Line
<1>2. /\ part_line \o b \in Line /\ received[c] \o b \in Line
      /\ Len(part_line \o b) = Len(part_line) + Len(b)
      /\ Len(part_line) \in Nat
  BY <1>1, ConcatProperties DEF LocalInv, TypeOK, Line
<1>3. <<>> \in Seq(Line) /\ <<>> \in Line /\ Len(<<>>) = 0
  BY EmptySeq DEF Line
<1>4. /\ pc' \in [Caller -> {"idle", "split", "handle", "keep"}]
      /\ pc'[c] = "split" /\ flow_str'[c] = part_line \o b /\ pos'[c] = 1 /\ lines'[c] = <<>>
      /\ flow_str' \in [Caller -> Line] /\ pos' \in [Caller -> Nat \ {0}]
      /\ received' \in [Caller -> Line] /\ lines' \in [Caller -> Seq(Line)]
      /\ part_line' \in Line /\ handled' \in Seq(Line)
  BY <1>2, <1>3 DEF do_handle, LocalInv, TypeOK
<1>5. \A d \in Caller : pos'[d] <= Len(flow_str'[d]) + 2
  BY <1>1, <1>2, <1>4 DEF do_handle, LocalInv, TypeOK
<1>6. Sound(<<>>, part_line \o b) /\ Complete(<<>>, part_line \o b, 1 - 1)
  BY <1>3 DEF Sound, Complete
<1> QED
  BY <1>1, <1>2, <1>4, <1>5, <1>6 DEF TypeOK, CallInv, SplitInv, HandleInv, RestInv

LEMMA SplitStrLocal ==
    ASSUME LocalInv, NEW c \in Caller, split_str(c)
    PROVE  TypeOK' /\ CallInv(c)'
<1> DEFINE s == flow_str[c]
           p == pos[c]
           e == TokenEnd(s, p)
           l2 == push_back(lines[c], SubSeq(s, p, e - 1))
<1>1. /\ s \in Line /\ Len(s) \in Nat /\ Len(s) > 0
      /\ p \in 1..(Len(s) + 1)
      /\ p = 1 \/ s[p - 1] = NL
      /\ lines[c] \in Seq(Line)
      /\ Sound(lines[c], s) /\ Complete(lines[c], s, p - 1)
  BY DEF LocalInv, TypeOK, CallInv, SplitInv, split_str, Line
<1>2. /\ e \in p..(Len(s) + 1)
      /\ e = Len(s) + 1 \/ s[e] = NL
  BY <1>1, TokenEndLemma
<1>3. l2 \in Seq(Line)
  <2> HIDE DEF s, p, e
  <2>1. p \in Nat /\ e - 1 \in Int /\ 1 <= p /\ e - 1 <= Len(s)
    BY <1>1, <1>2
  <2>2. SubSeq(s, p, e - 1) \in Line
    BY <1>1, <2>1, SliceType
  <2> QED
    BY <1>1, <2>2, PushBack
<1>4. /\ lines' = [lines EXCEPT ![c] = l2]
      /\ pos' = [pos EXCEPT ![c] = e + 1]
      /\ pc' = [pc EXCEPT ![c] = IF e = Len(s) + 1 THEN "handle" ELSE "split"]
      /\ UNCHANGED <<part_line, handled, received, flow_str>>
  BY DEF split_str
<1>5. e <= Len(s) => Sound(l2, s) /\ Complete(l2, s, e)
  BY <1>1, SplitRound
<1>6. e = Len(s) + 1 =>
        /\ Complete(lines[c], s, Len(s))
        /\ s[Len(s)] = NL => l2 = lines[c]
        /\ s[Len(s)] # NL =>
              /\ Len(l2) > 0 /\ Front(l2) = lines[c]
              /\ NoNL(Last(l2))
              /\ \E n \in Nat : Follows(Last(l2), s, n)
  BY <1>1, SplitEnd
<1> HIDE DEF e, l2
<1>7. TypeOK'
  <2>1. e + 1 \in Nat \ {0} /\ e + 1 <= Len(s) + 2
    BY <1>1, <1>2
  <2> QED
    BY <1>3, <1>4, <2>1 DEF LocalInv, TypeOK
<1>8. /\ lines'[c] = l2 /\ pos'[c] = e + 1 /\ flow_str'[c] = s
      /\ pc'[c] = IF e = Len(s) + 1 THEN "handle" ELSE "split"
  BY <1>4 DEF LocalInv, TypeOK
<1> HIDE DEF s, p
<1>9. CASE e <= Len(s)
  <2>1. /\ pc'[c] = "split" /\ pos'[c] <= Len(s) + 1 /\ pos'[c] - 1 = e
        /\ s[e] = NL
    BY <1>1, <1>2, <1>8, <1>9
  <2> QED
    BY <1>1, <1>5, <1>7, <1>8, <1>9, <2>1 DEF CallInv, SplitInv, HandleInv, RestInv
<1>10. CASE e = Len(s) + 1
  <2>1. pc'[c] = "handle"
    BY <1>8, <1>10
  <2>2. EndsInNewline(c)' <=> s[Len(s)] = NL
    BY <1>8 DEF EndsInNewline
  <2>3. FullLines(c)' = lines[c]
    BY <1>6, <1>8, <1>10, <2>2 DEF FullLines
  <2>4. HandleInv(c)'
    BY <1>1, <1>6, <1>8, <1>10, <2>3 DEF HandleInv
  <2>5. RestInv(c)'
    BY <1>6, <1>8, <1>10, <2>2 DEF RestInv
  <2> QED
    BY <1>1, <1>7, <1>8, <2>1, <2>4, <2>5 DEF CallInv, SplitInv
<1> QED
  BY <1>1, <1>2, <1>7, <1>9, <1>10

LEMMA FrontType ==
    ASSUME NEW ls \in Seq(Line)
    PROVE  Front(ls) \in Seq(Line)
<1>1. Len(ls) \in Nat /\ \A i \in 1..(Len(ls) - 1) : ls[i] \in Line
  OBVIOUS
<1>2. Len(ls) - 1 \in Int
  BY <1>1
<1> QED
  BY <1>1, <1>2, SubSeqProperties DEF Front

LEMMA HandleAllLinesLocal ==
    ASSUME LocalInv, NEW c \in Caller, HandleAllLines(c)
    PROVE  TypeOK' /\ CallInv(c)'
<1>1. TypeOK'
  <2>1. handled \o lines[c] \in Seq(Line)
    BY ConcatProperties DEF LocalInv, TypeOK
  <2> QED
    BY <2>1 DEF HandleAllLines, LocalInv, TypeOK
<1>2. pc'[c] = "idle"
  BY DEF HandleAllLines, LocalInv, TypeOK
<1> QED
  BY <1>1, <1>2 DEF CallInv, SplitInv, HandleInv, RestInv

LEMMA HandleFullLinesLocal ==
    ASSUME LocalInv, NEW c \in Caller, HandleFullLines(c)
    PROVE  TypeOK' /\ CallInv(c)'
<1>1. TypeOK'
  <2>1. Front(lines[c]) \in Seq(Line)
    BY FrontType DEF LocalInv, TypeOK
  <2>2. handled \o Front(lines[c]) \in Seq(Line)
    BY <2>1, ConcatProperties DEF LocalInv, TypeOK
  <2> QED
    BY <2>2 DEF HandleFullLines, Front, LocalInv, TypeOK
<1>2. /\ pc'[c] = "keep" /\ pc[c] = "handle" /\ ~EndsInNewline(c)
      /\ flow_str' = flow_str /\ pos' = pos /\ lines' = lines
  BY DEF HandleFullLines, LocalInv, TypeOK
<1>3. EndsInNewline(c)' = EndsInNewline(c)
  BY <1>2 DEF EndsInNewline
<1> QED
  BY <1>1, <1>2, <1>3 DEF LocalInv, CallInv, SplitInv, HandleInv, RestInv

LEMMA KeepPartLineLocal ==
    ASSUME LocalInv, NEW c \in Caller, KeepPartLine(c)
    PROVE  TypeOK' /\ CallInv(c)'
<1>1. TypeOK'
  <2>1. Len(lines[c]) > 0 /\ lines[c] \in Seq(Line)
    BY DEF KeepPartLine, LocalInv, CallInv, RestInv, TypeOK
  <2>2. lines[c][Len(lines[c])] \in Line
    BY <2>1
  <2> QED
    BY <2>2 DEF KeepPartLine, LocalInv, TypeOK
<1>2. pc'[c] = "idle"
  BY DEF KeepPartLine, LocalInv, TypeOK
<1> QED
  BY <1>1, <1>2 DEF CallInv, SplitInv, HandleInv, RestInv

\* A step of c leaves the pc and the variables of every other caller.
LEMMA OnlyOwnVariables ==
    ASSUME TypeOK, NEW c \in Caller, NEW d \in Caller, d # c,
           (\E b \in Chunk : do_handle(c, b)) \/ Step(c)
    PROVE  /\ pc'[d] = pc[d] /\ flow_str'[d] = flow_str[d]
           /\ pos'[d] = pos[d] /\ lines'[d] = lines[d]
BY DEF TypeOK, Step, do_handle, split_str, HandleAllLines, HandleFullLines, KeepPartLine

LEMMA LocalInit == Init => LocalInv
<1> SUFFICES ASSUME Init
             PROVE  LocalInv
  OBVIOUS
<1>1. <<>> \in Seq(Line) /\ <<>> \in Line /\ Len(<<>>) = 0
  BY EmptySeq DEF Line
<1>2. TypeOK
  BY <1>1 DEF Init, TypeOK
<1>3. \A c \in Caller : CallInv(c)
  BY DEF Init, CallInv, SplitInv, HandleInv, RestInv
<1> QED
  BY <1>2, <1>3 DEF LocalInv

LEMMA LocalStep ==
    ASSUME LocalInv, [Next]_vars
    PROVE  LocalInv'
<1>1. ASSUME NEW c \in Caller, NEW b \in Chunk, do_handle(c, b)
      PROVE  LocalInv'
  <2>1. TypeOK' /\ CallInv(c)'
    BY <1>1, DoHandleLocal
  <2>2. \A d \in Caller : d # c => CallInv(d)'
    BY <1>1, OnlyOwnVariables, CallFrame DEF LocalInv
  <2> QED
    BY <2>1, <2>2 DEF LocalInv
<1>2. ASSUME NEW c \in Caller, Step(c)
      PROVE  LocalInv'
  <2>1. TypeOK' /\ CallInv(c)'
    BY <1>2, SplitStrLocal, HandleAllLinesLocal, HandleFullLinesLocal, KeepPartLineLocal DEF Step
  <2>2. \A d \in Caller : d # c => CallInv(d)'
    BY <1>2, OnlyOwnVariables, CallFrame DEF LocalInv
  <2> QED
    BY <2>1, <2>2 DEF LocalInv
<1>3. CASE UNCHANGED vars
  <2>1. TypeOK'
    BY <1>3 DEF vars, LocalInv, TypeOK
  <2>2. \A d \in Caller : CallInv(d)'
    BY <1>3, CallFrame DEF vars, LocalInv
  <2> QED
    BY <2>1, <2>2 DEF LocalInv
<1>4. CASE NoMoreData
  BY <1>3, <1>4 DEF NoMoreData
<1> QED
  BY <1>1, <1>2, <1>3, <1>4 DEF Next, Call

(***************************************************************************)
(* The variables keep their kinds and getline stays inside flow_str,       *)
(* whatever is passed in whatever chunks by however many callers.          *)
(***************************************************************************)
THEOREM TypeCorrect == Spec => []TypeOK
<1>1. LocalInv => TypeOK
  BY DEF LocalInv
<1>2. LocalInv /\ [Next]_vars => LocalInv'
  BY LocalStep
<1> QED
  BY <1>1, <1>2, LocalInit, PTL DEF Spec

(***************************************************************************)
(* do_handle never takes the last of no tokens (flow_handler.cpp:46,48):   *)
(* a chunk that does not end in a newline leaves one, whatever other       *)
(* callers do to part_line meanwhile.                                      *)
(***************************************************************************)
THEOREM LastTokenAlwaysExists == Spec => []LastTokenExists
<1>1. LocalInv => LastTokenExists
  <2> SUFFICES ASSUME LocalInv, NEW c \in Caller,
                      pc[c] \in {"handle", "keep"}, ~EndsInNewline(c)
               PROVE  lines[c] # <<>>
    BY DEF LastTokenExists
  <2>1. Len(lines[c]) > 0
    BY DEF LocalInv, CallInv, RestInv
  <2>2. Len(<<>>) = 0
    BY EmptySeq
  <2> QED
    BY <2>1, <2>2
<1>2. LocalInv /\ [Next]_vars => LocalInv'
  BY LocalStep
<1> QED
  BY <1>1, <1>2, LocalInit, PTL DEF Spec

-----------------------------------------------------------------------------
(***************************************************************************)
(* One caller: the steps of a flow.                                        *)
(***************************************************************************)
SoleCaller == \E c : Caller = {c}

\* A chunk goes behind the flow and behind what follows a newline of it.
LEMMA FollowsAppend ==
    ASSUME NEW s \in Line, NEW t \in Line, NEW u \in Line, NEW n \in Nat, Follows(t, s, n)
    PROVE  Follows(t \o u, s \o u, n)
<1>1. /\ Len(s) \in Nat /\ Len(t) \in Nat /\ Len(u) \in Nat
      /\ Len(s) = n + Len(t)
      /\ Len(s \o u) = Len(s) + Len(u) /\ Len(t \o u) = Len(t) + Len(u)
  <2>1. Len(s) \in Nat /\ Len(t) \in Nat /\ Len(u) \in Nat
    BY DEF Line
  <2>2. Len(s) = n + Len(t)
    BY <2>1 DEF Follows
  <2>3. Len(s \o u) = Len(s) + Len(u) /\ Len(t \o u) = Len(t) + Len(u)
    BY ConcatProperties DEF Line
  <2> QED
    BY <2>1, <2>2, <2>3
<1>2. /\ \A i \in 1..(Len(s) + Len(u)) :
            (s \o u)[i] = IF i <= Len(s) THEN s[i] ELSE u[i - Len(s)]
      /\ \A i \in 1..(Len(t) + Len(u)) :
            (t \o u)[i] = IF i <= Len(t) THEN t[i] ELSE u[i - Len(t)]
  BY ConcatProperties DEF Line
<1>3. n \in 0..Len(s \o u) /\ Len(t \o u) = Len(s \o u) - n
  BY <1>1
<1>4. ASSUME NEW k \in 1..Len(t \o u)
      PROVE  (t \o u)[k] = (s \o u)[n + k]
  <2>1. CASE k <= Len(t)
    <3>1. k \in 1..Len(t) /\ n + k <= Len(s) /\ n + k \in 1..(Len(s) + Len(u))
      BY <1>1, <2>1
    <3>2. t[k] = s[n + k]
      BY <3>1 DEF Follows
    <3> QED
      BY <1>1, <1>2, <3>1, <3>2, <2>1
  <2>2. CASE k > Len(t)
    <3>1. /\ n + k \in 1..(Len(s) + Len(u)) /\ ~(n + k <= Len(s)) /\ ~(k <= Len(t))
          /\ (n + k) - Len(s) = k - Len(t)
      BY <1>1, <2>2
    <3> QED
      BY <1>1, <1>2, <3>1
  <2> QED
    BY <1>1, <2>1, <2>2
<1>5. n = 0 \/ (s \o u)[n] = NL
  <2>1. CASE n > 0
    <3>1. n \in 1..(Len(s) + Len(u)) /\ n <= Len(s) /\ s[n] = NL
      BY <1>1, <2>1 DEF Follows
    <3> QED
      BY <1>2, <3>1
  <2>2. n = 0 \/ n > 0
    OBVIOUS
  <2> QED
    BY <2>1, <2>2, Zenon
<1> QED
  BY <1>3, <1>4, <1>5 DEF Follows

LEMMA DoHandleFlow ==
    ASSUME IInv, NEW c \in Caller, NEW b \in Chunk, do_handle(c, b)
    PROVE  FlowInv(c)'
<1> DEFINE r == received[c]
<1>1. r \in Line /\ b \in Line /\ part_line \in Line /\ handled \in Seq(Line) /\ Len(r) \in Nat
  BY ChunkType DEF IInv, LocalInv, TypeOK, Line
<1>2. Sound(handled, r) /\ Complete(handled, r, Len(r))
  BY DEF IInv, FlowInv, do_handle
<1>3. PICK n \in Nat : Follows(part_line, r, n)
  BY DEF IInv, FlowInv, do_handle
<1>4. /\ pc'[c] = "split" /\ received'[c] = r \o b /\ flow_str'[c] = part_line \o b
      /\ part_line' = <<>> /\ handled' = handled
  BY DEF do_handle, IInv, LocalInv, TypeOK
<1> HIDE DEF r
<1>5. n <= Len(r)
  BY <1>3 DEF Follows
<1>6. Sound(handled, r \o b) /\ Complete(handled, r \o b, n)
  BY <1>1, <1>2, <1>5, SoundStable, CompleteStable
<1>7. Follows(part_line \o b, r \o b, n)
  BY <1>1, <1>3, FollowsAppend
<1> QED
  BY <1>4, <1>6, <1>7 DEF FlowInv

LEMMA SplitStrFlow ==
    ASSUME IInv, NEW c \in Caller, split_str(c)
    PROVE  FlowInv(c)'
<1>1. /\ pc[c] = "split" /\ pc'[c] \in {"split", "handle"}
      /\ received' = received /\ flow_str' = flow_str /\ part_line' = part_line /\ handled' = handled
  BY DEF split_str, IInv, LocalInv, TypeOK
<1> QED
  BY <1>1 DEF IInv, FlowInv

\* Both branches of do_handle hand over the full lines of flow_str.
LEMMA FullLinesFlow ==
    ASSUME IInv, NEW c \in Caller, pc[c] = "handle"
    PROVE  /\ Sound(handled \o FullLines(c), received[c])
           /\ Complete(handled \o FullLines(c), received[c], Len(received[c]))
<1> DEFINE r == received[c]
           s == flow_str[c]
           full == FullLines(c)
<1>1. r \in Line /\ s \in Line /\ handled \in Seq(Line)
  BY DEF IInv, LocalInv, TypeOK
<1>2. full \in Seq(Line)
  BY FrontType DEF FullLines, IInv, LocalInv, TypeOK
<1>3. Sound(handled, r)
  BY DEF IInv, FlowInv
<1>4. PICK n \in Nat : Follows(s, r, n) /\ Complete(handled, r, n)
  BY DEF IInv, FlowInv
<1>5. Sound(full, s) /\ Complete(full, s, Len(s))
  BY DEF IInv, LocalInv, CallInv, HandleInv
<1> HIDE DEF r, s, full
<1>6. Sound(full, r)
  BY <1>1, <1>2, <1>4, <1>5, SoundShift
<1>7. Sound(handled \o full, r)
  BY <1>1, <1>2, <1>3, <1>6, SoundConcat
<1>8. Complete(handled \o full, r, Len(r))
  BY <1>1, <1>2, <1>4, <1>5, CompleteShift
<1> QED
  BY <1>7, <1>8 DEF r, full

LEMMA HandleAllLinesFlow ==
    ASSUME IInv, NEW c \in Caller, HandleAllLines(c)
    PROVE  FlowInv(c)'
<1>1. /\ pc[c] = "handle" /\ pc'[c] = "idle" /\ EndsInNewline(c)
      /\ handled' = handled \o FullLines(c)
      /\ received' = received /\ part_line' = part_line
  BY DEF HandleAllLines, FullLines, IInv, LocalInv, TypeOK
<1>2. /\ Sound(handled', received'[c])
      /\ Complete(handled', received'[c], Len(received'[c]))
  BY <1>1, FullLinesFlow
<1>3. part_line' = <<>>
  BY <1>1 DEF IInv, FlowInv
<1>4. PICK n \in Nat : Follows(flow_str[c], received[c], n)
  BY <1>1 DEF IInv, FlowInv
<1>5. /\ Len(flow_str[c]) \in Nat /\ Len(flow_str[c]) > 0 /\ Len(received[c]) \in Nat
      /\ flow_str[c][Len(flow_str[c])] = NL
  BY <1>1 DEF IInv, LocalInv, TypeOK, CallInv, EndsInNewline, Line
<1>6. received[c][Len(received[c])] = NL
  <2>1. n + Len(flow_str[c]) = Len(received[c]) /\ Len(flow_str[c]) \in 1..Len(flow_str[c])
    BY <1>4, <1>5 DEF Follows
  <2> QED
    BY <1>4, <1>5, <2>1 DEF Follows
<1>7. Follows(<<>>, received[c], Len(received[c])) /\ NoNL(<<>>)
  BY <1>5, <1>6, EmptySeq DEF Follows, NoNL
<1> QED
  BY <1>1, <1>2, <1>3, <1>5, <1>7 DEF FlowInv

LEMMA HandleFullLinesFlow ==
    ASSUME IInv, NEW c \in Caller, HandleFullLines(c)
    PROVE  FlowInv(c)'
<1>1. /\ pc[c] = "handle" /\ pc'[c] = "keep"
      /\ handled' = handled \o FullLines(c)
      /\ received' = received /\ flow_str' = flow_str
  BY DEF HandleFullLines, FullLines, Front, IInv, LocalInv, TypeOK
<1>2. /\ Sound(handled', received'[c])
      /\ Complete(handled', received'[c], Len(received'[c]))
  BY <1>1, FullLinesFlow
<1>3. \E n \in Nat : Follows(flow_str[c], received[c], n)
  BY <1>1 DEF IInv, FlowInv
<1> QED
  BY <1>1, <1>2, <1>3 DEF FlowInv

LEMMA KeepPartLineFlow ==
    ASSUME IInv, NEW c \in Caller, KeepPartLine(c)
    PROVE  FlowInv(c)'
<1>1. /\ pc[c] = "keep" /\ pc'[c] = "idle" /\ part_line' = Last(lines[c])
      /\ handled' = handled /\ received' = received
  BY DEF KeepPartLine, Last, IInv, LocalInv, TypeOK
<1>2. Len(lines[c]) > 0 /\ NoNL(Last(lines[c])) /\ lines[c] \in Seq(Line)
  BY <1>1 DEF IInv, LocalInv, TypeOK, CallInv, RestInv
<1>3. PICK m \in Nat : Follows(Last(lines[c]), flow_str[c], m)
  BY <1>1 DEF IInv, LocalInv, CallInv, RestInv
<1>4. PICK n \in Nat : Follows(flow_str[c], received[c], n)
  BY <1>1 DEF IInv, FlowInv
<1>5. Last(lines[c]) \in Line /\ flow_str[c] \in Line /\ received[c] \in Line
  <2>1. lines[c][Len(lines[c])] \in Line
    BY <1>2
  <2> QED
    BY <2>1 DEF Last, IInv, LocalInv, TypeOK
<1>6. Follows(Last(lines[c]), received[c], n + m) /\ n + m \in Nat
  BY <1>3, <1>4, <1>5, FollowsTrans
<1> QED
  BY <1>1, <1>2, <1>6 DEF IInv, FlowInv

LEMMA FlowInit == Init => IInv
<1> SUFFICES ASSUME Init
             PROVE  \A c \in Caller : FlowInv(c)
  BY LocalInit DEF IInv
<1> TAKE c \in Caller
<1>1. received[c] = <<>> /\ pc[c] = "idle" /\ handled = <<>> /\ part_line = <<>>
  BY DEF Init
<1>2. Len(<<>>) = 0
  BY EmptySeq
<1>3. Sound(<<>>, <<>>) /\ NoNL(<<>>) /\ Follows(<<>>, <<>>, 0)
  BY <1>2 DEF Sound, NoNL, Follows
<1>4. Complete(<<>>, <<>>, 0)
  BY <1>2 DEF Complete, IsLine
<1> QED
  BY <1>1, <1>2, <1>3, <1>4 DEF FlowInv

LEMMA FlowStep ==
    ASSUME SoleCaller, IInv, [Next]_vars
    PROVE  IInv'
<1>1. LocalInv'
  BY LocalStep DEF IInv
<1>2. ASSUME NEW c \in Caller, FlowInv(c)'
      PROVE  \A d \in Caller : FlowInv(d)'
  BY <1>2 DEF SoleCaller
<1>3. ASSUME NEW c \in Caller, NEW b \in Chunk, do_handle(c, b)
      PROVE  \A d \in Caller : FlowInv(d)'
  BY <1>2, <1>3, DoHandleFlow
<1>4. ASSUME NEW c \in Caller, Step(c)
      PROVE  \A d \in Caller : FlowInv(d)'
  BY <1>2, <1>4, SplitStrFlow, HandleAllLinesFlow, HandleFullLinesFlow, KeepPartLineFlow DEF Step
<1>5. CASE UNCHANGED vars
  BY <1>1, <1>5 DEF vars, IInv, FlowInv
<1> QED
  BY <1>1, <1>3, <1>4, <1>5 DEF Next, Call, NoMoreData, IInv

(***************************************************************************)
(* With one caller, however it cuts its flow into chunks, what             *)
(* handle_lines gets are lines of the flow.                                *)
(***************************************************************************)
THEOREM LinesAreWhole ==
    ASSUME SoleCaller
    PROVE  Spec => []WholeLines
<1>1. IInv => WholeLines
  <2> SUFFICES ASSUME IInv, NEW i \in DOMAIN handled
               PROVE  \E c \in Caller : \E a, b \in DOMAIN received[c] :
                          IsLine(received[c], a, b) /\ handled[i] = SubSeq(received[c], a, b)
    BY DEF WholeLines
  <2>1. PICK c \in Caller : TRUE
    BY DEF SoleCaller
  <2>2. i \in 1..Len(handled) /\ DOMAIN received[c] = 1..Len(received[c]) /\ Len(received[c]) \in Nat
    BY LenProperties DEF IInv, LocalInv, TypeOK, Line
  <2>3. PICK a \in Nat, b \in Nat :
            IsLine(received[c], a, b) /\ handled[i] = SubSeq(received[c], a, b)
    BY <2>2 DEF IInv, FlowInv, Sound
  <2>4. a \in 1..Len(received[c]) /\ b \in 1..Len(received[c])
    BY <2>2, <2>3 DEF IsLine
  <2> QED
    BY <2>2, <2>3, <2>4
<1>2. IInv /\ [Next]_vars => IInv'
  BY FlowStep
<1> QED
  BY <1>1, <1>2, FlowInit, PTL DEF Spec

(***************************************************************************)
(* With one caller, no complete line is still missing when do_handle has   *)
(* returned.                                                               *)
(***************************************************************************)
THEOREM LinesAreKept ==
    ASSUME SoleCaller
    PROVE  Spec => []NoLineLost
<1>1. IInv => NoLineLost
  <2> SUFFICES ASSUME IInv, NEW c \in Caller, pc[c] = "idle",
                      NEW a \in DOMAIN received[c], NEW b \in DOMAIN received[c],
                      IsLine(received[c], a, b)
               PROVE  \E i \in DOMAIN handled : handled[i] = SubSeq(received[c], a, b)
    BY DEF NoLineLost
  <2>1. /\ DOMAIN handled = 1..Len(handled)
        /\ a \in Nat /\ b \in Nat
    BY LenProperties DEF IInv, LocalInv, TypeOK, Line
  <2>2. b < Len(received[c])
    BY DEF IsLine
  <2>3. Contains(handled, SubSeq(received[c], a, b))
    BY <2>1, <2>2 DEF IInv, FlowInv, Complete
  <2> QED
    BY <2>1, <2>3 DEF Contains
<1>2. IInv /\ [Next]_vars => IInv'
  BY FlowStep
<1> QED
  BY <1>1, <1>2, FlowInit, PTL DEF Spec

(***************************************************************************)
(* With one caller, part_line between calls is exactly the bytes after the *)
(* last newline of the flow.                                               *)
(***************************************************************************)
THEOREM PartLineCorrect ==
    ASSUME SoleCaller
    PROVE  Spec => []PartLineIsRest
<1>1. IInv => PartLineIsRest
  <2> SUFFICES ASSUME IInv, NEW c \in Caller, pc[c] = "idle"
               PROVE  \E n \in 0..Len(received[c]) :
                          /\ part_line = SubSeq(received[c], n + 1, Len(received[c]))
                          /\ n = 0 \/ received[c][n] = NL
                          /\ \A k \in DOMAIN part_line : part_line[k] # NL
    BY DEF PartLineIsRest
  <2> DEFINE r == received[c]
  <2>1. PICK n \in Nat : Follows(part_line, r, n)
    BY DEF IInv, FlowInv
  <2>2. /\ part_line \in Line /\ r \in Line
        /\ Len(part_line) \in Nat /\ Len(r) \in Nat
        /\ DOMAIN part_line = 1..Len(part_line)
        /\ n + Len(part_line) = Len(r)
    BY <2>1, LenProperties DEF IInv, LocalInv, TypeOK, Line, Follows
  <2>3. SubSeq(part_line, 1, Len(part_line)) = SubSeq(r, n + 1, n + Len(part_line))
    <3>1. \A k \in 1..Len(part_line) : part_line[k] = r[n + k]
      BY <2>1 DEF Follows
    <3> HIDE DEF r
    <3> QED
      BY <2>2, <3>1, SliceShift
  <2>4. SubSeq(part_line, 1, Len(part_line)) = part_line
    BY <2>2, SubSeqFull DEF Line
  <2>5. part_line = SubSeq(r, n + 1, Len(r))
    BY <2>2, <2>3, <2>4
  <2>6. NoNL(part_line)
    BY DEF IInv, FlowInv
  <2>7. n \in 0..Len(r) /\ (n = 0 \/ r[n] = NL)
    BY <2>1 DEF Follows
  <2> QED
    BY <2>2, <2>5, <2>6, <2>7 DEF NoNL
<1>2. IInv /\ [Next]_vars => IInv'
  BY FlowStep
<1> QED
  BY <1>1, <1>2, FlowInit, PTL DEF Spec

-----------------------------------------------------------------------------
(***************************************************************************)
(* One caller: the order of the lines.  Lines are counted by their ends.   *)
(***************************************************************************)

Ends(s, n) == {b \in 1..n : b < Len(s) /\ s[b] # NL /\ s[b + 1] = NL}

\* The members of ls are the lines of s that end with its n-th byte or before,
\* each at its place.
InOrder(ls, s, n) ==
    /\ Len(ls) = LinesUpTo(s, n)
    /\ \A a, b \in Nat : IsLine(s, a, b) /\ b <= n => ls[LinesUpTo(s, b)] = SubSeq(s, a, b)

LEMMA CountType ==
    ASSUME NEW s, NEW n \in Nat
    PROVE  IsFiniteSet(Ends(s, n)) /\ LinesUpTo(s, n) = Cardinality(Ends(s, n)) /\ LinesUpTo(s, n) \in Nat
<1>1. IsFiniteSet(1..n)
  BY FS_Interval
<1>2. IsFiniteSet(Ends(s, n))
  BY <1>1, FS_Subset DEF Ends
<1> QED
  BY <1>2, FS_CardinalityType DEF Ends, LinesUpTo

\* A line that is counted has a place.
LEMMA CountRange ==
    ASSUME NEW s \in Line, NEW n \in Nat, NEW a \in Nat, NEW b \in Nat, IsLine(s, a, b), b <= n
    PROVE  LinesUpTo(s, b) \in 1..LinesUpTo(s, n)
<1>1. Ends(s, b) \subseteq Ends(s, n)
  BY DEF Ends
<1>2. b \in Ends(s, b)
  BY DEF Ends, IsLine
<1>3. Cardinality(Ends(s, b)) <= Cardinality(Ends(s, n))
  BY <1>1, CountType, FS_Subset
<1>4. Cardinality(Ends(s, b)) # 0
  BY <1>2, CountType, FS_EmptySet
<1> QED
  BY <1>3, <1>4, CountType

\* Without an end between m and n, as many lines end up to either.
LEMMA CountSkip ==
    ASSUME NEW s \in Line, NEW m \in Nat, NEW n \in Nat, m <= n,
           \A b \in (m + 1)..n : ~(b < Len(s) /\ s[b] # NL /\ s[b + 1] = NL)
    PROVE  LinesUpTo(s, n) = LinesUpTo(s, m)
<1>1. Ends(s, n) = Ends(s, m)
  BY DEF Ends
<1> QED
  BY <1>1, CountType

\* One more line ends at n.
LEMMA CountNext ==
    ASSUME NEW s \in Line, NEW n \in Nat, n + 1 < Len(s), s[n + 1] # NL, s[n + 2] = NL
    PROVE  LinesUpTo(s, n + 1) = LinesUpTo(s, n) + 1
<1>1. Ends(s, n + 1) = Ends(s, n) \cup {n + 1} /\ n + 1 \notin Ends(s, n)
  <2>1. (n + 1) + 1 = n + 2 /\ n + 1 \in 1..(n + 1)
    OBVIOUS
  <2> QED
    BY <2>1 DEF Ends
<1>2. Cardinality(Ends(s, n) \cup {n + 1}) = Cardinality(Ends(s, n)) + 1
  BY <1>1, CountType, FS_AddElement
<1>3. n + 1 \in Nat
  OBVIOUS
<1>4. /\ LinesUpTo(s, n + 1) = Cardinality(Ends(s, n + 1))
      /\ LinesUpTo(s, n) = Cardinality(Ends(s, n))
  BY <1>3, CountType, Zenon
<1> QED
  BY <1>1, <1>2, <1>4, Zenon

\* What comes later leaves the count as it is.
LEMMA CountStable ==
    ASSUME NEW s \in Line, NEW t \in Line, NEW n \in Nat, n <= Len(s),
           n < Len(s) \/ n = 0 \/ s[n] = NL
    PROVE  LinesUpTo(s \o t, n) = LinesUpTo(s, n)
<1>1. Len(s) \in Nat /\ Len(t) \in Nat
  BY DEF Line
<1>2. Len(s \o t) = Len(s) + Len(t) /\ \A k \in 1..Len(s) : (s \o t)[k] = s[k]
  BY <1>1, ConcatProperties DEF Line
<1> DEFINE st == s \o t
<1>3. Ends(st, n) = Ends(s, n)
  <2>1. \A b \in 1..n : b < Len(s) \/ (b = n /\ s[b] = NL)
    BY <1>1
  <2>2. \A b \in 1..n : st[b] = s[b] /\ (b < Len(s) => st[b + 1] = s[b + 1] /\ b < Len(st))
    BY <1>1, <1>2
  <2> HIDE DEF st
  <2> QED
    BY <2>1, <2>2 DEF Ends
<1> QED
  BY <1>3, CountType

\* The lines of what follows n bytes are counted from n on.
LEMMA CountShift ==
    ASSUME NEW s \in Line, NEW t \in Line, NEW n \in Nat, Follows(t, s, n),
           NEW k \in 0..Len(t)
    PROVE  LinesUpTo(s, n + k) = LinesUpTo(s, n) + LinesUpTo(t, k)
<1> DEFINE T == {j \in Nat : j <= Len(t) => LinesUpTo(s, n + j) = LinesUpTo(s, n) + LinesUpTo(t, j)}
<1>0. Len(s) \in Nat /\ Len(t) \in Nat /\ Len(s) = n + Len(t) /\ \A j \in 1..Len(t) : t[j] = s[n + j]
  BY DEF Line, Follows
<1>1. 0 \in T
  <2>1. Ends(t, 0) = {}
    BY DEF Ends
  <2>2. LinesUpTo(t, 0) = 0
    BY <2>1, CountType, FS_EmptySet
  <2> QED
    BY <2>2, CountType
<1>2. ASSUME NEW j \in T, j + 1 <= Len(t)
      PROVE  LinesUpTo(s, n + (j + 1)) = LinesUpTo(s, n) + LinesUpTo(t, j + 1)
  <2>0. /\ j \in Nat /\ LinesUpTo(s, n + j) = LinesUpTo(s, n) + LinesUpTo(t, j)
        /\ LinesUpTo(s, n) \in Nat /\ LinesUpTo(t, j) \in Nat
    BY <1>2, CountType
  <2>1. n + (j + 1) = (n + j) + 1 /\ n + (j + 2) = (n + j) + 2 /\ n + j \in Nat
    BY <2>0
  <2>2. t[j + 1] = s[(n + j) + 1] /\ (j + 1 < Len(t) => t[j + 2] = s[(n + j) + 2])
    BY <1>0, <1>2, <2>0, <2>1
  <2>3. CASE j + 1 < Len(t) /\ t[j + 1] # NL /\ t[j + 2] = NL
    <3>1. LinesUpTo(t, j + 1) = LinesUpTo(t, j) + 1
      BY <2>0, <2>3, CountNext
    <3>2. LinesUpTo(s, (n + j) + 1) = LinesUpTo(s, n + j) + 1
      <4>1. (n + j) + 1 < Len(s) /\ s[(n + j) + 1] # NL /\ s[(n + j) + 2] = NL
        BY <1>0, <2>0, <2>2, <2>3
      <4> QED
        BY <2>1, <4>1, CountNext, Zenon
    <3> QED
      BY <2>0, <2>1, <3>1, <3>2
  <2>4. CASE ~(j + 1 < Len(t) /\ t[j + 1] # NL /\ t[j + 2] = NL)
    <3>1. LinesUpTo(t, j + 1) = LinesUpTo(t, j)
      <4>1. \A b \in (j + 1)..(j + 1) : ~(b < Len(t) /\ t[b] # NL /\ t[b + 1] = NL)
        BY <2>0, <2>4
      <4> QED
        BY <2>0, <4>1, CountSkip
    <3>2. LinesUpTo(s, (n + j) + 1) = LinesUpTo(s, n + j)
      <4>1. \A b \in ((n + j) + 1)..((n + j) + 1) : ~(b < Len(s) /\ s[b] # NL /\ s[b + 1] = NL)
        BY <1>0, <2>0, <2>2, <2>4
      <4> QED
        BY <2>0, <2>1, <4>1, CountSkip
    <3> QED
      BY <2>0, <2>1, <3>1, <3>2
  <2> QED
    BY <2>3, <2>4
<1>3. T \subseteq Nat /\ \A j \in T : j + 1 \in T
  BY <1>2
<1>4. T = Nat
  <2> HIDE DEF T
  <2> QED
    BY <1>1, <1>3, SetInduction
<1>5. k \in T
  BY <1>4
<1> QED
  BY <1>5

\* If what has been handled is the lines of the first n bytes, in order, then
\* handling those of the rest, in order, makes it the lines of all of them.
LEMMA OrderShift ==
    ASSUME NEW s \in Line, NEW t \in Line, NEW n \in Nat, Follows(t, s, n),
           NEW h \in Seq(Line), NEW ls \in Seq(Line),
           InOrder(h, s, n), InOrder(ls, t, Len(t))
    PROVE  InOrder(h \o ls, s, Len(s))
<1>1. Len(s) \in Nat /\ Len(t) \in Nat /\ Len(s) = n + Len(t) /\ Len(t) \in 0..Len(t)
  BY DEF Line, Follows
<1>2. /\ Len(h) \in Nat /\ Len(ls) \in Nat
      /\ Len(h \o ls) = Len(h) + Len(ls)
      /\ \A i \in 1..(Len(h) + Len(ls)) :
            (h \o ls)[i] = IF i <= Len(h) THEN h[i] ELSE ls[i - Len(h)]
  BY ConcatProperties
<1>3. Len(h) = LinesUpTo(s, n) /\ Len(ls) = LinesUpTo(t, Len(t))
  BY DEF InOrder
<1>4. Len(h \o ls) = LinesUpTo(s, Len(s))
  <2>1. LinesUpTo(s, n + Len(t)) = LinesUpTo(s, n) + LinesUpTo(t, Len(t))
    BY <1>1, CountShift, Zenon
  <2> QED
    BY <1>1, <1>2, <1>3, <2>1, Zenon
<1> DEFINE g == h \o ls
<1>5. ASSUME NEW a \in Nat, NEW b \in Nat, IsLine(s, a, b)
      PROVE  g[LinesUpTo(s, b)] = SubSeq(s, a, b)
  <2>1. 1 <= a /\ a <= b /\ b < Len(s) /\ (\A k \in a..b : s[k] # NL)
    BY <1>5 DEF IsLine
  <2>2. CASE b < n
    <3>1. h[LinesUpTo(s, b)] = SubSeq(s, a, b)
      BY <1>5, <2>2 DEF InOrder
    <3>2. LinesUpTo(s, b) \in 1..LinesUpTo(s, n)
      BY <1>5, <2>2, CountRange
    <3>3. LinesUpTo(s, b) \in 1..(Len(h) + Len(ls)) /\ LinesUpTo(s, b) <= Len(h)
      BY <1>2, <1>3, <3>2
    <3>4. g[LinesUpTo(s, b)] = h[LinesUpTo(s, b)]
      BY <1>2, <3>3
    <3> HIDE DEF g
    <3> QED
      BY <3>1, <3>4, Zenon
  <2>3. CASE b >= n
    <3>1. a > n
      <4>1. n \notin a..b
        BY <2>1 DEF Follows
      <4> QED
        BY <2>3, <4>1
    <3> DEFINE i == a - n
               j == b - n
    <3>2. /\ i \in Nat /\ j \in Nat /\ 1 <= i /\ j < Len(t) /\ j \in 0..Len(t)
          /\ n + i = a /\ n + j = b
      BY <1>1, <2>1, <2>3, <3>1
    <3> HIDE DEF i, j, g
    <3>3. IsLine(t, i, j)
      BY <1>5, <3>2, LineShift
    <3>4. SubSeq(t, i, j) = SubSeq(s, a, b)
      <4>1. n + Len(t) <= Len(s) /\ \A k \in 1..Len(t) : t[k] = s[n + k]
        BY <1>1 DEF Follows
      <4>2. SubSeq(t, i, j) = SubSeq(s, n + i, n + j)
        BY <1>1, <3>2, <4>1, SliceShift
      <4> QED
        BY <3>2, <4>2, Zenon
    <3>5. ls[LinesUpTo(t, j)] = SubSeq(t, i, j)
      BY <3>2, <3>3 DEF InOrder
    <3>6. LinesUpTo(t, j) \in 1..LinesUpTo(t, Len(t))
      BY <1>1, <3>2, <3>3, CountRange
    <3>7. LinesUpTo(s, b) = Len(h) + LinesUpTo(t, j)
      <4>1. LinesUpTo(s, n + j) = LinesUpTo(s, n) + LinesUpTo(t, j)
        BY <3>2, CountShift
      <4> QED
        BY <1>3, <3>2, <4>1, Zenon
    <3>8. /\ LinesUpTo(s, b) \in 1..(Len(h) + Len(ls))
          /\ ~(LinesUpTo(s, b) <= Len(h))
          /\ LinesUpTo(s, b) - Len(h) = LinesUpTo(t, j)
      BY <1>2, <1>3, <3>6, <3>7
    <3>9. g[LinesUpTo(s, b)] = ls[LinesUpTo(t, j)]
      BY <1>2, <3>8 DEF g
    <3> QED
      BY <3>4, <3>5, <3>9, Zenon
  <2>4. b < n \/ b >= n
    OBVIOUS
  <2> QED
    BY <2>2, <2>3, <2>4, Zenon
<1> QED
  BY <1>4, <1>5 DEF InOrder

\* Behind a chunk, what has been handled is the lines before the rest.
LEMMA OrderStable ==
    ASSUME NEW s \in Line, NEW t \in Line, NEW u \in Line, NEW n \in Nat,
           Follows(t, s, n), NoNL(t), NEW h \in Seq(Line), InOrder(h, s, Len(s))
    PROVE  InOrder(h, s \o u, n)
<1>1. Len(s) \in Nat /\ Len(t) \in Nat /\ Len(u) \in Nat /\ Len(s) = n + Len(t) /\ n <= Len(s)
  BY DEF Line, Follows
<1>2. n = 0 \/ s[n] = NL
  BY DEF Follows
<1>3. LinesUpTo(s, Len(s)) = LinesUpTo(s, n)
  <2>1. \A b \in (n + 1)..Len(s) : b < Len(s) => s[b + 1] # NL
    <3> SUFFICES ASSUME NEW b \in (n + 1)..Len(s), b < Len(s)
                 PROVE  s[b + 1] # NL
      OBVIOUS
    <3>1. (b + 1) - n \in 1..Len(t) /\ n + ((b + 1) - n) = b + 1
      BY <1>1
    <3>2. t[(b + 1) - n] = s[n + ((b + 1) - n)] /\ t[(b + 1) - n] # NL
      BY <3>1 DEF Follows, NoNL
    <3> QED
      BY <3>1, <3>2
  <2> QED
    BY <1>1, <2>1, CountSkip
<1>4. LinesUpTo(s \o u, n) = LinesUpTo(s, n)
  BY <1>1, <1>2, CountStable
<1> DEFINE su == s \o u
<1>5. ASSUME NEW a \in Nat, NEW b \in Nat, IsLine(su, a, b), b <= n
      PROVE  h[LinesUpTo(su, b)] = SubSeq(su, a, b)
  <2>1. n = 0 \/ su[n] = NL
    <3>1. CASE n > 0
      <4>1. n \in 1..Len(s) /\ s[n] = NL
        BY <1>1, <1>2, <3>1
      <4> QED
        BY <1>1, <4>1, ConcatProperties DEF Line
    <3>2. n = 0 \/ n > 0
      OBVIOUS
    <3> QED
      BY <3>1, <3>2, Zenon
  <2>2. 1 <= a /\ a <= b /\ su[b] # NL
    BY <1>5 DEF IsLine
  <2>3. b < Len(s) /\ b <= Len(s)
    BY <1>1, <1>5, <2>1, <2>2
  <2>4. IsLine(s, a, b) /\ SubSeq(su, a, b) = SubSeq(s, a, b)
    BY <1>5, <2>2, <2>3, LineStable
  <2>5. LinesUpTo(su, b) = LinesUpTo(s, b)
    BY <2>3, CountStable
  <2>6. h[LinesUpTo(s, b)] = SubSeq(s, a, b)
    BY <2>3, <2>4 DEF InOrder
  <2> HIDE DEF su
  <2> QED
    BY <2>4, <2>5, <2>6, Zenon
<1> QED
  BY <1>3, <1>4, <1>5 DEF InOrder

\* Before the first line there is none.
LEMMA OrderStart ==
    ASSUME NEW s \in Line
    PROVE  InOrder(<<>>, s, 0)
<1>1. Ends(s, 0) = {} /\ Len(<<>>) = 0
  BY EmptySeq DEF Ends
<1>2. LinesUpTo(s, 0) = 0
  BY <1>1, CountType, FS_EmptySet
<1>3. \A a, b \in Nat : ~(IsLine(s, a, b) /\ b <= 0)
  BY DEF IsLine
<1> QED
  BY <1>1, <1>2, <1>3 DEF InOrder

\* The token of a round that ends at a newline is counted unless it is empty.
LEMMA CountOfRound ==
    ASSUME NEW s \in Line, NEW p \in 1..(Len(s) + 1), NEW e \in p..Len(s),
           s[e] = NL, \A k \in p..(e - 1) : s[k] # NL
    PROVE  /\ e = p => LinesUpTo(s, e) = LinesUpTo(s, p - 1)
           /\ e > p => /\ LinesUpTo(s, e) = LinesUpTo(s, p - 1) + 1
                       /\ LinesUpTo(s, e - 1) = LinesUpTo(s, p - 1) + 1
<1>1. Len(s) \in Nat /\ p - 1 \in Nat /\ e \in Nat /\ p - 1 <= e
  BY DEF Line
<1>2. ASSUME e = p
      PROVE  LinesUpTo(s, e) = LinesUpTo(s, p - 1)
  <2>1. \A b \in ((p - 1) + 1)..e : ~(b < Len(s) /\ s[b] # NL /\ s[b + 1] = NL)
    BY <1>1, <1>2
  <2> QED
    BY <1>1, <2>1, CountSkip, Zenon
<1>3. ASSUME e > p
      PROVE  /\ LinesUpTo(s, e) = LinesUpTo(s, p - 1) + 1
             /\ LinesUpTo(s, e - 1) = LinesUpTo(s, p - 1) + 1
  <2>1. /\ e - 2 \in Nat /\ e - 1 \in Nat /\ p - 1 <= e - 2 /\ e - 1 <= e
        /\ (e - 2) + 1 = e - 1 /\ (e - 2) + 2 = e
        /\ e - 1 < Len(s) /\ e - 1 \in p..(e - 1)
    BY <1>1, <1>3
  <2>2. LinesUpTo(s, e - 2) = LinesUpTo(s, p - 1)
    <3>1. \A b \in ((p - 1) + 1)..(e - 2) : ~(b < Len(s) /\ s[b] # NL /\ s[b + 1] = NL)
      <4>1. \A b \in ((p - 1) + 1)..(e - 2) : b + 1 \in p..(e - 1)
        BY <1>1
      <4> QED
        BY <4>1
    <3> QED
      BY <1>1, <2>1, <3>1, CountSkip, Zenon
  <2>3. LinesUpTo(s, (e - 2) + 1) = LinesUpTo(s, e - 2) + 1
    <3> DEFINE m == e - 2
    <3>1. m \in Nat /\ m + 1 < Len(s) /\ s[m + 1] # NL /\ s[m + 2] = NL
      BY <2>1
    <3> HIDE DEF m
    <3>2. LinesUpTo(s, m + 1) = LinesUpTo(s, m) + 1
      BY <3>1, CountNext
    <3> QED
      BY <3>2 DEF m
  <2>4. LinesUpTo(s, e) = LinesUpTo(s, e - 1)
    <3>1. \A b \in ((e - 1) + 1)..e : ~(b < Len(s) /\ s[b] # NL /\ s[b + 1] = NL)
      <4>1. \A b \in ((e - 1) + 1)..e : b = e
        BY <1>1
      <4> QED
        BY <4>1
    <3> QED
      BY <1>1, <2>1, <3>1, CountSkip, Zenon
  <2> QED
    BY <2>1, <2>2, <2>3, <2>4, Zenon
<1> QED
  BY <1>2, <1>3

LEMMA OrderRound ==
    ASSUME NEW s \in Line, NEW p \in 1..(Len(s) + 1), p = 1 \/ s[p - 1] = NL,
           NEW ls \in Seq(Line), InOrder(ls, s, p - 1),
           TokenEnd(s, p) <= Len(s)
    PROVE  InOrder(push_back(ls, SubSeq(s, p, TokenEnd(s, p) - 1)), s, TokenEnd(s, p))
<1> DEFINE e == TokenEnd(s, p)
           temp == SubSeq(s, p, e - 1)
           l2 == push_back(ls, temp)
<1>1. /\ Len(s) \in Nat /\ e \in p..Len(s) /\ s[e] = NL
      /\ \A k \in p..(e - 1) : s[k] # NL
  BY TokenEndLemma DEF Line
<1> HIDE DEF e
<1>2. /\ temp \in Line
      /\ Len(temp) = IF p <= e - 1 THEN (e - 1) - p + 1 ELSE 0
  BY <1>1, SliceType
<1>3. /\ e = p => LinesUpTo(s, e) = LinesUpTo(s, p - 1)
      /\ e > p => /\ LinesUpTo(s, e) = LinesUpTo(s, p - 1) + 1
                  /\ LinesUpTo(s, e - 1) = LinesUpTo(s, p - 1) + 1
  BY <1>1, CountOfRound
<1>4. Len(ls) = LinesUpTo(s, p - 1) /\ Len(ls) \in Nat
  BY DEF InOrder
<1>5. \A a, b \in Nat : IsLine(s, a, b) /\ b <= e => b < e
  BY <1>1 DEF IsLine
<1>6. \A a, b \in Nat : IsLine(s, a, b) /\ b < e /\ ~(b < p - 1) => a = p /\ b = e - 1
  BY <1>1, LineOfRound
<1>7. \A a, b \in Nat : IsLine(s, a, b) /\ b < p - 1 =>
          ls[LinesUpTo(s, b)] = SubSeq(s, a, b) /\ LinesUpTo(s, b) \in 1..Len(ls)
  <2> TAKE a \in Nat, b \in Nat
  <2> HAVE IsLine(s, a, b) /\ b < p - 1
  <2>1. b <= p - 1 /\ p - 1 \in Nat
    OBVIOUS
  <2> QED
    BY <1>4, <2>1, CountRange DEF InOrder
<1>8. CASE e = p
  <2>1. l2 = ls
    <3>1. Len(temp) = 0
      BY <1>1, <1>2, <1>8
    <3> HIDE DEF temp
    <3> QED
      BY <1>2, <3>1, PushBack
  <2>2. ASSUME NEW a \in Nat, NEW b \in Nat, IsLine(s, a, b), b <= e
        PROVE  ls[LinesUpTo(s, b)] = SubSeq(s, a, b)
    <3>1. b < e /\ a <= b
      BY <1>5, <2>2 DEF IsLine
    <3>2. b < p - 1
      BY <1>6, <1>8, <2>2, <3>1
    <3> QED
      BY <1>7, <2>2, <3>2
  <2>3. InOrder(ls, s, e)
    BY <1>3, <1>4, <1>8, <2>2 DEF InOrder
  <2> QED
    BY <2>1, <2>3 DEF e
<1>9. CASE e > p
  <2>1. /\ Len(l2) = Len(ls) + 1
        /\ \A i \in 1..Len(ls) : l2[i] = ls[i]
        /\ l2[Len(ls) + 1] = temp
    <3>1. Len(temp) # 0
      BY <1>1, <1>2, <1>9
    <3> HIDE DEF temp
    <3>2. temp # <<>>
      BY <1>2, <3>1, PushBack
    <3> QED
      BY <1>2, <3>2, PushBack, Zenon
  <2> HIDE DEF l2
  <2>2. ASSUME NEW a \in Nat, NEW b \in Nat, IsLine(s, a, b), b <= e
        PROVE  l2[LinesUpTo(s, b)] = SubSeq(s, a, b)
    <3>1. b < e
      BY <1>5, <2>2
    <3>2. CASE b < p - 1
      BY <1>7, <2>1, <2>2, <3>2
    <3>3. CASE ~(b < p - 1)
      <4>1. a = p /\ b = e - 1
        BY <1>6, <2>2, <3>1, <3>3
      <4>2. LinesUpTo(s, b) = Len(ls) + 1
        BY <1>3, <1>4, <1>9, <4>1
      <4>3. SubSeq(s, a, b) = temp
        BY <4>1
      <4> HIDE DEF temp
      <4> QED
        BY <2>1, <4>2, <4>3, Zenon
    <3> QED
      BY <3>2, <3>3
  <2>3. Len(l2) = LinesUpTo(s, e)
    BY <1>3, <1>4, <1>9, <2>1
  <2>4. InOrder(l2, s, e)
    BY <2>2, <2>3 DEF InOrder
  <2> QED
    BY <2>4 DEF l2, e
<1>10. e = p \/ e > p
  BY <1>1
<1> QED
  BY <1>8, <1>9, <1>10, Zenon

LEMMA OrderEnd ==
    ASSUME NEW s \in Line, NEW p \in 1..(Len(s) + 1), p = 1 \/ s[p - 1] = NL,
           NEW ls \in Seq(Line), InOrder(ls, s, p - 1),
           TokenEnd(s, p) = Len(s) + 1
    PROVE  InOrder(ls, s, Len(s))
<1>1. Len(s) \in Nat /\ p - 1 \in Nat /\ p - 1 <= Len(s)
  BY DEF Line
<1>2. \A k \in p..Len(s) : s[k] # NL
  <2>1. \A k \in p..(TokenEnd(s, p) - 1) : s[k] # NL
    BY TokenEndLemma
  <2>2. TokenEnd(s, p) - 1 = Len(s)
    BY <1>1
  <2> QED
    BY <2>1, <2>2
<1>3. LinesUpTo(s, Len(s)) = LinesUpTo(s, p - 1)
  <2>1. \A b \in ((p - 1) + 1)..Len(s) : ~(b < Len(s) /\ s[b] # NL /\ s[b + 1] = NL)
    <3>1. \A b \in ((p - 1) + 1)..Len(s) : b < Len(s) => b + 1 \in p..Len(s)
      BY <1>1
    <3> QED
      BY <1>2, <3>1
  <2> QED
    BY <1>1, <2>1, CountSkip, Zenon
<1>4. ASSUME NEW a \in Nat, NEW b \in Nat, IsLine(s, a, b)
      PROVE  b < p - 1
  <2>1. 1 <= a /\ a <= b /\ b < Len(s) /\ s[b + 1] = NL
    BY <1>4 DEF IsLine
  <2>2. b + 1 \notin p..Len(s)
    BY <1>2, <2>1
  <2>3. CASE ~(b < p - 1)
    <3>1. p <= a
      BY <1>4, <2>3, LineFromPos
    <3> QED
      BY <1>1, <2>1, <2>2, <3>1
  <2> QED
    BY <2>3
<1>5. \A a, b \in Nat : IsLine(s, a, b) => b <= p - 1
  BY <1>4
<1> QED
  BY <1>3, <1>5 DEF InOrder

(***************************************************************************)
(* The inductive invariant of the order: what has been handled is, in      *)
(* order, the lines before flow_str, and split_str's result those of       *)
(* flow_str before the get position.                                       *)
(***************************************************************************)
OrderInv(c) ==
    /\ pc[c] = "split" => InOrder(lines[c], flow_str[c], pos[c] - 1)
    /\ pc[c] = "handle" => InOrder(FullLines(c), flow_str[c], Len(flow_str[c]))
    /\ pc[c] \in {"split", "handle"} =>
          InOrder(handled, received[c], Len(received[c]) - Len(flow_str[c]))
    /\ pc[c] \in {"idle", "keep"} => InOrder(handled, received[c], Len(received[c]))

LEMMA DoHandleOrder ==
    ASSUME IInv, NEW c \in Caller, OrderInv(c), NEW b \in Chunk, do_handle(c, b)
    PROVE  OrderInv(c)'
<1> DEFINE r == received[c]
           s == part_line \o b
<1>1. r \in Line /\ b \in Line /\ part_line \in Line /\ handled \in Seq(Line) /\ Len(r) \in Nat
  BY ChunkType DEF IInv, LocalInv, TypeOK, Line
<1>2. InOrder(handled, r, Len(r)) /\ NoNL(part_line)
  BY DEF OrderInv, IInv, FlowInv, do_handle
<1>3. PICK n \in Nat : Follows(part_line, r, n)
  BY DEF IInv, FlowInv, do_handle
<1>4. /\ pc'[c] = "split" /\ received'[c] = r \o b /\ flow_str'[c] = s
      /\ pos'[c] = 1 /\ lines'[c] = <<>> /\ handled' = handled
  BY DEF do_handle, IInv, LocalInv, TypeOK
<1>5. s \in Line /\ r \o b \in Line
  BY <1>1, ConcatProperties DEF Line
<1> HIDE DEF r
<1>6. Follows(s, r \o b, n)
  BY <1>1, <1>3, FollowsAppend
<1> HIDE DEF s
<1>7. Len(r \o b) - Len(s) = n
  <2>1. Len(r \o b) \in Nat /\ Len(s) \in Nat
    BY <1>5 DEF Line
  <2> QED
    BY <1>6, <2>1 DEF Follows
<1>8. InOrder(handled, r \o b, n)
  BY <1>1, <1>2, <1>3, OrderStable
<1>9. InOrder(<<>>, s, 1 - 1)
  BY <1>5, OrderStart
<1> QED
  BY <1>4, <1>7, <1>8, <1>9 DEF OrderInv

LEMMA SplitStrOrder ==
    ASSUME IInv, NEW c \in Caller, OrderInv(c), split_str(c)
    PROVE  OrderInv(c)'
<1> DEFINE s == flow_str[c]
           p == pos[c]
           ls == lines[c]
           e == TokenEnd(s, p)
           l2 == push_back(ls, SubSeq(s, p, e - 1))
<1>1. /\ s \in Line /\ Len(s) \in Nat /\ Len(s) > 0
      /\ p \in 1..(Len(s) + 1)
      /\ p = 1 \/ s[p - 1] = NL
      /\ ls \in Seq(Line)
      /\ Complete(ls, s, p - 1)
  BY DEF IInv, LocalInv, TypeOK, CallInv, SplitInv, split_str, Line
<1>2. /\ InOrder(ls, s, p - 1)
      /\ InOrder(handled, received[c], Len(received[c]) - Len(s))
  BY DEF OrderInv, split_str
<1>3. e \in p..(Len(s) + 1)
  BY <1>1, TokenEndLemma
<1>4. /\ lines'[c] = l2 /\ pos'[c] = e + 1
      /\ pc'[c] = IF e = Len(s) + 1 THEN "handle" ELSE "split"
      /\ flow_str' = flow_str /\ received' = received /\ handled' = handled
  BY DEF split_str, IInv, LocalInv, TypeOK
<1>5. e <= Len(s) => InOrder(l2, s, e)
  BY <1>1, <1>2, OrderRound
<1>6. e = Len(s) + 1 => InOrder(ls, s, Len(s))
  BY <1>1, <1>2, OrderEnd
<1>7. e = Len(s) + 1 => /\ s[Len(s)] = NL => l2 = ls
                        /\ s[Len(s)] # NL => Front(l2) = ls
  BY <1>1, SplitEnd
<1> HIDE DEF e, l2
<1>8. CASE e <= Len(s)
  <2>1. pc'[c] = "split" /\ pos'[c] - 1 = e
    BY <1>1, <1>3, <1>4, <1>8
  <2> QED
    BY <1>2, <1>4, <1>5, <1>8, <2>1 DEF OrderInv
<1>9. CASE e = Len(s) + 1
  <2>1. EndsInNewline(c)' <=> s[Len(s)] = NL
    BY <1>4 DEF EndsInNewline
  <2>2. FullLines(c)' = ls
    BY <1>4, <1>7, <1>9, <2>1 DEF FullLines
  <2> QED
    BY <1>2, <1>4, <1>6, <1>9, <2>2 DEF OrderInv
<1>10. e <= Len(s) \/ e = Len(s) + 1
  BY <1>1, <1>3
<1> QED
  BY <1>8, <1>9, <1>10, Zenon

LEMMA HandleOrder ==
    ASSUME IInv, NEW c \in Caller, OrderInv(c), pc[c] = "handle"
    PROVE  InOrder(handled \o FullLines(c), received[c], Len(received[c]))
<1> DEFINE r == received[c]
           s == flow_str[c]
           full == FullLines(c)
<1>1. r \in Line /\ s \in Line /\ handled \in Seq(Line) /\ Len(r) \in Nat /\ Len(s) \in Nat
  BY DEF IInv, LocalInv, TypeOK, Line
<1>2. full \in Seq(Line)
  BY FrontType DEF FullLines, IInv, LocalInv, TypeOK
<1>3. InOrder(full, s, Len(s)) /\ InOrder(handled, r, Len(r) - Len(s))
  BY DEF OrderInv
<1>4. PICK n \in Nat : Follows(s, r, n)
  BY DEF IInv, FlowInv
<1> HIDE DEF r, s, full
<1>5. Len(r) - Len(s) = n
  BY <1>1, <1>4 DEF Follows
<1>6. InOrder(handled, r, n)
  BY <1>3, <1>5
<1>7. InOrder(handled \o full, r, Len(r))
  BY <1>1, <1>2, <1>3, <1>4, <1>6, OrderShift
<1> QED
  BY <1>7 DEF r, full

LEMMA OrderInit == Init => \A c \in Caller : OrderInv(c)
<1> SUFFICES ASSUME Init, NEW c \in Caller
             PROVE  OrderInv(c)
  OBVIOUS
<1>1. pc[c] = "idle" /\ handled = <<>> /\ received[c] = <<>>
  BY DEF Init
<1>2. <<>> \in Line /\ Len(<<>>) = 0
  BY EmptySeq DEF Line
<1>3. InOrder(<<>>, <<>>, Len(<<>>))
  BY <1>2, OrderStart
<1> QED
  BY <1>1, <1>3 DEF OrderInv

LEMMA OrderStep ==
    ASSUME SoleCaller, IInv, \A c \in Caller : OrderInv(c), [Next]_vars
    PROVE  \A c \in Caller : OrderInv(c)'
<1>1. ASSUME NEW c \in Caller, OrderInv(c)'
      PROVE  \A d \in Caller : OrderInv(d)'
  BY <1>1 DEF SoleCaller
<1>2. ASSUME NEW c \in Caller, NEW b \in Chunk, do_handle(c, b)
      PROVE  \A d \in Caller : OrderInv(d)'
  BY <1>1, <1>2, DoHandleOrder
<1>3. ASSUME NEW c \in Caller, split_str(c)
      PROVE  \A d \in Caller : OrderInv(d)'
  BY <1>1, <1>3, SplitStrOrder
<1>4. ASSUME NEW c \in Caller, HandleAllLines(c) \/ HandleFullLines(c)
      PROVE  \A d \in Caller : OrderInv(d)'
  <2>1. /\ pc[c] = "handle" /\ pc'[c] \in {"idle", "keep"}
        /\ handled' = handled \o FullLines(c) /\ received' = received
    BY <1>4 DEF HandleAllLines, HandleFullLines, FullLines, Front, IInv, LocalInv, TypeOK
  <2>2. InOrder(handled', received'[c], Len(received'[c]))
    BY <2>1, HandleOrder
  <2>3. OrderInv(c)'
    BY <2>1, <2>2 DEF OrderInv
  <2> QED
    BY <1>1, <2>3
<1>5. ASSUME NEW c \in Caller, KeepPartLine(c)
      PROVE  \A d \in Caller : OrderInv(d)'
  <2>1. /\ pc[c] = "keep" /\ pc'[c] = "idle" /\ handled' = handled /\ received' = received
    BY <1>5 DEF KeepPartLine, IInv, LocalInv, TypeOK
  <2>2. OrderInv(c)'
    BY <2>1 DEF OrderInv
  <2> QED
    BY <1>1, <2>2
<1>6. CASE UNCHANGED vars
  BY <1>6 DEF vars, OrderInv, FullLines, EndsInNewline
<1> QED
  BY <1>2, <1>3, <1>4, <1>5, <1>6 DEF Next, Call, Step, NoMoreData

(***************************************************************************)
(* With one caller, however it cuts its flow into chunks, do_handle has    *)
(* handled the lines of the flow in their order, each once and no other.   *)
(***************************************************************************)
THEOREM LinesAreInOrder ==
    ASSUME SoleCaller
    PROVE  Spec => []LinesInOrder
<1> DEFINE OInv == IInv /\ \A c \in Caller : OrderInv(c)
<1>1. OInv => LinesInOrder
  <2> SUFFICES ASSUME OInv, NEW c \in Caller, pc[c] = "idle"
               PROVE  /\ Len(handled) = LinesUpTo(received[c], Len(received[c]))
                      /\ \A a, b \in DOMAIN received[c] :
                            IsLine(received[c], a, b) =>
                                handled[LinesUpTo(received[c], b)] = SubSeq(received[c], a, b)
    BY DEF LinesInOrder
  <2>1. InOrder(handled, received[c], Len(received[c]))
    BY DEF OrderInv
  <2>2. \A a \in DOMAIN received[c] : a \in Nat /\ a <= Len(received[c])
    BY LenProperties DEF IInv, LocalInv, TypeOK, Line
  <2> QED
    BY <2>1, <2>2 DEF InOrder
<1>2. OInv /\ [Next]_vars => OInv'
  BY FlowStep, OrderStep
<1>3. Init => OInv
  BY FlowInit, OrderInit
<1> QED
  BY <1>1, <1>2, <1>3, PTL DEF Spec

=============================================================================
