---------------------------- MODULE StreamProofs ----------------------------
(* Induction over the naturals, and what follows of the streams that the      *)
(* models compare their buffers with: FlattenSeq, prefixes, parts of buffers. *)
EXTENDS Integers, Sequences, SequencesExt, FiniteSets, FiniteSetsExt,
        SequenceTheorems, WellFoundedInduction, TLAPS

-----------------------------------------------------------------------------
(* Induction *)

\* A set that holds 0 and with each number the next one holds them all.
LEMMA SetInduction ==
  ASSUME NEW P, 0 \in P, \A n \in Nat : n \in P => n + 1 \in P
  PROVE  Nat \subseteq P
<1> DEFINE T == Nat \ P
<1>1. SUFFICES ASSUME T # {} PROVE FALSE
  OBVIOUS
<1>2. PICK x \in T : \A y \in T : ~ (<<y, x>> \in OpToRel(<,Nat))
  BY <1>1, NatLessThanWellFounded, WFMin
<1>3. x \in Nat /\ x # 0 /\ x \notin P
  OBVIOUS
<1>4. x - 1 \in Nat /\ x - 1 < x /\ x = (x - 1) + 1
  BY <1>3
<1>5. x - 1 \in T
  BY <1>3, <1>4
<1>6. <<x - 1, x>> \in OpToRel(<,Nat)
  BY <1>3, <1>4 DEF OpToRel
<1> QED
  BY <1>2, <1>5, <1>6

-----------------------------------------------------------------------------
(* FlattenSeq *)

\* Joining buffers is associative.
Regrouped(s, t, u) == (s \o t) \o u = s \o (t \o u)

LEMMA Associative ==
  ASSUME NEW S
  PROVE  \A s, t, u \in Seq(S) : Regrouped(s, t, u)
BY ConcatAssociative DEF Regrouped

LEMMA Joined ==
  ASSUME NEW S
  PROVE  \A s, t \in Seq(S) : s \o t \in Seq(S)
BY ConcatProperties

\* f is the function by which FlattenSeq joins the first n of the sequences ss.
Joins(f, ss, n) ==
  f = [i \in 1..n |-> IF i = 1 THEN ss[i] ELSE f[i - 1] \o ss[i]]

LEMMA JoinsExists ==
  ASSUME NEW ss, NEW n \in Nat
  PROVE  \E f : Joins(f, ss, n)
<1> DEFINE P == {k \in Nat : \E f : Joins(f, ss, k)}
<1>1. 0 \in P
  <2>1. Joins([i \in 1..0 |-> << >>], ss, 0)
    BY DEF Joins
  <2> QED
    BY <2>1
<1>2. ASSUME NEW k \in Nat, k \in P PROVE k + 1 \in P
  <2>1. PICK f : Joins(f, ss, k)
    BY <1>2
  <2> DEFINE last == IF k = 0 THEN ss[1] ELSE f[k] \o ss[k + 1]
             g == [i \in 1..k + 1 |-> IF i = k + 1 THEN last ELSE f[i]]
  <2>2. \A i \in 1..k : f[i] = IF i = 1 THEN ss[i] ELSE f[i - 1] \o ss[i]
    BY <2>1, Zenon DEF Joins
  <2>3. ASSUME NEW i \in 1..k + 1
        PROVE  g[i] = IF i = 1 THEN ss[i] ELSE g[i - 1] \o ss[i]
    <3>1. CASE i = k + 1
      BY <3>1
    <3>2. CASE i # k + 1
      <4>1. i \in 1..k /\ i - 1 # k + 1 /\ (i # 1 => i - 1 \in 1..k)
        BY <3>2
      <4> QED
        BY <2>2, <3>2, <4>1
    <3> QED
      BY <3>1, <3>2
  <2> HIDE DEF last
  <2>4. g = [i \in 1..k + 1 |-> IF i = 1 THEN ss[i] ELSE g[i - 1] \o ss[i]]
    BY <2>3
  <2>5. Joins(g, ss, k + 1)
    BY <2>4, Zenon DEF Joins
  <2> HIDE DEF g
  <2> QED
    BY <2>5
<1> HIDE DEF P
<1>3. n \in P
  BY <1>1, <1>2, SetInduction
<1> QED
  BY <1>3 DEF P

\* What FlattenSeq is in terms of such a function.
LEMMA FlattenJoins ==
  ASSUME NEW ss, Len(ss) \in Nat \ {0}
  PROVE  \E f : Joins(f, ss, Len(ss)) /\ FlattenSeq(ss) = f[Len(ss)]
<1> DEFINE f == CHOOSE f : Joins(f, ss, Len(ss))
<1>1. Joins(f, ss, Len(ss))
  BY JoinsExists, Zenon
<1>2. FlattenSeq(ss) = f[Len(ss)]
  BY Zenon DEF FlattenSeq, Joins
<1> QED
  BY <1>1, <1>2, Zenon

\* Two such functions agree where their sequences do.
LEMMA JoinsAgree ==
  ASSUME NEW ss, NEW tt, NEW n \in Nat, NEW m \in 0..n, NEW f, NEW g,
         \A i \in 1..m : ss[i] = tt[i]
  PROVE  Joins(f, ss, n) /\ Joins(g, tt, m) => \A i \in 1..m : f[i] = g[i]
<1> HAVE Joins(f, ss, n) /\ Joins(g, tt, m)
<1> DEFINE P == {k \in Nat : k \in 1..m => f[k] = g[k]}
<1>1. /\ \A i \in 1..n : f[i] = IF i = 1 THEN ss[i] ELSE f[i - 1] \o ss[i]
      /\ \A i \in 1..m : g[i] = IF i = 1 THEN tt[i] ELSE g[i - 1] \o tt[i]
  BY Zenon DEF Joins
<1>2. 0 \in P
  OBVIOUS
<1>3. ASSUME NEW k \in Nat, k \in P PROVE k + 1 \in P
  <2>1. CASE k + 1 \notin 1..m
    BY <2>1
  <2>2. CASE k + 1 \in 1..m /\ k = 0
    BY <1>1, <2>2
  <2>3. CASE k + 1 \in 1..m /\ k # 0
    <3>1. k \in 1..m /\ k + 1 \in 1..n /\ (k + 1) - 1 = k /\ k + 1 # 1
      BY <2>3
    <3>2. f[k] = g[k] /\ f[k + 1] = f[k] \o ss[k + 1] /\ g[k + 1] = g[k] \o tt[k + 1]
      BY <1>1, <1>3, <2>3, <3>1
    <3>3. ss[k + 1] = tt[k + 1]
      BY <2>3
    <3>4. f[k + 1] = g[k + 1]
      BY <3>2, <3>3
    <3> QED
      BY <3>4
  <2> QED
    BY <2>1, <2>2, <2>3
<1> HIDE DEF P
<1>4. Nat \subseteq P
  BY <1>2, <1>3, SetInduction
<1> QED
  BY <1>4 DEF P

\* Each of its values is a sequence.
LEMMA JoinsType ==
  ASSUME NEW S, NEW ss \in Seq(Seq(S)), NEW f, Joins(f, ss, Len(ss))
  PROVE  \A i \in 1..Len(ss) : f[i] \in Seq(S)
<1> DEFINE P == {k \in Nat : k \in 1..Len(ss) => f[k] \in Seq(S)}
<1>1. \A i \in 1..Len(ss) : f[i] = IF i = 1 THEN ss[i] ELSE f[i - 1] \o ss[i]
  BY Zenon DEF Joins
<1>2. 0 \in P
  OBVIOUS
<1>3. ASSUME NEW k \in Nat, k \in P PROVE k + 1 \in P
  <2>1. SUFFICES ASSUME k + 1 \in 1..Len(ss) PROVE f[k + 1] \in Seq(S)
    OBVIOUS
  <2>2. ss[k + 1] \in Seq(S)
    BY <2>1
  <2>3. CASE k = 0
    BY <1>1, <2>1, <2>2, <2>3
  <2>4. CASE k # 0
    <3>1. k \in 1..Len(ss) /\ (k + 1) - 1 = k /\ k + 1 # 1
      BY <2>1, <2>4
    <3>2. f[k] \in Seq(S) /\ f[k + 1] = f[k] \o ss[k + 1]
      BY <1>1, <1>3, <2>1, <3>1
    <3> QED
      BY <2>2, <3>2, ConcatProperties
  <2> QED
    BY <2>3, <2>4
<1> HIDE DEF P
<1>4. Nat \subseteq P
  BY <1>2, <1>3, SetInduction
<1> QED
  BY <1>4 DEF P

\* Joining no sequence, or one more at the end, or one more at the front.
LEMMA FlattenEmpty ==
  FlattenSeq(<< >>) = << >>
BY DEF FlattenSeq

LEMMA FlattenType ==
  ASSUME NEW S, NEW ss \in Seq(Seq(S))
  PROVE  FlattenSeq(ss) \in Seq(S)
<1>1. CASE ss = << >>
  <2>1. FlattenSeq(ss) = << >>
    BY <1>1, FlattenEmpty
  <2> QED
    BY <2>1
<1>2. CASE ss # << >>
  <2>1. Len(ss) \in Nat \ {0}
    BY <1>2
  <2>2. PICK f : Joins(f, ss, Len(ss)) /\ FlattenSeq(ss) = f[Len(ss)]
    BY <2>1, FlattenJoins
  <2> QED
    BY <2>1, <2>2, JoinsType
<1> QED
  BY <1>1, <1>2

LEMMA FlattenAppend ==
  ASSUME NEW S, NEW ss \in Seq(Seq(S)), NEW s \in Seq(S)
  PROVE  FlattenSeq(Append(ss, s)) = FlattenSeq(ss) \o s
<1> DEFINE tt == Append(ss, s)
<1>0. PICK n \in Nat : n = Len(ss)
  OBVIOUS
<1>1. /\ n \in Nat /\ tt \in Seq(Seq(S)) /\ Len(tt) = n + 1
      /\ tt[n + 1] = s /\ \A i \in 1..n : tt[i] = ss[i]
  BY <1>0, AppendProperties
<1> HIDE DEF tt
<1>2. PICK g : Joins(g, tt, n + 1) /\ FlattenSeq(tt) = g[n + 1]
  <2>1. Len(tt) \in Nat \ {0} /\ Len(tt) = n + 1
    BY <1>1
  <2> QED
    BY <2>1, FlattenJoins
<1>3. \A i \in 1..n + 1 : g[i] = IF i = 1 THEN tt[i] ELSE g[i - 1] \o tt[i]
  BY <1>2, Zenon DEF Joins
<1>4. CASE n = 0
  <2>1. g[1] = tt[1] /\ ss = << >>
    <3>1. 1 \in 1..n + 1
      BY <1>4
    <3>2. g[1] = tt[1]
      BY <1>3, <3>1
    <3>3. ss = << >>
      BY <1>0, <1>4, EmptySeq
    <3> QED
      BY <3>2, <3>3
  <2>2. FlattenSeq(tt) = s /\ << >> \o s = s
    BY <1>1, <1>2, <1>4, <2>1, ConcatEmptySeq
  <2> QED
    BY <2>1, <2>2, FlattenEmpty DEF tt
<1>5. CASE n # 0
  <2>1. PICK f : Joins(f, ss, n) /\ FlattenSeq(ss) = f[n]
    BY <1>0, <1>1, <1>5, FlattenJoins
  <2>2. g[n] = f[n]
    <3>1. PICK N \in Nat : N = n + 1
      BY <1>1
    <3>2. n \in 0..N /\ n \in 1..n
      BY <1>1, <1>5, <3>1
    <3>3. Joins(g, tt, N) /\ Joins(f, ss, n) /\ \A i \in 1..n : tt[i] = ss[i]
      BY <1>1, <1>2, <2>1, <3>1
    <3>4. \A i \in 1..n : g[i] = f[i]
      BY <3>2, <3>3, JoinsAgree
    <3> QED
      BY <3>2, <3>4
  <2>3. n + 1 \in 1..n + 1 /\ n + 1 # 1 /\ (n + 1) - 1 = n
    BY <1>1, <1>5
  <2>4. g[n + 1] = g[n] \o s
    BY <1>1, <1>3, <2>3
  <2> QED
    BY <1>2, <2>1, <2>2, <2>4 DEF tt
<1> QED
  BY <1>4, <1>5

LEMMA FlattenCons ==
  ASSUME NEW S, NEW ss \in Seq(Seq(S)), NEW s \in Seq(S)
  PROVE  FlattenSeq(<<s>> \o ss) = s \o FlattenSeq(ss)
<1> DEFINE tt == <<s>> \o ss
           n == Len(ss)
<1>0. <<s>> \in Seq(Seq(S)) /\ Len(<<s>>) = 1
  OBVIOUS
<1>1. /\ n \in Nat /\ tt \in Seq(Seq(S)) /\ Len(tt) = n + 1
      /\ tt[1] = s /\ \A i \in 1..n : tt[i + 1] = ss[i]
  BY <1>0, ConcatProperties
<1> HIDE DEF tt, n
<1>2. PICK g : Joins(g, tt, n + 1) /\ FlattenSeq(tt) = g[n + 1]
  <2>1. Len(tt) \in Nat \ {0} /\ Len(tt) = n + 1
    BY <1>1
  <2> QED
    BY <2>1, FlattenJoins
<1>3. \A i \in 1..n + 1 : g[i] = IF i = 1 THEN tt[i] ELSE g[i - 1] \o tt[i]
  BY <1>2, Zenon DEF Joins
<1>4. g[1] = s
  <2>1. 1 \in 1..n + 1
    BY <1>1
  <2> QED
    BY <1>1, <1>3, <2>1
<1>5. CASE n = 0
  <2>1. ss = << >>
    BY <1>1, <1>5 DEF n
  <2>2. FlattenSeq(tt) = s /\ s \o << >> = s
    BY <1>2, <1>4, <1>5, ConcatEmptySeq
  <2> QED
    BY <2>1, <2>2, FlattenEmpty DEF tt
<1>6. CASE n # 0
  <2>1. PICK f : Joins(f, ss, n) /\ FlattenSeq(ss) = f[n]
    BY <1>1, <1>6, FlattenJoins DEF n
  <2>2. \A i \in 1..n : f[i] = IF i = 1 THEN ss[i] ELSE f[i - 1] \o ss[i]
    BY <2>1, Zenon DEF Joins
  <2>3. \A i \in 1..n : f[i] \in Seq(S) /\ ss[i] \in Seq(S)
    BY <2>1, JoinsType DEF n
  <2> DEFINE P == {k \in Nat : k \in 1..n => g[k + 1] = s \o f[k]}
  <2>4. 0 \in P
    OBVIOUS
  <2>5. ASSUME NEW k \in Nat, k \in P PROVE k + 1 \in P
    <3>1. SUFFICES ASSUME k + 1 \in 1..n PROVE g[(k + 1) + 1] = s \o f[k + 1]
      OBVIOUS
    <3>2. /\ (k + 1) + 1 \in 1..n + 1 /\ (k + 1) + 1 # 1
          /\ ((k + 1) + 1) - 1 = k + 1
      BY <1>1, <3>1
    <3>3. g[(k + 1) + 1] = g[k + 1] \o ss[k + 1]
      BY <1>1, <1>3, <3>1, <3>2
    <3>4. CASE k = 0
      <4>1. k + 1 = 1 /\ 1 \in 1..n
        BY <3>1, <3>4
      <4>2. f[1] = ss[1]
        BY <2>2, <4>1
      <4>3. g[1 + 1] = g[1] \o ss[1]
        BY <3>3, <4>1
      <4> QED
        BY <1>4, <4>1, <4>2, <4>3
    <3>5. CASE k # 0
      <4>1. k \in 1..n /\ k + 1 # 1 /\ (k + 1) - 1 = k
        BY <3>1, <3>5, <1>1
      <4>2. g[k + 1] = s \o f[k] /\ f[k + 1] = f[k] \o ss[k + 1]
        BY <2>2, <2>5, <3>1, <4>1
      <4>3. f[k] \in Seq(S) /\ ss[k + 1] \in Seq(S)
        BY <2>3, <3>1, <4>1
      <4>4. (s \o f[k]) \o ss[k + 1] = s \o (f[k] \o ss[k + 1])
        <5>1. Regrouped(s, f[k], ss[k + 1])
          BY <4>3, Associative, Zenon
        <5> QED
          BY <5>1, Zenon DEF Regrouped
      <4> QED
        BY <3>3, <4>2, <4>4
    <3> QED
      BY <3>4, <3>5
  <2> HIDE DEF P
  <2>6. Nat \subseteq P
    BY <2>4, <2>5, SetInduction
  <2>7. g[n + 1] = s \o f[n]
    BY <1>1, <1>6, <2>6 DEF P
  <2> QED
    BY <1>2, <2>1, <2>7 DEF tt
<1> QED
  BY <1>5, <1>6

-----------------------------------------------------------------------------
(* Parts of a stream *)

\* What joins up with a rest is a prefix.
LEMMA PrefixOf ==
  ASSUME NEW S, NEW s \in Seq(S), NEW r \in Seq(S)
  PROVE  IsPrefix(s, s \o r)
<1>1. /\ s \o r \in Seq(S) /\ Len(s \o r) = Len(s) + Len(r)
      /\ \A i \in 1..Len(s) : (s \o r)[i] = s[i]
  BY ConcatProperties
<1>2. Len(s) \in Nat /\ Len(r) \in Nat
  OBVIOUS
<1>3. SubSeq(s, 1, Len(s)) = s
  BY SubSeqFull
<1> DEFINE t == SubSeq(s \o r, 1, Len(s))
<1>4. t \in Seq(S) /\ Len(t) = Len(s) /\ \A i \in 1..Len(s) : t[i] = (s \o r)[i]
  BY <1>1, <1>2, SubSeqProperties
<1>5. t = s
  BY <1>1, <1>4, SeqEqual
<1> QED
  BY <1>1, <1>2, <1>3, <1>5 DEF IsPrefix

\* Cutting a buffer in two and joining it again.
LEMMA Rejoined ==
  ASSUME NEW S, NEW s \in Seq(S), NEW n \in 0..Len(s)
  PROVE  /\ SubSeq(s, 1, n) \in Seq(S) /\ SubSeq(s, n + 1, Len(s)) \in Seq(S)
         /\ SubSeq(s, 1, n) \o SubSeq(s, n + 1, Len(s)) = s
<1>1. Len(s) \in Nat /\ \A i \in 1..Len(s) : s[i] \in S
  OBVIOUS
<1>2. SubSeq(s, 1, n) \in Seq(S)
  BY <1>1, SubSeqProperties
<1>3. SubSeq(s, n + 1, Len(s)) \in Seq(S)
  BY <1>1, SubSeqProperties
<1>4. SubSeq(s, 1, n) \o SubSeq(s, n + 1, Len(s)) = SubSeq(s, 1, Len(s))
  <2>1. PICK k \in 0..Len(s) : k = n
    OBVIOUS
  <2>2. 1 \in 1..Len(s) + 1 /\ k \in 1 - 1 .. Len(s) /\ Len(s) \in k..Len(s)
    BY <1>1
  <2>3. SubSeq(s, 1, k) \o SubSeq(s, k + 1, Len(s)) = SubSeq(s, 1, Len(s))
    BY <2>2, ConcatAdjacentSubSeq
  <2> QED
    BY <2>1, <2>3
<1> QED
  BY <1>2, <1>3, <1>4, SubSeqFull

\* Moving the first n units of the second of two buffers to the end of the first
\* does not change what they hold together.
LEMMA Moved ==
  ASSUME NEW S, NEW a \in Seq(S), NEW b \in Seq(S), NEW n \in 0..Len(b)
  PROVE  (a \o SubSeq(b, 1, n)) \o SubSeq(b, n + 1, Len(b)) = a \o b
<1>1. /\ SubSeq(b, 1, n) \in Seq(S) /\ SubSeq(b, n + 1, Len(b)) \in Seq(S)
      /\ SubSeq(b, 1, n) \o SubSeq(b, n + 1, Len(b)) = b
  BY Rejoined
<1>2. PICK p \in Seq(S), q \in Seq(S) :
        p = SubSeq(b, 1, n) /\ q = SubSeq(b, n + 1, Len(b)) /\ p \o q = b
  BY <1>1, Zenon
<1>3. Regrouped(a, p, q)
  BY Associative, Zenon
<1> QED
  BY <1>2, <1>3, Zenon DEF Regrouped

\* The front of a stream and what is behind it.
LEMMA FrontTaken ==
  ASSUME NEW S, NEW a \in Seq(S), NEW b \in Seq(S), NEW x \in Seq(S),
         NEW y \in Seq(S), NEW r \in Seq(S)
  PROVE  a \o b = x \o y /\ Len(x) <= Len(a) /\ r = SubSeq(a, Len(x) + 1, Len(a))
           => r \o b = y
<1>0. SUFFICES ASSUME a \o b = x \o y, Len(x) <= Len(a),
                      r = SubSeq(a, Len(x) + 1, Len(a))
               PROVE  r \o b = y
  BY Zenon
<1>1. Len(a) \in Nat /\ Len(x) \in Nat /\ Len(b) \in Nat /\ Len(y) \in Nat
  OBVIOUS
<1>2. /\ Len(r) = Len(a) - Len(x)
      /\ \A i \in 1..Len(r) : r[i] = a[Len(x) + i]
  <2>1. \A i \in Len(x) + 1 .. Len(a) : a[i] \in S
    BY <1>1
  <2>2. /\ Len(r) = IF Len(x) + 1 <= Len(a) THEN Len(a) - (Len(x) + 1) + 1 ELSE 0
        /\ \A i \in 1 .. Len(a) - (Len(x) + 1) + 1 : r[i] = a[(Len(x) + 1) + i - 1]
    BY <1>0, <1>1, <2>1, SubSeqProperties
  <2>3. Len(r) = Len(a) - Len(x)
    BY <1>0, <1>1, <2>2
  <2>4. ASSUME NEW i \in 1..Len(r) PROVE r[i] = a[Len(x) + i]
    <3>1. i \in 1 .. Len(a) - (Len(x) + 1) + 1 /\ (Len(x) + 1) + i - 1 = Len(x) + i
      BY <1>1, <2>3
    <3> QED
      BY <2>2, <3>1
  <2> QED
    BY <2>2, <2>3, <2>4
<1>3. /\ Len(a \o b) = Len(a) + Len(b)
      /\ \A i \in 1 .. Len(a) + Len(b) :
           (a \o b)[i] = IF i <= Len(a) THEN a[i] ELSE b[i - Len(a)]
  BY ConcatProperties
<1>4. /\ Len(x \o y) = Len(x) + Len(y)
      /\ \A i \in 1 .. Len(x) + Len(y) :
           (x \o y)[i] = IF i <= Len(x) THEN x[i] ELSE y[i - Len(x)]
  BY ConcatProperties
<1>5. /\ r \o b \in Seq(S) /\ Len(r \o b) = Len(r) + Len(b)
      /\ \A i \in 1 .. Len(r) + Len(b) :
           (r \o b)[i] = IF i <= Len(r) THEN r[i] ELSE b[i - Len(r)]
  BY <1>2, ConcatProperties
<1>6. Len(r \o b) = Len(y)
  BY <1>0, <1>1, <1>2, <1>3, <1>4, <1>5
<1>7. ASSUME NEW i \in 1..Len(y) PROVE (r \o b)[i] = y[i]
  <2>1. PICK j \in Nat : j = Len(x) + i
    BY <1>1
  <2>2. j \in 1 .. Len(x) + Len(y) /\ ~(j <= Len(x)) /\ j - Len(x) = i
    BY <1>1, <2>1
  <2>3. j \in 1 .. Len(a) + Len(b)
    BY <1>0, <1>3, <1>4, <2>2
  <2>4. (a \o b)[j] = y[i]
    BY <1>0, <1>4, <2>2
  <2>5. i \in 1 .. Len(r) + Len(b)
    BY <1>5, <1>6
  <2>6. CASE i <= Len(r)
    <3>1. j <= Len(a) /\ i \in 1..Len(r) /\ r[i] = a[j]
      BY <1>1, <1>2, <2>1, <2>6
    <3>2. (r \o b)[i] = r[i] /\ (a \o b)[j] = a[j]
      BY <1>3, <1>5, <2>3, <2>5, <2>6, <3>1
    <3> QED
      BY <2>4, <3>1, <3>2
  <2>7. CASE ~(i <= Len(r))
    <3>1. Len(r) \in Nat /\ Len(r) = Len(a) - Len(x)
      BY <1>2
    <3>3. ~(j <= Len(a)) /\ j - Len(a) = i - Len(r)
      BY <1>1, <2>1, <2>7, <3>1
    <3>2. (r \o b)[i] = b[i - Len(r)] /\ (a \o b)[j] = b[j - Len(a)]
      BY <1>3, <1>5, <2>3, <2>5, <2>7, <3>3
    <3> QED
      BY <2>4, <3>3, <3>2
  <2> QED
    BY <2>6, <2>7
<1> QED
  BY <1>5, <1>6, <1>7, SeqEqual

\* A sequence that starts with a nonempty one starts with its first element.
LEMMA FirstOf ==
  ASSUME NEW S, NEW x \in Seq(S), NEW y \in Seq(S), Len(x) > 0
  PROVE  (x \o y)[1] = x[1]
<1>1. Len(x) \in Nat /\ Len(y) \in Nat /\ 1 \in 1 .. Len(x) + Len(y) /\ 1 <= Len(x)
  OBVIOUS
<1> QED
  BY <1>1, ConcatProperties

\* A prefix and the rest.
LEMMA PrefixRest ==
  ASSUME NEW S, NEW s \in Seq(S), NEW t \in Seq(S), IsPrefix(s, t)
  PROVE  \E r \in Seq(S) : s \o r = t
<1>1. PICK n \in 0..Len(t) : n = Len(s)
  BY DEF IsPrefix
<1>2. SubSeq(s, 1, Len(s)) = s
  BY SubSeqFull
<1>3. SubSeq(t, 1, n) = s
  BY <1>1, <1>2 DEF IsPrefix
<1>4. /\ SubSeq(t, n + 1, Len(t)) \in Seq(S)
      /\ SubSeq(t, 1, n) \o SubSeq(t, n + 1, Len(t)) = t
  BY Rejoined
<1> QED
  BY <1>3, <1>4

\* A prefix stays one when the stream grows, and when it shrinks itself.
LEMMA PrefixGrows ==
  ASSUME NEW S, NEW s \in Seq(S), NEW t \in Seq(S), NEW x \in Seq(S),
         IsPrefix(s, t)
  PROVE  IsPrefix(s, t \o x)
<1>1. PICK r \in Seq(S) : s \o r = t
  BY PrefixRest
<1>2. Regrouped(s, r, x) /\ r \o x \in Seq(S)
  BY Associative, Joined, Zenon
<1>3. IsPrefix(s, s \o (r \o x))
  BY <1>2, PrefixOf
<1> QED
  BY <1>1, <1>2, <1>3, Zenon DEF Regrouped

LEMMA PrefixShrinks ==
  ASSUME NEW S, NEW a \in Seq(S), NEW b \in Seq(S), NEW t \in Seq(S)
  PROVE  IsPrefix(a \o b, t) => IsPrefix(a \o << >>, t)
<1>1. SUFFICES ASSUME IsPrefix(a \o b, t) PROVE IsPrefix(a \o << >>, t)
  OBVIOUS
<1>2. PICK ab \in Seq(S) : ab = a \o b
  BY Joined, Zenon
<1>3. IsPrefix(ab, t)
  BY <1>1, <1>2, Zenon
<1>4. PICK r \in Seq(S) : ab \o r = t
  BY <1>3, PrefixRest
<1>5. Regrouped(a, b, r) /\ b \o r \in Seq(S)
  BY <1>4, Associative, Joined, Zenon
<1>6. IsPrefix(a, a \o (b \o r))
  BY <1>5, PrefixOf
<1>7. a \o << >> = a
  BY ConcatEmptySeq
<1> QED
  BY <1>2, <1>4, <1>5, <1>6, <1>7, Zenon DEF Regrouped

LEMMA EmptyPrefix ==
  ASSUME NEW S, NEW t \in Seq(S)
  PROVE  IsPrefix(<< >> \o << >>, t)
<1>1. << >> \in Seq(S) /\ << >> \o t = t
  BY ConcatEmptySeq
<1>2. IsPrefix(<< >>, << >> \o t)
  BY <1>1, PrefixOf
<1>3. << >> \o << >> = << >>
  BY <1>1, ConcatEmptySeq
<1> QED
  BY <1>1, <1>2, <1>3

-----------------------------------------------------------------------------
(* A stream t on its way: a has arrived, b is in flight, and r is still to be *)
(* sent.  Nothing is missing between them, nor behind them while it is live.  *)

Part(live, a, b, r, t) ==
  /\ IsPrefix(a \o b, t)
  /\ live => (a \o b) \o r = t

\* Once the rest no longer matters, what is in flight may be lost too.
LEMMA PartEnds ==
  ASSUME NEW S, NEW a \in Seq(S), NEW b \in Seq(S), NEW r, NEW t \in Seq(S),
         NEW q, NEW live, NEW dead, ~dead
  PROVE  Part(live, a, b, r, t) =>
           Part(dead, a, b, q, t) /\ Part(dead, a, << >>, q, t)
<1>1. IsPrefix(a \o b, t) => IsPrefix(a \o << >>, t)
  BY PrefixShrinks, Zenon
<1> QED
  BY <1>1, Zenon DEF Part

LEMMA PartOfNothing ==
  ASSUME NEW S, NEW t \in Seq(S), NEW q, NEW dead, ~dead
  PROVE  Part(dead, << >>, << >>, q, t)
BY EmptyPrefix, Zenon DEF Part

\* Units in flight arrive.
LEMMA PartArrives ==
  ASSUME NEW S, NEW a \in Seq(S), NEW b \in Seq(S), NEW r \in Seq(S),
         NEW t \in Seq(S), NEW n \in 0..Len(b), NEW live
  PROVE  Part(live, a, b, r, t) =>
           Part(live, a \o SubSeq(b, 1, n), SubSeq(b, n + 1, Len(b)), r, t)
<1>1. (a \o SubSeq(b, 1, n)) \o SubSeq(b, n + 1, Len(b)) = a \o b
  BY Moved, Zenon
<1> QED
  BY <1>1, Zenon DEF Part

\* Units behind them are sent.
LEMMA PartSends ==
  ASSUME NEW S, NEW a \in Seq(S), NEW b \in Seq(S), NEW r \in Seq(S),
         NEW t \in Seq(S), NEW n \in 0..Len(r), NEW live, live
  PROVE  Part(live, a, b, r, t) =>
           Part(live, a, b \o SubSeq(r, 1, n), SubSeq(r, n + 1, Len(r)), t)
<1>1. SUFFICES ASSUME Part(live, a, b, r, t)
               PROVE  Part(live, a, b \o SubSeq(r, 1, n),
                           SubSeq(r, n + 1, Len(r)), t)
  BY Zenon
<1>2. PICK p \in Seq(S), q \in Seq(S) :
        p = SubSeq(r, 1, n) /\ q = SubSeq(r, n + 1, Len(r))
  BY Rejoined, Zenon
<1>3. PICK bp \in Seq(S) : bp = b \o p
  BY <1>2, Joined, Zenon
<1>4. bp \o q = b \o r
  <2>1. (b \o SubSeq(r, 1, n)) \o SubSeq(r, n + 1, Len(r)) = b \o r
    BY Moved, Zenon
  <2> QED
    BY <1>2, <1>3, <2>1, Zenon
<1>5. Regrouped(a, bp, q) /\ Regrouped(a, b, r)
  BY <1>2, <1>3, Associative, Zenon
<1>6. (a \o bp) \o q = (a \o b) \o r
  BY <1>4, <1>5, Zenon DEF Regrouped
<1>7. (a \o bp) \o q = t
  BY <1>1, <1>6, Zenon DEF Part
<1>8. PICK h \in Seq(S) : h = a \o bp
  BY <1>3, Joined, Zenon
<1>9. IsPrefix(h, h \o q)
  BY <1>2, <1>8, PrefixOf, Zenon
<1> QED
  BY <1>2, <1>3, <1>7, <1>8, <1>9, Zenon DEF Part

\* The stream becomes longer by what is put behind the rest.
LEMMA PartGrows ==
  ASSUME NEW S, NEW a \in Seq(S), NEW b \in Seq(S), NEW r \in Seq(S),
         NEW t \in Seq(S), NEW x \in Seq(S), NEW live
  PROVE  Part(live, a, b, r, t) => Part(live, a, b, r \o x, t \o x)
<1>1. PICK ab \in Seq(S) : ab = a \o b
  BY Joined, Zenon
<1>2. Regrouped(ab, r, x)
  BY <1>1, Associative, Zenon
<1>3. IsPrefix(ab, t) => IsPrefix(ab, t \o x)
  BY <1>1, PrefixGrows, Zenon
<1> QED
  BY <1>1, <1>2, <1>3, Zenon DEF Part, Regrouped

\* The stream loses its front, and what has arrived does too.
LEMMA PartLoses ==
  ASSUME NEW S, NEW a \in Seq(S), NEW b \in Seq(S), NEW r \in Seq(S),
         NEW x \in Seq(S), NEW l \in Seq(S), NEW d \in Seq(S), NEW live
  PROVE  Len(x) <= Len(a) /\ d = SubSeq(a, Len(x) + 1, Len(a)) =>
           (Part(live, a, b, r, x \o l) => Part(live, d, b, r, l))
<1>1. SUFFICES ASSUME Len(x) <= Len(a), d = SubSeq(a, Len(x) + 1, Len(a)),
                      Part(live, a, b, r, x \o l)
               PROVE  Part(live, d, b, r, l)
  BY Zenon
<1>2. ASSUME NEW t \in Seq(S), (a \o b) \o t = x \o l
      PROVE  (d \o b) \o t = l
  <2>1. PICK bt \in Seq(S) : bt = b \o t
    BY <1>2, Joined, Zenon
  <2>2. Regrouped(a, b, t) /\ Regrouped(d, b, t)
    BY <1>2, Associative, Zenon
  <2>3. a \o bt = x \o l
    BY <1>2, <2>1, <2>2, Zenon DEF Regrouped
  <2>4. d \o bt = l
    <3>1. bt \in Seq(S) /\ d \in Seq(S)
      BY <2>1, Zenon
    <3> QED
      BY <1>1, <2>3, <3>1, FrontTaken, Zenon
  <2> QED
    BY <2>1, <2>2, <2>4, Zenon DEF Regrouped
<1>3. IsPrefix(d \o b, l)
  <2>1. PICK ab \in Seq(S) : ab = a \o b
    BY Joined, Zenon
  <2>2. PICK xl \in Seq(S) : xl = x \o l
    BY Joined, Zenon
  <2>3. IsPrefix(ab, xl)
    BY <1>1, <2>1, <2>2, Zenon DEF Part
  <2>4. PICK q \in Seq(S) : ab \o q = xl
    BY <2>3, PrefixRest, Zenon
  <2>5. (d \o b) \o q = l
    BY <1>2, <2>1, <2>2, <2>4, Zenon
  <2>6. PICK db \in Seq(S) : db = d \o b
    BY Joined, Zenon
  <2>7. IsPrefix(db, db \o q)
    BY PrefixOf, Zenon
  <2> QED
    BY <2>5, <2>6, <2>7, Zenon
<1> QED
  BY <1>1, <1>2, <1>3, Zenon DEF Part

\* What has arrived begins as the stream does.
LEMMA PartBegins ==
  ASSUME NEW S, NEW a \in Seq(S), NEW b \in Seq(S), NEW r, NEW live,
         NEW x \in Seq(S), NEW l \in Seq(S), Len(a) > 0, Len(x) > 0
  PROVE  Part(live, a, b, r, x \o l) => a[1] = x[1]
<1>1. SUFFICES ASSUME IsPrefix(a \o b, x \o l) PROVE a[1] = x[1]
  BY Zenon DEF Part
<1>2. PICK ab \in Seq(S) : ab = a \o b
  BY Joined, Zenon
<1>3. PICK xl \in Seq(S) : xl = x \o l
  BY Joined, Zenon
<1>4. PICK q \in Seq(S) : ab \o q = xl
  <2>1. IsPrefix(ab, xl)
    BY <1>1, <1>2, <1>3, Zenon
  <2> QED
    BY <2>1, PrefixRest, Zenon
<1>5. PICK bq \in Seq(S) : bq = b \o q
  BY <1>4, Joined, Zenon
<1>6. Regrouped(a, b, q)
  BY <1>4, Associative, Zenon
<1>7. a \o bq = x \o l
  BY <1>2, <1>3, <1>4, <1>5, <1>6, Zenon DEF Regrouped
<1>8. (a \o bq)[1] = a[1]
  BY <1>5, FirstOf, Zenon
<1>9. (x \o l)[1] = x[1]
  BY FirstOf
<1> QED
  BY <1>7, <1>8, <1>9, Zenon

\* What has arrived starts with the front of the stream, once it is that long.
LEMMA PartFront ==
  ASSUME NEW S, NEW a \in Seq(S), NEW b \in Seq(S), NEW r, NEW live,
         NEW x \in Seq(S), NEW l \in Seq(S)
  PROVE  Len(x) <= Len(a) =>
           (Part(live, a, b, r, x \o l) => SubSeq(a, 1, Len(x)) = x)
<1>1. SUFFICES ASSUME Len(x) <= Len(a), IsPrefix(a \o b, x \o l)
               PROVE  SubSeq(a, 1, Len(x)) = x
  BY Zenon DEF Part
<1>2. PICK ab \in Seq(S) : ab = a \o b
  BY Joined, Zenon
<1>3. PICK xl \in Seq(S) : xl = x \o l
  BY Joined, Zenon
<1>4. PICK q \in Seq(S) : ab \o q = xl
  <2>1. IsPrefix(ab, xl)
    BY <1>1, <1>2, <1>3, Zenon
  <2> QED
    BY <2>1, PrefixRest, Zenon
<1>5. PICK bq \in Seq(S) : bq = b \o q
  BY <1>4, Joined, Zenon
<1>6. Regrouped(a, b, q)
  BY <1>4, Associative, Zenon
<1>7. a \o bq = x \o l
  BY <1>2, <1>3, <1>4, <1>5, <1>6, Zenon DEF Regrouped
<1>8. /\ Len(a) \in Nat /\ Len(x) \in Nat /\ Len(x) \in 0..Len(a)
  BY <1>1
<1>9. PICK t \in Seq(S) : /\ t = SubSeq(a, 1, Len(x)) /\ Len(t) = Len(x)
                         /\ \A i \in 1..Len(x) : t[i] = a[i]
  <2>1. PICK n \in Nat : n = Len(x) /\ n <= Len(a)
    BY <1>1, <1>8
  <2>2. \A i \in 1..n : a[i] \in S
    BY <1>8, <2>1, ElementOfSeq
  <2>3. /\ SubSeq(a, 1, n) \in Seq(S) /\ Len(SubSeq(a, 1, n)) = n
        /\ \A i \in 1..n : SubSeq(a, 1, n)[i] = a[i]
    BY <2>1, <2>2, SubSeqProperties
  <2> QED
    BY <2>1, <2>3
<1>10. \A i \in 1..Len(x) : (a \o bq)[i] = a[i] /\ (x \o l)[i] = x[i]
  <2>1. \A i \in 1..Len(x) : i \in 1..Len(a)
    BY <1>1, <1>8
  <2> QED
    BY <2>1, ConcatProperties
<1>11. \A i \in 1..Len(x) : t[i] = x[i]
  BY <1>7, <1>9, <1>10
<1>12. t = x
  BY <1>9, <1>11, SeqEqual
<1> QED
  BY <1>9, <1>12

\* Nothing arrives of a stream that is empty.
LEMMA PartOfEmpty ==
  ASSUME NEW S, NEW a \in Seq(S), NEW b \in Seq(S), NEW r, NEW live
  PROVE  Part(live, a, b, r, << >>) => Len(a) = 0
<1>1. SUFFICES ASSUME IsPrefix(a \o b, << >>) PROVE Len(a) = 0
  BY Zenon DEF Part
<1>2. Len(a \o b) <= 0
  BY <1>1, EmptySeq DEF IsPrefix
<1>3. Len(a \o b) = Len(a) + Len(b) /\ Len(a) \in Nat /\ Len(b) \in Nat
  BY ConcatProperties
<1> QED
  BY <1>2, <1>3

-----------------------------------------------------------------------------
(* Greatest elements *)

\* The greatest of a finite set of positions.
LEMMA MaxExists ==
  ASSUME NEW n \in Nat, NEW W \in SUBSET (1..n), W # {}
  PROVE  Max(W) \in W /\ \A y \in W : Max(W) >= y
<1> DEFINE P == {k \in Nat : \A V \in SUBSET (1..k) :
                   V # {} => \E x \in V : \A y \in V : x >= y}
<1>1. 0 \in P
  <2>1. 1..0 = {}
    OBVIOUS
  <2> QED
    BY <2>1
<1>2. ASSUME NEW k \in Nat, k \in P PROVE k + 1 \in P
  <2>1. SUFFICES ASSUME NEW V \in SUBSET (1..k + 1), V # {}
                 PROVE  \E x \in V : \A y \in V : x >= y
    OBVIOUS
  <2>2. CASE k + 1 \in V
    BY <2>2
  <2>3. CASE k + 1 \notin V
    <3>1. V \in SUBSET (1..k)
      BY <2>3
    <3> QED
      BY <1>2, <2>1, <3>1
  <2> QED
    BY <2>2, <2>3
<1> HIDE DEF P
<1>3. n \in P
  BY <1>1, <1>2, SetInduction
<1>4. \E x \in W : \A y \in W : x >= y
  BY <1>3 DEF P
<1> QED
  BY <1>4, Zenon DEF Max
=============================================================================
