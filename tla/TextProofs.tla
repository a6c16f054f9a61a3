----------------------------- MODULE TextProofs -----------------------------
(***************************************************************************)
(* Text, for every problem, solution and file of credentials.              *)
(***************************************************************************)
EXTENDS Text, SequenceTheorems, WellFoundedInduction, TLAPS

\* The tokens: every string.  Those the code looks for and writes are named
\* because the provers do not know them for strings.
Token ==
  STRING \cup Tags \cup Word
         \cup {"img", "<", ">", "&", ";", " ", "quote", "apostrophe"}
         \cup {"amp", "gt", "quot", "#39", "nbsp"}
         \cup {"tick", "fence", "newline", "return", "tab", "\\", "="}

-----------------------------------------------------------------------------
(* Induction, on sets: a set of numbers that has 0 and, with a number, the  *)
(* next one.                                                                *)

LEMMA Least ==
  ASSUME NEW S \in SUBSET Nat, S # {}
  PROVE  \E m \in S : \A k \in S : m <= k
<1> DEFINE R == OpToRel(<, Nat)
<1>1. IsWellFoundedOn(R, Nat)
  BY NatLessThanWellFounded
<1>2. \A x \in Nat, y \in Nat : <<y, x>> \in R <=> y < x
  BY DEF OpToRel
<1> HIDE DEF R
<1>3. PICK m \in S : \A k \in S : <<k, m>> \notin R
  BY <1>1, WFMin
<1>4. ASSUME NEW k \in S PROVE m <= k
  <2>1. k \in Nat /\ m \in Nat /\ ~ (k < m)
    BY <1>2, <1>3
  <2>2. QED
    BY <2>1
<1>5. QED
  BY <1>4

LEMMA Induction ==
  ASSUME NEW S, 0 \in S, \A n \in Nat : n \in S => n + 1 \in S
  PROVE  Nat \subseteq S
<1> DEFINE T == Nat \ S
<1> SUFFICES ASSUME T # {} PROVE FALSE
  OBVIOUS
<1>1. PICK m \in T : \A k \in T : m <= k
  BY Least
<1>2. m # 0 /\ m - 1 \in Nat /\ m - 1 \notin T
  BY <1>1
<1>3. QED
  BY <1>2

-----------------------------------------------------------------------------
(* What a scan puts out. *)

\* A scan goes on, and stops behind the text.
Scannable(text, next, put) ==
  /\ Len(text) \in Nat
  /\ \A i \in 1 .. Len(text) :
       /\ next[i] \in i + 1 .. Len(text) + 1
       /\ put[i] \in Seq(Token)

IsScan(out, text, next, put) ==
  out = [i \in 1 .. Len(text) + 1 |->
           IF i > Len(text) THEN <<>> ELSE put[i] \o out[next[i]]]

LEMMA ScanExists ==
  ASSUME NEW text, NEW next, NEW put, Scannable(text, next, put)
  PROVE  \E out : IsScan(out, text, next, put)
<1> DEFINE n == Len(text)
           Value(out, i) == IF i > n THEN <<>> ELSE put[i] \o out[next[i]]
           Works(out, k) == out = [i \in k .. n + 1 |-> Value(out, i)]
           S == {j \in Nat : j <= n => \E out : Works(out, n + 1 - j)}
<1>1. n \in Nat /\ \A i \in 1 .. n : next[i] \in i + 1 .. n + 1
  BY DEF Scannable
<1>2. ASSUME NEW f, NEW g, NEW i \in 1 .. n, f[next[i]] = g[next[i]]
      PROVE  Value(f, i) = Value(g, i)
  BY <1>2
<1>3. \A f : Value(f, n + 1) = <<>>
  BY <1>1
<1> HIDE DEF n, Value
<1>4. 0 \in S
  <2> DEFINE out == [i \in n + 1 .. n + 1 |-> <<>>]
  <2>1. n + 1 .. n + 1 = {n + 1} /\ n + 1 - 0 = n + 1
    BY <1>1
  <2>2. Value(out, n + 1) = <<>>
    BY <1>3
  <2>3. Works(out, n + 1)
    BY <2>1, <2>2
  <2> HIDE DEF Works, out
  <2>4. QED
    BY <2>1, <2>3
<1>5. ASSUME NEW j \in Nat, j \in S PROVE j + 1 \in S
  <2> SUFFICES ASSUME j + 1 <= n PROVE \E out : Works(out, n + 1 - (j + 1))
    OBVIOUS
  <2>1. PICK k \in 1 .. n : n + 1 - j = k + 1 /\ n + 1 - (j + 1) = k
    <3>1. n - j \in 1 .. n /\ n + 1 - j = n - j + 1 /\ n + 1 - (j + 1) = n - j
      BY <1>1
    <3>2. QED
      BY <3>1
  <2>2. \E rest : Works(rest, k + 1)
    <3>1. j <= n
      BY <1>1
    <3> HIDE DEF Works
    <3>2. QED
      BY <1>5, <2>1, <3>1
  <2>3. PICK rest : Works(rest, k + 1)
    BY <2>2
  <2> DEFINE out == [i \in k .. n + 1 |->
                       IF i = k THEN Value(rest, k) ELSE rest[i]]
  <2>4. \A i \in k + 1 .. n + 1 : out[i] = rest[i] /\ rest[i] = Value(rest, i)
    <3>1. \A i \in k + 1 .. n + 1 : rest[i] = Value(rest, i)
      BY <2>3
    <3>2. ASSUME NEW i \in k + 1 .. n + 1 PROVE i \in k .. n + 1 /\ i # k
      BY <1>1
    <3>3. QED
      BY <3>1, <3>2
  <2>5. out[k] = Value(rest, k)
    BY <1>1
  <2> HIDE DEF Works
  <2>6. ASSUME NEW i \in k .. n + 1 PROVE out[i] = Value(out, i)
    <3> HIDE DEF out
    <3>1. CASE i = n + 1
      BY <3>1, <2>4, <1>3, <1>1
    <3>2. CASE i <= n
      <4>1. i \in 1 .. n /\ next[i] \in k + 1 .. n + 1
        BY <3>2, <1>1
      <4>2. Value(rest, i) = Value(out, i)
        BY <4>1, <2>4, <1>2
      <4>3. CASE i = k
        BY <4>2, <4>3, <2>5
      <4>4. CASE i \in k + 1 .. n + 1
        BY <4>2, <4>4, <2>4
      <4>5. QED
        BY <4>3, <4>4, <1>1
    <3>3. QED
      BY <3>1, <3>2, <1>1
  <2>7. Works(out, k)
    BY <2>6 DEF Works
  <2>8. QED
    BY <2>7, <2>1
<1>6. n \in S
  <2> HIDE DEF S
  <2>1. QED
    BY <1>1, <1>4, <1>5, Induction
<1>7. \E out : Works(out, 1)
  <2>1. n + 1 - n = 1 /\ n <= n
    BY <1>1
  <2> HIDE DEF Works
  <2>2. QED
    BY <1>6, <1>1, <2>1
<1>8. QED
  BY <1>7 DEF n, Value, IsScan

LEMMA ScanDef ==
  ASSUME NEW text, NEW next, NEW put, Scannable(text, next, put)
  PROVE  IsScan(Scan(text, next, put), text, next, put)
<1>1. Scan(text, next, put) = CHOOSE out : IsScan(out, text, next, put)
  BY DEF Scan, IsScan
<1>2. QED
  BY <1>1, ScanExists

LEMMA ScanFacts ==
  ASSUME NEW text, NEW next, NEW put, Scannable(text, next, put)
  PROVE  /\ Scan(text, next, put)[Len(text) + 1] = <<>>
         /\ \A i \in 1 .. Len(text) :
              Scan(text, next, put)[i] = put[i] \o Scan(text, next, put)[next[i]]
         /\ \A i \in 1 .. Len(text) + 1 : Scan(text, next, put)[i] \in Seq(Token)
<1> DEFINE n == Len(text)
           out == Scan(text, next, put)
           S == {j \in Nat : j <= n => \A i \in n + 1 - j .. n + 1 : out[i] \in Seq(Token)}
<1>1. /\ n \in Nat
      /\ \A i \in 1 .. n : next[i] \in i + 1 .. n + 1 /\ put[i] \in Seq(Token)
  BY DEF Scannable
<1>2. out = [i \in 1 .. n + 1 |-> IF i > n THEN <<>> ELSE put[i] \o out[next[i]]]
  <2>1. IsScan(Scan(text, next, put), text, next, put)
    BY ScanDef
  <2>2. QED
    BY <2>1 DEF IsScan
<1> HIDE DEF n, out
<1>3. out[n + 1] = <<>>
  <2>1. n + 1 \in 1 .. n + 1 /\ n + 1 > n
    BY <1>1
  <2>2. QED
    BY <1>2, <2>1, Zenon
<1>4. ASSUME NEW i \in 1 .. n PROVE out[i] = put[i] \o out[next[i]]
  <2>1. i \in 1 .. n + 1 /\ ~ (i > n)
    BY <1>1
  <2>2. QED
    BY <1>2, <2>1, Zenon
<1>5. 0 \in S
  <2>1. n + 1 - 0 .. n + 1 = {n + 1} /\ <<>> \in Seq(Token)
    BY <1>1
  <2>2. QED
    BY <1>3, <2>1
<1>6. ASSUME NEW j \in Nat, j \in S PROVE j + 1 \in S
  <2> SUFFICES ASSUME j + 1 <= n, NEW i \in n + 1 - (j + 1) .. n + 1
               PROVE  out[i] \in Seq(Token)
    OBVIOUS
  <2>1. \A k \in n + 1 - j .. n + 1 : out[k] \in Seq(Token)
    BY <1>1, <1>6
  <2>2. CASE i \in n + 1 - j .. n + 1
    BY <2>1, <2>2
  <2>3. CASE i = n - j
    <3>1. i \in 1 .. n /\ next[i] \in n + 1 - j .. n + 1
      BY <1>1, <2>3
    <3>2. out[next[i]] \in Seq(Token) /\ put[i] \in Seq(Token)
      BY <1>1, <2>1, <3>1
    <3>3. QED
      BY <1>4, <3>1, <3>2, ConcatProperties
  <2>4. QED
    BY <1>1, <2>2, <2>3
<1>7. n \in S
  <2> HIDE DEF S
  <2>1. QED
    BY <1>1, <1>5, <1>6, Induction
<1>8. \A i \in 1 .. n + 1 : out[i] \in Seq(Token)
  <2>1. n + 1 - n = 1 /\ n <= n
    BY <1>1
  <2>2. QED
    BY <1>7, <2>1
<1>9. QED
  BY <1>3, <1>4, <1>8 DEF n, out

\* What comes out from i on is p, and what comes out from j on.
Comes(out, i, p, j) == out[i] = p \o out[j]

LEMMA ScanSteps ==
  ASSUME NEW text, NEW next, NEW put, Scannable(text, next, put),
         NEW i \in 1 .. Len(text)
  PROVE  Comes(Scan(text, next, put), i, put[i], next[i])
<1> DEFINE n == Len(text)
           out == Scan(text, next, put)
<1>1. out = [j \in 1 .. n + 1 |-> IF j > n THEN <<>> ELSE put[j] \o out[next[j]]]
  <2>1. IsScan(Scan(text, next, put), text, next, put)
    BY ScanDef
  <2>2. QED
    BY <2>1 DEF IsScan
<1>2. i \in 1 .. n + 1 /\ ~ (i > n)
  BY DEF Scannable
<1> HIDE DEF n, out
<1>3. out[i] = put[i] \o out[next[i]]
  BY <1>1, <1>2, Zenon
<1>4. QED
  BY <1>3 DEF out, Comes

-----------------------------------------------------------------------------
(* Texts that are made of pieces. *)

\* J[k] is the first k pieces, joined.
Joins(J, pieces) ==
  /\ J \in [0 .. Len(pieces) -> Seq(Token)]
  /\ J[0] = <<>>
  /\ \A k \in 1 .. Len(pieces) : J[k] = J[k - 1] \o pieces[k]

LEMMA JoinsExist ==
  ASSUME NEW pieces \in Seq(Seq(Token))
  PROVE  \E J : Joins(J, pieces)
<1> DEFINE n == Len(pieces)
           Works(J, m) == /\ J \in [0 .. m -> Seq(Token)]
                          /\ J[0] = <<>>
                          /\ \A k \in 1 .. m : J[k] = J[k - 1] \o pieces[k]
           S == {m \in Nat : m <= n => \E J : Works(J, m)}
<1>1. n \in Nat /\ \A k \in 1 .. n : pieces[k] \in Seq(Token)
  BY LenProperties, ElementOfSeq
<1> HIDE DEF n
<1>2. 0 \in S
  <2>1. Works([k \in 0 .. 0 |-> <<>>], 0)
    <3>1. <<>> \in Seq(Token) /\ 0 \in 0 .. 0
      OBVIOUS
    <3>2. QED
      BY <3>1
  <2> HIDE DEF Works
  <2>2. QED
    BY <2>1
<1>3. ASSUME NEW m \in Nat, m \in S PROVE m + 1 \in S
  <2> HIDE DEF Works
  <2> SUFFICES ASSUME m + 1 <= n PROVE \E J : Works(J, m + 1)
    OBVIOUS
  <2> USE DEF Works
  <2>1. \E J : Works(J, m)
    <3> HIDE DEF Works
    <3>1. QED
      BY <1>1, <1>3
  <2>2. PICK J : Works(J, m)
    BY <2>1
  <2> DEFINE K == [k \in 0 .. m + 1 |->
                     IF k = m + 1 THEN J[m] \o pieces[m + 1] ELSE J[k]]
  <2>3. J[m] \o pieces[m + 1] \in Seq(Token)
    BY <1>1, <2>2, ConcatProperties
  <2>4. \A k \in 0 .. m : K[k] = J[k]
    OBVIOUS
  <2>5. K[m + 1] = K[m] \o pieces[m + 1]
    <3>1. m + 1 \in 0 .. m + 1 /\ m \in 0 .. m
      OBVIOUS
    <3>2. K[m + 1] = J[m] \o pieces[m + 1]
      BY <3>1, Zenon
    <3>3. QED
      BY <2>4, <3>1, <3>2, Zenon
  <2>6. K \in [0 .. m + 1 -> Seq(Token)]
    <3>1. \A k \in 0 .. m + 1 : k # m + 1 => k \in 0 .. m
      OBVIOUS
    <3>2. QED
      BY <2>2, <2>3, <3>1
  <2> HIDE DEF K
  <2>7. ASSUME NEW k \in 1 .. m + 1 PROVE K[k] = K[k - 1] \o pieces[k]
    <3>1. CASE k = m + 1
      <4>1. k - 1 = m
        BY <3>1
      <4>2. QED
        BY <2>5, <3>1, <4>1, Zenon
    <3>2. CASE k \in 1 .. m
      <4>1. k \in 0 .. m /\ k - 1 \in 0 .. m
        BY <3>2
      <4>2. QED
        BY <2>2, <2>4, <3>2, <4>1
    <3>3. k = m + 1 \/ k \in 1 .. m
      OBVIOUS
    <3>4. QED
      BY <3>1, <3>2, <3>3, Zenon
  <2>8. K[0] = <<>>
    BY <2>2, <2>4
  <2>9. Works(K, m + 1)
    BY <2>6, <2>7, <2>8
  <2> HIDE DEF Works
  <2>10. QED
    BY <2>9
<1>4. n \in S
  <2> HIDE DEF S
  <2>1. QED
    BY <1>1, <1>2, <1>3, Induction
<1>5. \E J : Works(J, n)
  <2> HIDE DEF Works
  <2>1. QED
    BY <1>1, <1>4
<1>6. QED
  BY <1>5 DEF Joins, n

LEMMA FlattenIsJoin ==
  ASSUME NEW pieces \in Seq(Seq(Token)), NEW J, Joins(J, pieces)
  PROVE  FlattenSeq(pieces) = J[Len(pieces)]
<1> DEFINE n == Len(pieces)
           Works(f) == f = [i \in 1 .. n |->
                         IF i = 1 THEN pieces[i] ELSE f[i - 1] \o pieces[i]]
           Flat == CHOOSE f : Works(f)
<1>1. n \in Nat /\ \A k \in 1 .. n : pieces[k] \in Seq(Token)
  BY LenProperties, ElementOfSeq
<1>2. CASE n = 0
  <2>1. pieces = <<>>
    BY <1>2, EmptySeq
  <2>2. FlattenSeq(pieces) = pieces
    BY <1>2 DEF FlattenSeq
  <2>3. QED
    BY <1>2, <2>1, <2>2 DEF Joins
<1>3. CASE n # 0
  <2>1. FlattenSeq(pieces) = Flat[n]
    BY <1>3, Zenon DEF FlattenSeq
  <2> HIDE DEF n
  <2> DEFINE G == [i \in 1 .. n |-> J[i]]
  <2>2. \A k \in 1 .. n : J[k] = J[k - 1] \o pieces[k]
    BY DEF Joins, n
  <2>3. ASSUME NEW k \in 1 .. n
        PROVE  J[k] = IF k = 1 THEN pieces[k] ELSE G[k - 1] \o pieces[k]
    <3>1. CASE k = 1
      <4>0. k - 1 = 0 /\ J[0] = <<>>
        BY <3>1 DEF Joins
      <4>1. J[k] = <<>> \o pieces[k]
        BY <4>0, <2>2, Zenon
      <4>2. QED
        BY <1>1, <3>1, <4>1, ConcatEmptySeq
    <3>2. CASE k # 1
      <4>1. k - 1 \in 1 .. n
        BY <1>1, <3>2
      <4>2. J[k - 1] = G[k - 1]
        BY <4>1
      <4>3. QED
        BY <2>2, <3>2, <4>2, Zenon
    <3>3. QED
      BY <3>1, <3>2
  <2>4. Works(G)
    BY <2>3
  <2>5. Works(Flat)
    <3> HIDE DEF Works, G
    <3>1. QED
      BY <2>4, Zenon
  <2> HIDE DEF Flat
  <2> DEFINE S == {k \in Nat : k + 1 <= n => Flat[k + 1] = J[k + 1]}
  <2>6. ASSUME NEW k \in 1 .. n
        PROVE  Flat[k] = IF k = 1 THEN pieces[k] ELSE Flat[k - 1] \o pieces[k]
    BY <2>5
  <2>7. 0 \in S
    <3>1. 1 \in 1 .. n
      BY <1>1, <1>3
    <3>2. Flat[1] = pieces[1] /\ J[1] = pieces[1]
      BY <2>3, <2>6, <3>1
    <3>3. QED
      BY <3>2
  <2>8. ASSUME NEW k \in Nat, k \in S PROVE k + 1 \in S
    <3> SUFFICES ASSUME k + 2 <= n PROVE Flat[k + 2] = J[k + 2]
      OBVIOUS
    <3>1. k + 2 \in 1 .. n /\ k + 2 # 1 /\ (k + 2) - 1 = k + 1
      BY <1>1
    <3>2. Flat[k + 1] = J[k + 1]
      BY <1>1, <2>8
    <3>3. Flat[k + 2] = Flat[(k + 2) - 1] \o pieces[k + 2]
      BY <2>6, <3>1, Zenon
    <3>4. J[k + 2] = J[(k + 2) - 1] \o pieces[k + 2]
      BY <2>2, <3>1, Zenon
    <3>5. QED
      BY <3>1, <3>2, <3>3, <3>4, Zenon
  <2>9. n - 1 \in S
    <3>1. n - 1 \in Nat
      BY <1>1, <1>3
    <3> HIDE DEF S
    <3>2. QED
      BY <2>7, <2>8, <3>1, Induction
  <2>10. Flat[n] = J[n]
    <3>1. (n - 1) + 1 = n /\ (n - 1) + 1 <= n
      BY <1>1
    <3>2. QED
      BY <2>9, <3>1
  <2>11. QED
    BY <2>1, <2>10 DEF n
<1>4. QED
  BY <1>2, <1>3

LEMMA ConcatFacts ==
  ASSUME NEW a \in Seq(Token), NEW b \in Seq(Token)
  PROVE  /\ a \o b \in Seq(Token)
         /\ Len(a) \in Nat /\ Len(b) \in Nat
         /\ Len(a \o b) = Len(a) + Len(b)
         /\ \A i \in 1 .. Len(a) : (a \o b)[i] = a[i]
         /\ \A i \in 1 .. Len(b) : (a \o b)[Len(a) + i] = b[i]
OBVIOUS

LEMMA Associative ==
  ASSUME NEW a \in Seq(Token), NEW b \in Seq(Token), NEW c \in Seq(Token)
  PROVE  a \o (b \o c) = (a \o b) \o c
BY ConcatAssociative

LEMMA NoLess ==
  ASSUME NEW a \in Nat, NEW b \in Nat, NEW c \in Nat, NEW d, a <= b, d = b + c
  PROVE  a <= d
OBVIOUS

LEMMA JoinedPrefix ==
  ASSUME NEW pieces \in Seq(Seq(Token)), NEW J, Joins(J, pieces)
  PROVE  \A m \in 0 .. Len(pieces) : \A k \in 0 .. m :
           /\ Len(J[k]) <= Len(J[m])
           /\ \A i \in 1 .. Len(J[k]) : J[m][i] = J[k][i]
<1> DEFINE n == Len(pieces)
           Prefix(k, m) == /\ Len(J[k]) <= Len(J[m])
                           /\ \A i \in 1 .. Len(J[k]) : J[m][i] = J[k][i]
           S == {m \in Nat : m <= n => \A k \in 0 .. m : Prefix(k, m)}
<1>1. n \in Nat /\ \A k \in 1 .. n : pieces[k] \in Seq(Token)
  BY LenProperties, ElementOfSeq
<1>2. /\ \A k \in 0 .. n : J[k] \in Seq(Token) /\ Len(J[k]) \in Nat
      /\ \A k \in 1 .. n : J[k] = J[k - 1] \o pieces[k]
  BY LenProperties DEF Joins
<1> HIDE DEF n
<1>3. \A k \in 0 .. n : Prefix(k, k)
  BY <1>2
<1>4. 0 \in S
  <2>1. 0 <= n => Prefix(0, 0)
    BY <1>1, <1>3
  <2> HIDE DEF Prefix
  <2>2. QED
    BY <2>1
<1>5. ASSUME NEW m \in Nat, m \in S PROVE m + 1 \in S
  <2> SUFFICES ASSUME m + 1 <= n, NEW k \in 0 .. m + 1 PROVE Prefix(k, m + 1)
    <3> HIDE DEF Prefix
    <3>1. QED
      OBVIOUS
  <2>1. m \in 0 .. n /\ m + 1 \in 1 .. n /\ m + 1 \in 0 .. n /\ (m + 1) - 1 = m
    BY <1>1
  <2>2. CASE k = m + 1
    BY <1>3, <2>1, <2>2
  <2>3. CASE k \in 0 .. m
    <3>1. Prefix(k, m)
      <4> HIDE DEF Prefix
      <4>1. QED
        BY <1>1, <1>5, <2>3
    <3>2. J[m + 1] = J[m] \o pieces[m + 1]
      BY <1>2, <2>1, Zenon
    <3>3. k \in 0 .. n
      BY <1>1, <2>1, <2>3
    <3>4. /\ Len(J[m + 1]) = Len(J[m]) + Len(pieces[m + 1])
          /\ Len(pieces[m + 1]) \in Nat
          /\ \A i \in 1 .. Len(J[m]) : J[m + 1][i] = J[m][i]
      <4>1. J[m] \in Seq(Token) /\ pieces[m + 1] \in Seq(Token)
        BY <1>1, <1>2, <2>1
      <4>2. /\ Len(J[m] \o pieces[m + 1]) = Len(J[m]) + Len(pieces[m + 1])
            /\ \A i \in 1 .. Len(J[m]) : (J[m] \o pieces[m + 1])[i] = J[m][i]
            /\ Len(pieces[m + 1]) \in Nat
        BY <4>1, ConcatFacts
      <4>3. QED
        BY <3>2, <4>2, Zenon
    <3>5. Len(J[k]) \in Nat /\ Len(J[m]) \in Nat
      BY <1>2, <2>1, <3>3
    <3>6. Len(J[k]) <= Len(J[m])
      BY <3>1
    <3>7. Len(J[k]) <= Len(J[m + 1])
      <4>1. Len(pieces[m + 1]) \in Nat /\ Len(J[m + 1]) = Len(J[m]) + Len(pieces[m + 1])
        BY <3>4, Zenon
      <4>2. QED
        BY <3>5, <3>6, <4>1, NoLess, Zenon
    <3>8. ASSUME NEW i \in 1 .. Len(J[k]) PROVE J[m + 1][i] = J[k][i]
      <4>1. i \in 1 .. Len(J[m])
        BY <3>5, <3>6
      <4>2. J[m][i] = J[k][i]
        BY <3>1
      <4>3. QED
        BY <3>4, <4>1, <4>2, Zenon
    <3>9. QED
      BY <3>7, <3>8, Zenon
  <2>4. QED
    BY <2>2, <2>3
<1>6. Nat \subseteq S
  <2> HIDE DEF S
  <2>1. QED
    BY <1>4, <1>5, Induction
<1>7. \A m \in 0 .. n : \A k \in 0 .. m : Prefix(k, m)
  <2> HIDE DEF Prefix
  <2>1. \A m \in 0 .. n : m \in Nat /\ m <= n
    BY <1>1
  <2>2. QED
    BY <1>6, <2>1
<1>8. QED
  BY <1>7 DEF n

LEMMA Offset ==
  ASSUME NEW c \in Nat, NEW l \in Nat, NEW i \in 1 .. l
  PROVE  c + i \in 1 .. c + l /\ ~ (c + i <= c) /\ (c + i) - c = i
OBVIOUS

\* A piece stands in the text, behind c.
Stands(text, c, piece) ==
  /\ c + Len(piece) <= Len(text)
  /\ \A i \in 1 .. Len(piece) : text[c + i] = piece[i]

LEMMA PieceAt ==
  ASSUME NEW pieces \in Seq(Seq(Token)), NEW J, Joins(J, pieces),
         NEW k \in 1 .. Len(pieces)
  PROVE  /\ Len(J[k - 1]) \in Nat
         /\ pieces[k] \in Seq(Token)
         /\ Len(pieces[k]) \in Nat
         /\ Len(J[k]) = Len(J[k - 1]) + Len(pieces[k])
         /\ Stands(FlattenSeq(pieces), Len(J[k - 1]), pieces[k])
<1> DEFINE n == Len(pieces)
<1>1. n \in Nat /\ pieces[k] \in Seq(Token) /\ k - 1 \in 0 .. n /\ k \in 0 .. n
  BY LenProperties, ElementOfSeq
<1>2. FlattenSeq(pieces) = J[n] /\ n \in 0 .. n
  BY <1>1, FlattenIsJoin
<1>3. /\ J[k - 1] \in Seq(Token)
      /\ J[k] = J[k - 1] \o pieces[k]
  BY <1>1 DEF Joins
<1> HIDE DEF n
<1>4. /\ Len(J[k - 1]) \in Nat /\ Len(pieces[k]) \in Nat
      /\ Len(J[k]) = Len(J[k - 1]) + Len(pieces[k])
  <2>1. Len(J[k - 1] \o pieces[k]) = Len(J[k - 1]) + Len(pieces[k])
    BY <1>1, <1>3, ConcatProperties
  <2>2. QED
    BY <1>1, <1>3, <2>1, LenProperties
<1>5. /\ Len(J[k]) <= Len(J[n])
      /\ \A i \in 1 .. Len(J[k]) : J[n][i] = J[k][i]
  <2>1. \A m \in 0 .. n : \A j \in 0 .. m :
          /\ Len(J[j]) <= Len(J[m])
          /\ \A i \in 1 .. Len(J[j]) : J[m][i] = J[j][i]
    BY JoinedPrefix DEF n
  <2>2. n \in 0 .. n /\ k \in 0 .. n
    BY <1>1
  <2>3. QED
    BY <2>1, <2>2, Zenon
<1>6. ASSUME NEW i \in 1 .. Len(pieces[k])
      PROVE  J[n][Len(J[k - 1]) + i] = pieces[k][i]
  <2> DEFINE c == Len(J[k - 1])
  <2>1. /\ c + i \in 1 .. Len(J[k])
        /\ c + i \in 1 .. Len(J[k - 1]) + Len(pieces[k])
        /\ ~ (c + i <= Len(J[k - 1]))
        /\ (c + i) - c = i
    BY <1>4, Offset, Zenon
  <2>2. (J[k - 1] \o pieces[k])[c + i] = pieces[k][(c + i) - c]
    BY <1>1, <1>3, <2>1, ConcatProperties
  <2>3. QED
    BY <1>3, <1>5, <2>1, <2>2, Zenon
<1>7. Stands(J[n], Len(J[k - 1]), pieces[k])
  BY <1>4, <1>5, <1>6 DEF Stands
<1>8. QED
  BY <1>1, <1>2, <1>4, <1>7

-----------------------------------------------------------------------------
(* Scans of texts that are made of pieces. *)

\* Where nothing is replaced, what comes out is what is there.
LEMMA Copied ==
  ASSUME NEW text, NEW next, NEW put, Scannable(text, next, put),
         NEW p \in Seq(Token), NEW c \in Nat, c + Len(p) <= Len(text),
         \A i \in 1 .. Len(p) : next[c + i] = c + i + 1 /\ put[c + i] = <<p[i]>>
  PROVE  Comes(Scan(text, next, put), c + 1, p, c + Len(p) + 1)
<1> DEFINE n == Len(text)
           l == Len(p)
           out == Scan(text, next, put)
           Behind(j) == SubSeq(p, l - j + 1, l)
           P(j) == j <= l => out[c + l - j + 1] = Behind(j) \o out[c + l + 1]
           S == {j \in Nat : P(j)}
<1>1. n \in Nat /\ l \in Nat /\ c + l <= n
  BY LenProperties DEF Scannable
<1>2. /\ \A i \in 1 .. n : out[i] = put[i] \o out[next[i]]
      /\ \A i \in 1 .. n + 1 : out[i] \in Seq(Token)
  <2>1. ASSUME NEW i \in 1 .. n PROVE out[i] = put[i] \o out[next[i]]
    <3>1. Comes(out, i, put[i], next[i])
      BY ScanSteps
    <3> HIDE DEF out
    <3>2. QED
      BY <3>1 DEF Comes
  <2>2. \A i \in 1 .. n + 1 : out[i] \in Seq(Token)
    BY ScanFacts, Zenon
  <2>3. QED
    BY <2>1, <2>2
<1>3. \A i \in 1 .. l : next[c + i] = c + i + 1 /\ put[c + i] = <<p[i]>>
  OBVIOUS
<1>4. \A i \in 1 .. l : p[i] \in Token
  BY ElementOfSeq
<1>5. Behind(0) = <<>> /\ Behind(l) = p
  <2>1. l - 0 + 1 = l + 1 /\ l - l + 1 = 1
    BY <1>1
  <2>2. SubSeq(p, l + 1, l) = <<>> /\ SubSeq(p, 1, l) = p
    BY <1>1, SubSeqEmpty, SubSeqFull
  <2>3. QED
    BY <2>1, <2>2
<1>6. ASSUME NEW j \in Nat, j + 1 <= l
      PROVE  Behind(j + 1) = <<p[l - j]>> \o Behind(j) /\ Behind(j) \in Seq(Token)
  <2>1. /\ l - j \in 1 .. l /\ l \in l - j .. l
        /\ l - (j + 1) + 1 = l - j /\ l - j + 1 = (l - j) + 1
    BY <1>1, <1>6
  <2>2. SubSeq(p, l - j, l) = <<p[l - j]>> \o SubSeq(p, (l - j) + 1, l)
    BY <2>1, SubSeqRecursiveFirst
  <2>3. SubSeq(p, l - j + 1, l) \in Seq(Token)
    <3>1. \A i \in l - j + 1 .. l : p[i] \in Token
      <4>1. \A i \in l - j + 1 .. l : i \in 1 .. l
        BY <1>1, <1>6
      <4>2. QED
        BY <1>4, <4>1, Zenon
    <3>2. l - j + 1 \in Int /\ l \in Int
      BY <1>1
    <3>3. QED
      BY <3>1, <3>2, SubSeqProperties
  <2>4. QED
    BY <2>1, <2>2, <2>3
<1> HIDE DEF n, l, out, Behind
<1>7. P(0)
  <2>1. c + l - 0 + 1 = c + l + 1 /\ c + l + 1 \in 1 .. n + 1
    BY <1>1
  <2>2. out[c + l + 1] = <<>> \o out[c + l + 1]
    BY <1>2, <2>1, ConcatEmptySeq
  <2>3. QED
    BY <1>5, <2>1, <2>2
<1>8. ASSUME NEW j \in Nat, P(j) PROVE P(j + 1)
  <2> SUFFICES ASSUME j + 1 <= l
               PROVE  out[c + l - (j + 1) + 1] = Behind(j + 1) \o out[c + l + 1]
    BY Zenon
  <2>0. PICK i \in 1 .. l : i = l - j
    BY <1>1
  <2> DEFINE rest == out[c + l + 1]
  <2>1. /\ c + i \in 1 .. n /\ c + l + 1 \in 1 .. n + 1
        /\ c + l - (j + 1) + 1 = c + i /\ c + l - j + 1 = c + i + 1
    BY <1>1, <2>0
  <2>2. out[c + i + 1] = Behind(j) \o rest
    <3>1. j <= l
      BY <1>1
    <3>2. out[c + l - j + 1] = Behind(j) \o rest
      BY <1>8, <3>1, Zenon
    <3>3. QED
      BY <2>1, <3>2, Zenon
  <2>3. out[c + i] = put[c + i] \o out[next[c + i]]
    BY <1>2, <2>1, Zenon
  <2>4. out[c + i] = <<p[i]>> \o (Behind(j) \o rest)
    BY <1>3, <2>1, <2>2, <2>3, Zenon
  <2>5. rest \in Seq(Token)
    BY <1>2, <2>1, Zenon
  <2>6. Behind(j + 1) = <<p[i]>> \o Behind(j) /\ Behind(j) \in Seq(Token)
    BY <1>6, <2>0, Zenon
  <2>7. p[i] \in Token
    BY <1>4, Zenon
  <2> HIDE DEF rest
  <2>8. <<p[i]>> \o (Behind(j) \o rest) = (<<p[i]>> \o Behind(j)) \o rest
    <3>1. <<p[i]>> \in Seq(Token)
      BY <2>7
    <3>2. QED
      BY <2>5, <2>6, <3>1, Associative, Zenon
  <2>9. QED
    BY <2>1, <2>4, <2>6, <2>8, Zenon DEF rest
<1>9. P(l)
  <2> HIDE DEF P
  <2>1. 0 \in S /\ \A j \in Nat : j \in S => j + 1 \in S
    BY <1>7, <1>8
  <2> HIDE DEF S
  <2>2. l \in S
    BY <1>1, <2>1, Induction
  <2>3. QED
    BY <2>2 DEF S
<1>10. out[c + 1] = p \o out[c + l + 1]
  <2>1. c + l - l + 1 = c + 1 /\ l <= l
    BY <1>1
  <2>2. QED
    BY <1>5, <1>9, <2>1
<1>11. QED
  BY <1>10 DEF l, out, Comes

\* What comes out of a text piece by piece is the images of its pieces, joined.
PieceByPiece(out, pieces, J, images) ==
  /\ pieces \in Seq(Seq(Token)) /\ Joins(J, pieces)
  /\ images \in Seq(Seq(Token)) /\ Len(images) = Len(pieces)
  /\ \A k \in 1 .. Len(pieces) :
       Comes(out, Len(J[k - 1]) + 1, images[k], Len(J[k]) + 1)

LEMMA ScanPieces ==
  ASSUME NEW text, NEW next, NEW put, Scannable(text, next, put),
         NEW pieces, NEW J, NEW images, text = FlattenSeq(pieces),
         PieceByPiece(Scan(text, next, put), pieces, J, images)
  PROVE  Scan(text, next, put)[1] = FlattenSeq(images)
<1>0. /\ pieces \in Seq(Seq(Token)) /\ Joins(J, pieces)
      /\ images \in Seq(Seq(Token)) /\ Len(images) = Len(pieces)
      /\ \A k \in 1 .. Len(pieces) :
           Comes(Scan(text, next, put), Len(J[k - 1]) + 1, images[k], Len(J[k]) + 1)
  BY DEF PieceByPiece
<1> USE <1>0
<1> DEFINE n == Len(pieces)
           out == Scan(text, next, put)
           At(k) == out[Len(J[k]) + 1]
<1>1. n \in Nat /\ \A k \in 1 .. n : images[k] \in Seq(Token)
  BY LenProperties, ElementOfSeq
<1>2. PICK K : Joins(K, images)
  BY JoinsExist
<1>3. FlattenSeq(images) = K[n]
  BY <1>2, FlattenIsJoin
<1>4. /\ K[0] = <<>> /\ \A k \in 0 .. n : K[k] \in Seq(Token)
      /\ \A k \in 1 .. n : K[k] = K[k - 1] \o images[k]
  BY <1>2 DEF Joins
<1>5. /\ J[0] = <<>> /\ text = J[n]
  BY FlattenIsJoin DEF Joins
<1>6. \A k \in 1 .. n : At(k - 1) = images[k] \o At(k)
  BY Zenon DEF Comes
<1>7. \A k \in 0 .. n : At(k) \in Seq(Token)
  <2> SUFFICES ASSUME NEW k \in 0 .. n PROVE At(k) \in Seq(Token)
    OBVIOUS
  <2>0. k \in 0 .. Len(pieces) /\ n \in 0 .. Len(pieces) /\ k \in 0 .. n
    BY <1>1
  <2>1. J[k] \in Seq(Token) /\ J[n] \in Seq(Token)
    <3>1. \A m \in 0 .. Len(pieces) : J[m] \in Seq(Token)
      BY DEF Joins
    <3>2. QED
      BY <2>0, <3>1, Zenon
  <2>2. Len(J[k]) <= Len(J[n])
    BY <2>0, JoinedPrefix, Zenon
  <2>3. Len(J[k]) \in Nat /\ Len(text) \in Nat
    BY <1>5, <2>1, LenProperties
  <2>4. Len(J[k]) + 1 \in 1 .. Len(text) + 1
    BY <1>5, <2>2, <2>3
  <2>5. QED
    BY <2>4, ScanFacts
<1>8. At(0) = out[1] /\ At(n) = <<>>
  <2>1. Len(J[0]) + 1 = 1
    BY <1>5
  <2>2. out[Len(text) + 1] = <<>>
    BY ScanFacts
  <2>3. QED
    BY <1>5, <2>1, <2>2
<1> DEFINE P(k) == k <= n => out[1] = K[k] \o At(k)
           S == {k \in Nat : P(k)}
<1> HIDE DEF n, out, At
<1>9. P(0)
  <2>1. At(0) = <<>> \o At(0)
    BY <1>1, <1>7, ConcatEmptySeq
  <2>2. QED
    BY <1>4, <1>8, <2>1, Zenon
<1>10. ASSUME NEW k \in Nat, P(k) PROVE P(k + 1)
  <2> SUFFICES ASSUME k + 1 <= n PROVE out[1] = K[k + 1] \o At(k + 1)
    BY Zenon
  <2>1. /\ k + 1 \in 1 .. n /\ (k + 1) - 1 = k /\ k \in 0 .. n /\ k + 1 \in 0 .. n
        /\ k <= n
    BY <1>1
  <2>2. out[1] = K[k] \o At(k)
    BY <1>10, <2>1, Zenon
  <2>3. At(k) = images[k + 1] \o At(k + 1)
    BY <1>6, <2>1, Zenon
  <2>4. K[k + 1] = K[k] \o images[k + 1]
    BY <1>4, <2>1, Zenon
  <2>5. K[k] \o (images[k + 1] \o At(k + 1)) = (K[k] \o images[k + 1]) \o At(k + 1)
    <3>1. /\ K[k] \in Seq(Token) /\ images[k + 1] \in Seq(Token)
          /\ At(k + 1) \in Seq(Token)
      BY <1>1, <1>4, <1>7, <2>1, Zenon
    <3>2. QED
      BY <3>1, Associative, Zenon
  <2>6. QED
    BY <2>2, <2>3, <2>4, <2>5, Zenon
<1>11. P(n)
  <2> HIDE DEF P
  <2>1. 0 \in S /\ \A k \in Nat : k \in S => k + 1 \in S
    BY <1>9, <1>10
  <2> HIDE DEF S
  <2>2. n \in S
    BY <1>1, <2>1, Induction
  <2>3. QED
    BY <2>2 DEF S
<1>12. out[1] = K[n]
  <2>0. n <= n /\ n \in 0 .. n
    BY <1>1
  <2>1. out[1] = K[n] \o <<>>
    BY <1>8, <1>11, <2>0, Zenon
  <2>2. K[n] \in Seq(Token)
    BY <1>4, <2>0, Zenon
  <2>3. QED
    BY <2>1, <2>2, ConcatEmptySeq
<1>13. QED
  BY <1>3, <1>12 DEF out, n

-----------------------------------------------------------------------------
(* A pass that replaces some of the pieces. *)

Replaceable(text, end, with) ==
  /\ text \in Seq(Token)
  /\ \A i \in 1 .. Len(text) :
       end[i] # 0 => end[i] \in i .. Len(text) /\ with[i] \in Seq(Token)

\* Nothing is replaced in piece k, which starts behind c.
Kept(end, c, piece, image) ==
  image = piece /\ \A i \in 1 .. Len(piece) : end[c + i] = 0

\* The piece behind c is replaced as a whole.
Hit(end, with, c, piece, image) ==
  Len(piece) # 0 /\ end[c + 1] = c + Len(piece) /\ image = with[c + 1]

Replaces(end, with, pieces, J, images) ==
  /\ pieces \in Seq(Seq(Token)) /\ Joins(J, pieces)
  /\ images \in Seq(Seq(Token)) /\ Len(images) = Len(pieces)
  /\ Replaceable(FlattenSeq(pieces), end, with)
  /\ \A k \in 1 .. Len(pieces) :
       \/ Kept(end, Len(J[k - 1]), pieces[k], images[k])
       \/ Hit(end, with, Len(J[k - 1]), pieces[k], images[k])

LEMMA Pass ==
  ASSUME NEW pieces, NEW J, NEW images, NEW end, NEW with,
         Replaces(end, with, pieces, J, images)
  PROVE  Replace(FlattenSeq(pieces), end, with) = FlattenSeq(images)
<1>0. /\ pieces \in Seq(Seq(Token)) /\ Joins(J, pieces)
      /\ images \in Seq(Seq(Token)) /\ Len(images) = Len(pieces)
      /\ Replaceable(FlattenSeq(pieces), end, with)
      /\ \A k \in 1 .. Len(pieces) :
           \/ Kept(end, Len(J[k - 1]), pieces[k], images[k])
           \/ Hit(end, with, Len(J[k - 1]), pieces[k], images[k])
  BY DEF Replaces
<1> USE <1>0
<1> DEFINE text == FlattenSeq(pieces)
           next == [i \in DOMAIN text |-> IF end[i] = 0 THEN i + 1 ELSE end[i] + 1]
           put == [i \in DOMAIN text |-> IF end[i] = 0 THEN <<text[i]>> ELSE with[i]]
           out == Scan(text, next, put)
<1>1. /\ text \in Seq(Token) /\ Len(text) \in Nat /\ DOMAIN text = 1 .. Len(text)
      /\ \A i \in 1 .. Len(text) :
           end[i] # 0 => end[i] \in i .. Len(text) /\ with[i] \in Seq(Token)
  BY LenProperties DEF Replaceable
<1>t. text = FlattenSeq(pieces)
  OBVIOUS
<1> HIDE DEF text
<1>2. /\ \A i \in 1 .. Len(text) : end[i] = 0 => next[i] = i + 1 /\ put[i] = <<text[i]>>
      /\ \A i \in 1 .. Len(text) : end[i] # 0 => next[i] = end[i] + 1 /\ put[i] = with[i]
  BY <1>1
<1> HIDE DEF next, put
<1>3. Scannable(text, next, put)
  <2> SUFFICES ASSUME NEW i \in 1 .. Len(text)
               PROVE  next[i] \in i + 1 .. Len(text) + 1 /\ put[i] \in Seq(Token)
    BY <1>1 DEF Scannable
  <2>1. CASE end[i] = 0
    <3>1. next[i] = i + 1 /\ put[i] = <<text[i]>>
      BY <1>2, <2>1
    <3>2. text[i] \in Token
      BY <1>1, ElementOfSeq
    <3>3. QED
      BY <1>1, <3>1, <3>2
  <2>2. CASE end[i] # 0
    <3>1. end[i] \in i .. Len(text) /\ put[i] \in Seq(Token) /\ next[i] = end[i] + 1
      BY <1>1, <1>2, <2>2
    <3>2. QED
      BY <1>1, <3>1
  <2>3. QED
    BY <2>1, <2>2
<1>4. ASSUME NEW k \in 1 .. Len(pieces)
      PROVE  Comes(out, Len(J[k - 1]) + 1, images[k], Len(J[k]) + 1)
  <2> DEFINE c == Len(J[k - 1])
             p == pieces[k]
  <2>1. /\ c \in Nat /\ p \in Seq(Token) /\ Len(p) \in Nat
        /\ Len(J[k]) = c + Len(p)
        /\ c + Len(p) <= Len(text)
        /\ \A i \in 1 .. Len(p) : text[c + i] = p[i]
    <3>1. /\ Len(J[k - 1]) \in Nat
          /\ pieces[k] \in Seq(Token)
          /\ Len(pieces[k]) \in Nat
          /\ Len(J[k]) = Len(J[k - 1]) + Len(pieces[k])
          /\ Stands(text, Len(J[k - 1]), pieces[k])
      BY PieceAt, Zenon DEF text
    <3>2. QED
      BY <3>1, Zenon DEF Stands
  <2>a. Kept(end, c, p, images[k]) \/ Hit(end, with, c, p, images[k])
    OBVIOUS
  <2> HIDE DEF c, p, out
  <2>2. \A i \in 1 .. Len(p) : c + i \in 1 .. Len(text)
    BY <1>1, <2>1
  <2>3. CASE Kept(end, c, p, images[k])
    <3>1. \A i \in 1 .. Len(p) : next[c + i] = c + i + 1 /\ put[c + i] = <<p[i]>>
      BY <1>2, <2>1, <2>2, <2>3, Zenon DEF Kept
    <3>2. Comes(out, c + 1, p, c + Len(p) + 1)
      BY <1>3, <2>1, <3>1, Copied, Zenon DEF out
    <3>3. QED
      BY <2>1, <2>3, <3>2, Zenon DEF Kept, c
  <2>4. CASE Hit(end, with, c, p, images[k])
    <3>1. /\ 1 \in 1 .. Len(p) /\ c + Len(p) # 0 /\ end[c + 1] = c + Len(p)
          /\ images[k] = with[c + 1]
      BY <2>1, <2>4 DEF Hit
    <3>2. /\ c + 1 \in 1 .. Len(text)
          /\ next[c + 1] = c + Len(p) + 1
          /\ put[c + 1] = images[k]
      BY <1>2, <2>2, <3>1, Zenon
    <3>3. Comes(out, c + 1, put[c + 1], next[c + 1])
      BY <1>3, <3>2, ScanSteps, Zenon DEF out
    <3>4. QED
      BY <2>1, <3>2, <3>3, Zenon DEF c
  <2>5. QED
    BY <2>3, <2>4, <2>a
<1>5. out[1] = FlattenSeq(images)
  <2>1. PieceByPiece(out, pieces, J, images)
    BY <1>4 DEF PieceByPiece
  <2>2. QED
    BY <1>3, <1>t, <2>1, ScanPieces, Zenon
<1>6. Replace(text, end, with) = out[1]
  BY DEF Replace, out, next, put
<1>7. QED
  BY <1>5, <1>6 DEF text

-----------------------------------------------------------------------------
(* Literal patterns. *)

LEMMA LiteralAt ==
  ASSUME NEW text \in Seq(Token), NEW word \in Seq(Token), word # <<>>,
         NEW i \in 1 .. Len(text)
  PROVE  /\ Literal(text, word)[i] # 0 =>
              /\ Literal(text, word)[i] = i + Len(word) - 1
              /\ Literal(text, word)[i] \in i .. Len(text)
              /\ \A j \in 1 .. Len(word) : text[i + j - 1] = word[j]
         /\ /\ i + Len(word) - 1 <= Len(text)
            /\ \A j \in 1 .. Len(word) : text[i + j - 1] = word[j]
            => Literal(text, word)[i] = i + Len(word) - 1
<1> DEFINE l == Len(word)
           last == i + l - 1
           sub == SubSeq(text, i, last)
           end == Literal(text, word)
<1>1. Len(text) \in Nat /\ l \in Nat \ {0} /\ DOMAIN text = 1 .. Len(text) /\ i \in Nat
  BY LenProperties, EmptySeq
<1>2. end[i] = IF last <= Len(text) /\ sub = word THEN last ELSE 0
  BY <1>1 DEF Literal
<1>3. last \in i .. last /\ last \in Nat
  BY <1>1
<1>4. ASSUME last <= Len(text)
      PROVE  /\ sub \in Seq(Token) /\ Len(sub) = l
             /\ \A j \in 1 .. l : sub[j] = text[i + j - 1]
  <2>1. \A j \in i .. last : text[j] \in Token
    <3>1. \A j \in i .. last : j \in 1 .. Len(text)
      BY <1>1, <1>4
    <3>2. QED
      BY <3>1, ElementOfSeq
  <2>2. /\ sub \in Seq(Token)
        /\ Len(sub) = IF i <= last THEN last - i + 1 ELSE 0
        /\ \A j \in 1 .. last - i + 1 : sub[j] = text[i + j - 1]
    BY <1>1, <2>1, SubSeqProperties
  <2>3. last - i + 1 = l /\ i <= last
    BY <1>1
  <2>4. QED
    BY <2>2, <2>3
<1> HIDE DEF l, last, sub, end
<1>5. ASSUME end[i] # 0
      PROVE  /\ end[i] = last /\ last \in i .. Len(text)
             /\ \A j \in 1 .. l : text[i + j - 1] = word[j]
  <2>1. last <= Len(text) /\ sub = word /\ end[i] = last
    BY <1>2, <1>5
  <2>2. QED
    BY <1>1, <1>3, <1>4, <2>1
<1>6. ASSUME last <= Len(text), \A j \in 1 .. l : text[i + j - 1] = word[j]
      PROVE  end[i] = last
  <2>1. \A j \in 1 .. l : sub[j] = word[j]
    BY <1>4, <1>6
  <2>2. sub = word
    BY <1>4, <1>6, <2>1, SeqEqual DEF l
  <2>3. QED
    BY <1>2, <1>6, <2>2
<1>7. QED
  BY <1>5, <1>6 DEF l, last, end

\* No match begins in the piece behind c.
NoMatch(end, c, piece) == \A i \in 1 .. Len(piece) : end[c + i] = 0

\* Wherever a piece has the first token of the word, it goes on with others.
Clear(piece, word) ==
  \A i \in 1 .. Len(piece) : piece[i] = word[1] =>
    \E j \in 1 .. Len(word) : i + j - 1 <= Len(piece) /\ piece[i + j - 1] # word[j]

LEMMA ClearOfMatches ==
  ASSUME NEW text \in Seq(Token), NEW word \in Seq(Token), word # <<>>,
         NEW c \in Nat, NEW piece \in Seq(Token), Stands(text, c, piece),
         Clear(piece, word)
  PROVE  NoMatch(Literal(text, word), c, piece)
<1> SUFFICES ASSUME NEW i \in 1 .. Len(piece), Literal(text, word)[c + i] # 0
             PROVE  FALSE
  BY DEF NoMatch
<1>1. /\ Len(piece) \in Nat /\ Len(text) \in Nat /\ Len(word) \in Nat \ {0}
      /\ i \in Nat
  BY LenProperties, EmptySeq
<1>2. c + i \in 1 .. Len(text) /\ \A j \in 1 .. Len(piece) : text[c + j] = piece[j]
  <2>1. c + Len(piece) <= Len(text) /\ \A j \in 1 .. Len(piece) : text[c + j] = piece[j]
    BY Zenon DEF Stands
  <2>2. c + i \in 1 .. Len(text)
    BY <1>1, <2>1
  <2>3. QED
    BY <2>1, <2>2
<1>3. \A j \in 1 .. Len(word) : text[c + i + j - 1] = word[j]
  BY <1>2, LiteralAt
<1>4. piece[i] = word[1]
  <2>1. 1 \in 1 .. Len(word) /\ c + i + 1 - 1 = c + i
    BY <1>1
  <2>2. QED
    BY <1>2, <1>3, <2>1
<1>5. PICK j \in 1 .. Len(word) : i + j - 1 <= Len(piece) /\ piece[i + j - 1] # word[j]
  BY <1>4 DEF Clear
<1>6. i + j - 1 \in 1 .. Len(piece) /\ c + (i + j - 1) = c + i + j - 1
  BY <1>1, <1>5
<1>7. QED
  BY <1>2, <1>3, <1>5, <1>6

\* A pass that replaces a word: a piece is the word, or nothing in it matches.
LEMMA LiteralPass ==
  ASSUME NEW pieces \in Seq(Seq(Token)), NEW J, Joins(J, pieces),
         NEW images \in Seq(Seq(Token)), Len(images) = Len(pieces),
         NEW word \in Seq(Token), word # <<>>, NEW with \in Seq(Token),
         \A k \in 1 .. Len(pieces) :
           \/ pieces[k] = word /\ images[k] = with
           \/ /\ NoMatch(Literal(FlattenSeq(pieces), word), Len(J[k - 1]), pieces[k])
              /\ images[k] = pieces[k]
  PROVE  regex_replace(FlattenSeq(pieces), Literal(FlattenSeq(pieces), word), with)
           = FlattenSeq(images)
<1> DEFINE text == FlattenSeq(pieces)
           end == Literal(text, word)
           put == [i \in DOMAIN text |-> with]
<1>1. text \in Seq(Token) /\ DOMAIN text = 1 .. Len(text) /\ Len(text) \in Nat
  <2>1. text = J[Len(pieces)] /\ Len(pieces) \in 0 .. Len(pieces)
    BY FlattenIsJoin, LenProperties
  <2>2. QED
    BY <2>1, LenProperties DEF Joins
<1>2. \A i \in 1 .. Len(text) : put[i] = with
  BY <1>1
<1>3. Replaceable(text, end, put)
  <2>1. \A i \in 1 .. Len(text) : end[i] # 0 => end[i] \in i .. Len(text)
    BY <1>1, LiteralAt
  <2>2. QED
    BY <1>1, <1>2, <2>1 DEF Replaceable
<1>4. ASSUME NEW k \in 1 .. Len(pieces), pieces[k] = word, images[k] = with
      PROVE  Hit(end, put, Len(J[k - 1]), pieces[k], images[k])
  <2> DEFINE c == Len(J[k - 1])
  <2>1. c \in Nat /\ Stands(text, c, word)
    BY <1>4, PieceAt
  <2>2. Len(word) \in Nat \ {0}
    BY LenProperties, EmptySeq
  <2>3. /\ c + Len(word) <= Len(text)
        /\ \A j \in 1 .. Len(word) : text[c + j] = word[j]
    BY <2>1, Zenon DEF Stands
  <2> HIDE DEF c, end, put, text
  <2>4. /\ c + 1 \in 1 .. Len(text) /\ c + 1 + Len(word) - 1 = c + Len(word)
        /\ \A j \in 1 .. Len(word) : c + 1 + j - 1 = c + j
    BY <1>1, <2>1, <2>2, <2>3
  <2>5. end[c + 1] = c + Len(word)
    <3>1. \A j \in 1 .. Len(word) : text[c + 1 + j - 1] = word[j]
      BY <2>3, <2>4
    <3>2. QED
      BY <1>1, <2>3, <2>4, <3>1, LiteralAt DEF end
  <2>6. QED
    BY <1>2, <1>4, <2>2, <2>4, <2>5 DEF Hit, c
<1>5. \A k \in 1 .. Len(pieces) :
        \/ Kept(end, Len(J[k - 1]), pieces[k], images[k])
        \/ Hit(end, put, Len(J[k - 1]), pieces[k], images[k])
  BY <1>4 DEF Kept, NoMatch
<1>6. Replace(text, end, put) = FlattenSeq(images)
  <2>1. Replaces(end, put, pieces, J, images)
    BY <1>3, <1>5 DEF Replaces
  <2> HIDE DEF end, put
  <2>2. QED
    BY ONLY <2>1, Pass
<1>7. QED
  BY <1>6 DEF regex_replace

-----------------------------------------------------------------------------
(* What Find finds. *)

LEMMA FindSome ==
  ASSUME NEW text \in Seq(Token), NEW c, NEW i \in Nat \ {0},
         NEW d \in i .. Len(text), text[d] = c
  PROVE  /\ Find(text, c, i) \in i .. Len(text)
         /\ text[Find(text, c, i)] = c
         /\ \A j \in i .. Find(text, c, i) - 1 : text[j] # c
<1> DEFINE places == {j \in i .. Len(text) : text[j] = c}
           first == CHOOSE j \in places : \A k \in places : j <= k
<1>1. Len(text) \in Nat
  BY LenProperties
<1>2. places \in SUBSET Nat /\ places # {}
  BY <1>1
<1>3. Find(text, c, i) = first
  BY <1>2 DEF Find
<1> HIDE DEF places
<1>4. first \in places /\ \A k \in places : first <= k
  BY <1>2, Least
<1> HIDE DEF first
<1>5. first \in i .. Len(text) /\ text[first] = c
  BY <1>4 DEF places
<1>6. ASSUME NEW j \in i .. first - 1 PROVE text[j] # c
  <2>1. j \in i .. Len(text) /\ ~ (first <= j)
    BY <1>1, <1>5
  <2>2. j \notin places
    BY <1>4, <2>1
  <2>3. QED
    BY <2>1, <2>2 DEF places
<1>7. QED
  BY <1>3, <1>5, <1>6

LEMMA FindNone ==
  ASSUME NEW text \in Seq(Token), NEW c, NEW i \in Nat \ {0},
         \A j \in i .. Len(text) : text[j] # c
  PROVE  Find(text, c, i) = 0
BY DEF Find

LEMMA FindIs ==
  ASSUME NEW text \in Seq(Token), NEW c, NEW i \in Nat \ {0},
         NEW d \in i .. Len(text), text[d] = c, \A j \in i .. d - 1 : text[j] # c
  PROVE  Find(text, c, i) = d
<1> DEFINE f == Find(text, c, i)
<1>1. /\ f \in i .. Len(text) /\ text[f] = c
      /\ \A j \in i .. f - 1 : text[j] # c
  BY FindSome
<1>2. Len(text) \in Nat
  BY LenProperties
<1> HIDE DEF f
<1>3. ~ (f < d)
  BY <1>1, <1>2
<1>4. ~ (d < f)
  BY <1>1, <1>2
<1>5. f = d
  BY <1>1, <1>2, <1>3, <1>4
<1>6. QED
  BY <1>5 DEF f

-----------------------------------------------------------------------------
(* A page on its way to Markdown: every mark has an image. *)

Flat(page, s) == FlattenSeq([i \in DOMAIN page |-> s[page[i]]])

LEMMA FlatPieces ==
  ASSUME NEW page \in Seq(Token), NEW s \in [Token -> Seq(Token)]
  PROVE  /\ [i \in DOMAIN page |-> s[page[i]]] \in Seq(Seq(Token))
         /\ Len([i \in DOMAIN page |-> s[page[i]]]) = Len(page)
         /\ \A i \in 1 .. Len(page) :
              page[i] \in Token /\ [j \in DOMAIN page |-> s[page[j]]][i] = s[page[i]]
         /\ Flat(page, s) \in Seq(Token)
<1> DEFINE pieces == [i \in DOMAIN page |-> s[page[i]]]
<1>1. Len(page) \in Nat /\ DOMAIN page = 1 .. Len(page)
  BY LenProperties
<1>2. \A i \in 1 .. Len(page) : page[i] \in Token /\ s[page[i]] \in Seq(Token)
  BY ElementOfSeq
<1>3. pieces = [i \in 1 .. Len(page) |-> s[page[i]]]
  BY <1>1
<1>4. pieces \in Seq(Seq(Token)) /\ Len(pieces) = Len(page)
  BY <1>1, <1>2, <1>3, IsASeq
<1>5. \A i \in 1 .. Len(page) : pieces[i] = s[page[i]]
  BY <1>1
<1> HIDE DEF pieces
<1>6. PICK J : Joins(J, pieces)
  BY <1>4, JoinsExist
<1>7. FlattenSeq(pieces) = J[Len(page)] /\ Len(page) \in 0 .. Len(page)
  BY <1>1, <1>4, <1>6, FlattenIsJoin
<1>8. FlattenSeq(pieces) \in Seq(Token)
  BY <1>4, <1>6, <1>7 DEF Joins
<1>9. QED
  BY <1>2, <1>4, <1>5, <1>8 DEF Flat, pieces

\* A pass gives the marks other images if it replaces, at each, all or nothing.
MarkReplaces(page, s, r, end, with) ==
  /\ page \in Seq(Token)
  /\ s \in [Token -> Seq(Token)] /\ r \in [Token -> Seq(Token)]
  /\ Replaceable(Flat(page, s), end, with)
  /\ \A m \in Token, c \in Nat : Stands(Flat(page, s), c, s[m]) =>
       Kept(end, c, s[m], r[m]) \/ Hit(end, with, c, s[m], r[m])

LEMMA MarkPass ==
  ASSUME NEW page, NEW s, NEW r, NEW end, NEW with,
         MarkReplaces(page, s, r, end, with)
  PROVE  Replace(Flat(page, s), end, with) = Flat(page, r)
<1>0. /\ page \in Seq(Token)
      /\ s \in [Token -> Seq(Token)] /\ r \in [Token -> Seq(Token)]
      /\ Replaceable(Flat(page, s), end, with)
      /\ \A m \in Token, c \in Nat : Stands(Flat(page, s), c, s[m]) =>
           Kept(end, c, s[m], r[m]) \/ Hit(end, with, c, s[m], r[m])
  BY DEF MarkReplaces
<1> USE <1>0
<1> DEFINE pieces == [i \in DOMAIN page |-> s[page[i]]]
           images == [i \in DOMAIN page |-> r[page[i]]]
<1>1. /\ pieces \in Seq(Seq(Token)) /\ Len(pieces) = Len(page)
      /\ \A i \in 1 .. Len(page) : page[i] \in Token /\ pieces[i] = s[page[i]]
  BY FlatPieces
<1>2. /\ images \in Seq(Seq(Token)) /\ Len(images) = Len(page)
      /\ \A i \in 1 .. Len(page) : images[i] = r[page[i]]
  BY FlatPieces
<1>3. Flat(page, s) = FlattenSeq(pieces) /\ Flat(page, r) = FlattenSeq(images)
  BY Zenon DEF Flat
<1> HIDE DEF pieces, images
<1>4. PICK J : Joins(J, pieces)
  BY <1>1, JoinsExist
<1>5. ASSUME NEW k \in 1 .. Len(pieces)
      PROVE  \/ Kept(end, Len(J[k - 1]), pieces[k], images[k])
             \/ Hit(end, with, Len(J[k - 1]), pieces[k], images[k])
  <2>1. Len(J[k - 1]) \in Nat /\ Stands(FlattenSeq(pieces), Len(J[k - 1]), pieces[k])
    BY <1>1, <1>4, PieceAt, Zenon
  <2>2. k \in 1 .. Len(page)
    BY <1>1
  <2>3. /\ page[k] \in Token /\ pieces[k] = s[page[k]] /\ images[k] = r[page[k]]
    BY <1>1, <1>2, <2>2
  <2>4. QED
    BY <1>3, <2>1, <2>3, Zenon
<1>6. Replaces(end, with, pieces, J, images)
  BY <1>1, <1>2, <1>3, <1>4, <1>5 DEF Replaces
<1>7. Replace(FlattenSeq(pieces), end, with) = FlattenSeq(images)
  BY ONLY <1>6, Pass
<1>8. QED
  BY <1>3, <1>7, Zenon

\* A pass that replaces a word.
WordReplaces(page, s, r, word, with) ==
  /\ page \in Seq(Token)
  /\ s \in [Token -> Seq(Token)] /\ r \in [Token -> Seq(Token)]
  /\ word \in Seq(Token) /\ word # <<>> /\ with \in Seq(Token)
  /\ \A m \in Token : \/ s[m] = word /\ r[m] = with
                      \/ Clear(s[m], word) /\ r[m] = s[m]

LEMMA WordPass ==
  ASSUME NEW page, NEW s, NEW r, NEW word, NEW with,
         WordReplaces(page, s, r, word, with)
  PROVE  regex_replace(Flat(page, s), Literal(Flat(page, s), word), with) = Flat(page, r)
<1>0. /\ page \in Seq(Token)
      /\ s \in [Token -> Seq(Token)] /\ r \in [Token -> Seq(Token)]
      /\ word \in Seq(Token) /\ word # <<>> /\ with \in Seq(Token)
      /\ \A m \in Token : \/ s[m] = word /\ r[m] = with
                          \/ Clear(s[m], word) /\ r[m] = s[m]
  BY DEF WordReplaces
<1> USE <1>0
<1> DEFINE text == Flat(page, s)
           end == Literal(text, word)
           put == [i \in DOMAIN text |-> with]
<1>1. text \in Seq(Token) /\ DOMAIN text = 1 .. Len(text) /\ Len(text) \in Nat
  BY FlatPieces, LenProperties
<1>2. \A i \in 1 .. Len(text) : put[i] = with
  BY <1>1
<1>3. Replaceable(text, end, put)
  <2>1. \A i \in 1 .. Len(text) : end[i] # 0 => end[i] \in i .. Len(text)
    BY <1>1, LiteralAt
  <2>2. QED
    BY <1>1, <1>2, <2>1 DEF Replaceable
<1>4. Len(word) \in Nat \ {0}
  BY LenProperties, EmptySeq
<1> HIDE DEF text, end, put
<1>5. ASSUME NEW m \in Token, NEW c \in Nat, Stands(text, c, s[m])
      PROVE  Kept(end, c, s[m], r[m]) \/ Hit(end, put, c, s[m], r[m])
  <2>1. s[m] \in Seq(Token)
    OBVIOUS
  <2>2. CASE s[m] = word /\ r[m] = with
    <3>1. /\ c + Len(word) <= Len(text)
          /\ \A j \in 1 .. Len(word) : text[c + j] = word[j]
      BY <1>5, <2>2, Zenon DEF Stands
    <3>2. /\ c + 1 \in 1 .. Len(text) /\ c + 1 + Len(word) - 1 = c + Len(word)
          /\ \A j \in 1 .. Len(word) : c + 1 + j - 1 = c + j
      BY <1>1, <1>4, <3>1
    <3>3. \A j \in 1 .. Len(word) : text[c + 1 + j - 1] = word[j]
      BY <3>1, <3>2
    <3>4. end[c + 1] = c + Len(word)
      BY <1>1, <3>1, <3>2, <3>3, LiteralAt DEF end
    <3>5. QED
      BY <1>2, <1>4, <2>2, <3>2, <3>4 DEF Hit
  <2>3. CASE Clear(s[m], word) /\ r[m] = s[m]
    <3>1. NoMatch(end, c, s[m])
      BY <1>1, <1>5, <2>1, <2>3, ClearOfMatches, Zenon DEF end
    <3>2. QED
      BY <2>3, <3>1 DEF NoMatch, Kept
  <2>4. QED
    BY <2>2, <2>3
<1>6. Replace(Flat(page, s), end, put) = Flat(page, r)
  <2>1. MarkReplaces(page, s, r, end, put)
    BY <1>3, <1>5 DEF MarkReplaces, text
  <2>2. QED
    BY ONLY <2>1, MarkPass
<1>7. QED
  BY <1>6 DEF regex_replace, text, end, put

-----------------------------------------------------------------------------
(* The stages of a description. *)

\* The marks in done are Markdown already.
Stage(done) == [m \in Token |-> IF m \in done THEN Markdown(m) ELSE Html(m)]

TagMarks == Tags \cup {"img"}

\* The characters that are written as entities.
Chars == {"<", ">", "&", "quote", "apostrophe", " "}

LEMMA EntityTable ==
  /\ DOMAIN Entities = {"lt", "gt", "amp", "quot", "#39", "nbsp"}
  /\ Entities["lt"] = "<" /\ Entities["gt"] = ">" /\ Entities["amp"] = "&"
  /\ Entities["quot"] = "quote" /\ Entities["#39"] = "apostrophe"
  /\ Entities["nbsp"] = " "
BY DEF Entities

LEMMA Tokens ==
  /\ TagMarks \subseteq Token /\ DOMAIN Entities \subseteq Token
  /\ Word \subseteq Token
  /\ \A name \in DOMAIN Entities : Entities[name] \in Token /\ name \notin {"&", ";", "<"}
  /\ \A t \in TagMarks : t \notin {"<", ">"}
  /\ {"<", ">", "&", ";", "tick", "\\", "x"} \subseteq Token
<1>1. DOMAIN Entities = {"lt", "gt", "amp", "quot", "#39", "nbsp"}
  BY EntityTable
<1>2. \A name \in DOMAIN Entities : Entities[name] \in Chars
  BY EntityTable DEF Chars
<1>3. QED
  BY <1>1, <1>2 DEF Token, Word, Tags, TagMarks, Chars

LEMMA Short ==
  ASSUME NEW a \in Token, NEW b \in Token, NEW c \in Token, NEW d \in Token
  PROVE  /\ <<>> \in Seq(Token) /\ <<a>> \in Seq(Token) /\ <<a, b>> \in Seq(Token)
         /\ <<a, b, c>> \in Seq(Token) /\ <<a, b, c, d>> \in Seq(Token)
OBVIOUS

LEMMA HtmlIs ==
  ASSUME NEW m
  PROVE  /\ m \in Tags => Html(m) = <<"<", m, ">">>
         /\ m = "img" => Html(m) = <<"<", "img", "x", ">">>
         /\ m \notin TagMarks =>
              \/ \E name \in DOMAIN Entities :
                   m = Entities[name] /\ Html(m) = <<"&", name, ";">>
              \/ m \notin Chars /\ Html(m) = <<m>>
<1>1. ASSUME m \in Chars
      PROVE  \E name \in DOMAIN Entities :
               m = Entities[name] /\ Html(m) = <<"&", name, ";">>
  <2>1. CASE m = "<"
    <3>1. Html(m) = <<"&", "lt", ";">>
      BY <2>1 DEF Html, Tags
    <3>2. QED
      BY <2>1, <3>1, EntityTable
  <2>2. CASE m = ">"
    <3>1. Html(m) = <<"&", "gt", ";">>
      BY <2>2 DEF Html, Tags
    <3>2. QED
      BY <2>2, <3>1, EntityTable
  <2>3. CASE m = "&"
    <3>1. Html(m) = <<"&", "amp", ";">>
      BY <2>3 DEF Html, Tags
    <3>2. QED
      BY <2>3, <3>1, EntityTable
  <2>4. CASE m = "quote"
    <3>1. Html(m) = <<"&", "quot", ";">>
      BY <2>4 DEF Html, Tags
    <3>2. QED
      BY <2>4, <3>1, EntityTable
  <2>5. CASE m = "apostrophe"
    <3>1. Html(m) = <<"&", "#39", ";">>
      BY <2>5 DEF Html, Tags
    <3>2. QED
      BY <2>5, <3>1, EntityTable
  <2>6. CASE m = " "
    <3>1. Html(m) = <<"&", "nbsp", ";">>
      BY <2>6 DEF Html, Tags
    <3>2. QED
      BY <2>6, <3>1, EntityTable
  <2>7. QED
    BY <1>1, <2>1, <2>2, <2>3, <2>4, <2>5, <2>6 DEF Chars
<1>2. ASSUME m \in Tags PROVE Html(m) = <<"<", m, ">">>
  BY <1>2 DEF Html, Tags
<1>3. ASSUME m = "img" PROVE Html(m) = <<"<", "img", "x", ">">>
  BY <1>3 DEF Html, Tags
<1>4. ASSUME m \notin TagMarks, m \notin Chars PROVE Html(m) = <<m>>
  BY <1>4 DEF Html, TagMarks, Chars
<1>5. QED
  BY <1>1, <1>2, <1>3, <1>4

LEMMA MarkdownIs ==
  ASSUME NEW m
  PROVE  /\ m \in {"code", "/code"} => Markdown(m) = <<"tick">>
         /\ m \in {"pre", "/pre"} => Markdown(m) = Backticks
         /\ m \in {"p", "img"} => Markdown(m) = <<>>
         /\ m \notin TagMarks => Markdown(m) = <<m>>
<1>1. ASSUME m \in {"code", "/code"} PROVE Markdown(m) = <<"tick">>
  BY <1>1 DEF Markdown
<1>2. ASSUME m \in {"pre", "/pre"} PROVE Markdown(m) = Backticks
  BY <1>2 DEF Markdown
<1>3. ASSUME m \in {"p", "img"} PROVE Markdown(m) = <<>>
  BY <1>3 DEF Markdown
<1>4. ASSUME m \notin TagMarks PROVE Markdown(m) = <<m>>
  BY <1>4 DEF Markdown, TagMarks, Tags
<1>5. QED
  BY <1>1, <1>2, <1>3, <1>4

LEMMA HtmlTypes ==
  ASSUME NEW m \in Token
  PROVE  Html(m) \in Seq(Token) /\ Markdown(m) \in Seq(Token)
<1>1. /\ <<"<", m, ">">> \in Seq(Token) /\ <<"<", "img", "x", ">">> \in Seq(Token)
      /\ <<m>> \in Seq(Token) /\ <<"tick">> \in Seq(Token) /\ <<>> \in Seq(Token)
      /\ Backticks \in Seq(Token)
  <2>1. {"<", ">", "img", "x", "tick", m} \subseteq Token
    BY Tokens DEF TagMarks
  <2>2. QED
    BY <2>1, Short DEF Backticks
<1>2. \A name \in DOMAIN Entities : <<"&", name, ";">> \in Seq(Token)
  BY Tokens, Short
<1>3. Html(m) \in Seq(Token)
  BY <1>1, <1>2, HtmlIs DEF TagMarks
<1>4. Markdown(m) \in Seq(Token)
  BY <1>1, MarkdownIs DEF TagMarks, Tags
<1>5. QED
  BY <1>3, <1>4

LEMMA StageTypes ==
  ASSUME NEW done
  PROVE  Stage(done) \in [Token -> Seq(Token)]
BY HtmlTypes DEF Stage

LEMMA NoTagInHtml ==
  ASSUME NEW m \in Token, m \notin TagMarks, NEW h, h = Html(m)
  PROVE  \A i \in 1 .. Len(h) : h[i] # "<"
<1>1. CASE m \notin Chars /\ h = <<m>>
  <2>1. Len(h) = 1 /\ h[1] = m
    BY ONLY <1>1
  <2>2. ASSUME NEW i \in 1 .. Len(h) PROVE h[i] # "<"
    <3>1. i = 1
      BY ONLY <2>1, i \in 1 .. Len(h)
    <3>2. QED
      BY ONLY <1>1, <2>1, <3>1 DEF Chars
  <2>3. QED
    BY <2>2
<1>2. ASSUME NEW name \in DOMAIN Entities, h = <<"&", name, ";">>
      PROVE  \A i \in 1 .. Len(h) : h[i] # "<"
  <2>1. /\ Len(h) = 3 /\ h[1] = "&" /\ h[2] = name
        /\ h[3] = ";"
    BY ONLY <1>2
  <2>2. name # "<"
    BY Tokens
  <2>3. ASSUME NEW i \in 1 .. Len(h) PROVE h[i] # "<"
    <3>1. i \in 1 .. 3
      BY ONLY <2>1, i \in 1 .. Len(h)
    <3>2. i = 1 \/ i = 2 \/ i = 3
      BY ONLY <3>1
    <3>3. QED
      BY ONLY <2>1, <2>2, <3>2
  <2>4. QED
    BY <2>3
<1>3. QED
  BY <1>1, <1>2, HtmlIs

LEMMA ClearHtml ==
  ASSUME NEW m \in Token, NEW t \in Tags, m # t, NEW h, h = Html(m)
  PROVE  Clear(h, <<"<", t, ">">>)
<1> DEFINE word == <<"<", t, ">">>
<1>1. word[1] = "<" /\ word[2] = t /\ word[3] = ">" /\ Len(word) = 3
  OBVIOUS
<1> HIDE DEF word
<1>2. CASE m \in Tags
  <2>1. /\ h = <<"<", m, ">">> /\ m # "<"
    BY <1>2, HtmlIs DEF Tags
  <2>2. /\ Len(h) = 3 /\ h[1] = "<" /\ h[2] = m /\ h[3] = ">"
    BY <2>1
  <2>3. ASSUME NEW i \in 1 .. 3, h[i] = "<" PROVE i = 1
    BY <2>1, <2>2, <2>3
  <2>4. QED
    BY <1>1, <2>2, <2>3 DEF Clear
<1>3. CASE m = "img"
  <2>1. h = <<"<", "img", "x", ">">>
    BY <1>3, HtmlIs
  <2>2. /\ Len(h) = 4 /\ h[1] = "<" /\ h[2] = "img"
        /\ h[3] = "x" /\ h[4] = ">"
    BY <2>1
  <2>3. ASSUME NEW i \in 1 .. 4, h[i] = "<" PROVE i = 1
    BY <2>2, <2>3
  <2>4. QED
    BY <1>1, <1>3, <2>2, <2>3 DEF Clear
<1>4. CASE m \notin TagMarks
  <2>1. \A i \in 1 .. Len(h) : h[i] # "<"
    BY <1>4, NoTagInHtml
  <2>2. QED
    BY <1>1, <2>1 DEF Clear
<1>5. QED
  BY <1>2, <1>3, <1>4 DEF TagMarks, word

LEMMA NoTagInMarkdown ==
  ASSUME NEW m \in TagMarks
  PROVE  \A i \in 1 .. Len(Markdown(m)) : Markdown(m)[i] \notin {"<", ">", "&"}
BY DEF TagMarks, Tags, Markdown, Backticks

\* The pass for the tag t.
LEMMA TagStage ==
  ASSUME NEW page \in Seq(Token), NEW done \in SUBSET TagMarks,
         NEW t \in Tags \ done
  PROVE  LET out == Flat(page, Stage(done))
         IN regex_replace(out, Literal(out, <<"<", t, ">">>), Markdown(t))
              = Flat(page, Stage(done \cup {t}))
<1> DEFINE s == Stage(done)
           r == Stage(done \cup {t})
           word == <<"<", t, ">">>
<1>1. /\ s \in [Token -> Seq(Token)] /\ r \in [Token -> Seq(Token)]
  BY StageTypes
<1>2. /\ \A m \in Token : s[m] = IF m \in done THEN Markdown(m) ELSE Html(m)
      /\ \A m \in Token : r[m] = IF m \in done \cup {t} THEN Markdown(m) ELSE Html(m)
  BY DEF Stage
<1>3. /\ t \in Token /\ word \in Seq(Token) /\ word # <<>> /\ word[1] = "<"
      /\ Html(t) = word /\ Markdown(t) \in Seq(Token)
  <2>1. t \in Token /\ "<" \in Token /\ ">" \in Token
    BY Tokens DEF TagMarks
  <2>2. Html(t) = word
    BY HtmlIs
  <2>3. word \in Seq(Token) /\ Markdown(t) \in Seq(Token)
    BY <2>1, <2>2, HtmlTypes
  <2>4. word # <<>> /\ word[1] = "<"
    OBVIOUS
  <2>5. QED
    BY <2>1, <2>2, <2>3, <2>4
<1> HIDE DEF s, r, word
<1>4. ASSUME NEW m \in Token
      PROVE  \/ s[m] = word /\ r[m] = Markdown(t)
             \/ Clear(s[m], word) /\ r[m] = s[m]
  <2>1. CASE m = t
    BY <1>2, <1>3, <2>1
  <2>2. CASE m # t /\ m \in done
    <3>1. s[m] = Markdown(m) /\ r[m] = s[m]
      BY <1>2, <2>2
    <3>2. \A i \in 1 .. Len(s[m]) : s[m][i] # word[1]
      BY <1>3, <2>2, <3>1, NoTagInMarkdown
    <3>3. QED
      BY <3>1, <3>2 DEF Clear
  <2>3. CASE m # t /\ m \notin done
    <3>1. s[m] = Html(m) /\ r[m] = s[m]
      BY <1>2, <2>3
    <3>2. Clear(Html(m), word)
      BY <2>3, ClearHtml DEF word
    <3>3. QED
      BY <3>1, <3>2
  <2>4. QED
    BY <2>1, <2>2, <2>3
<1>5. regex_replace(Flat(page, s), Literal(Flat(page, s), word), Markdown(t)) = Flat(page, r)
  <2>1. WordReplaces(page, s, r, word, Markdown(t))
    BY <1>1, <1>3, <1>4 DEF WordReplaces
  <2>2. QED
    BY ONLY <2>1, WordPass
<1>6. QED
  BY <1>5 DEF s, r, word

LEMMA TagAt ==
  ASSUME NEW text \in Seq(Token), NEW i \in 1 .. Len(text)
  PROVE  /\ text[i] # "<" => Tag(text)[i] = 0
         /\ Tag(text)[i] # 0 => Tag(text)[i] \in i .. Len(text)
         /\ \A d \in i .. Len(text) :
              /\ text[i] = "<" /\ text[d] = ">"
              /\ \A j \in i .. d - 1 : text[j] # ">"
              => Tag(text)[i] = d
<1>1. i \in Nat \ {0} /\ DOMAIN text = 1 .. Len(text)
  BY LenProperties
<1>2. Tag(text)[i] = IF text[i] = "<" THEN Find(text, ">", i) ELSE 0
  BY <1>1 DEF Tag
<1>3. Find(text, ">", i) # 0 => Find(text, ">", i) \in i .. Len(text)
  BY <1>1, FindSome, FindNone
<1>4. ASSUME NEW d \in i .. Len(text), text[d] = ">", \A j \in i .. d - 1 : text[j] # ">"
      PROVE  Find(text, ">", i) = d
  BY <1>1, <1>4, FindIs
<1>5. QED
  BY <1>2, <1>3, <1>4

\* A tag is taken out as a whole.
LEMMA TagHit ==
  ASSUME NEW text \in Seq(Token), NEW c \in Nat, NEW h, Stands(text, c, h),
         \/ \E m \in Tags : h = <<"<", m, ">">>
         \/ h = <<"<", "img", "x", ">">>
  PROVE  Tag(text)[c + 1] = c + Len(h) /\ Len(h) # 0 /\ c + 1 \in 1 .. Len(text)
<1>1. Len(text) \in Nat
  BY LenProperties
<1>2. c + Len(h) <= Len(text) /\ \A i \in 1 .. Len(h) : text[c + i] = h[i]
  BY Zenon DEF Stands
<1>3. CASE \E m \in Tags : h = <<"<", m, ">">>
  <2>1. PICK m \in Tags : h = <<"<", m, ">">>
    BY <1>3
  <2>2. Len(h) = 3 /\ h[1] = "<" /\ h[2] = m /\ h[3] = ">"
    BY ONLY <2>1
  <2>3. m # ">"
    BY DEF Tags
  <2>4. /\ 1 \in 1 .. 3 /\ 2 \in 1 .. 3 /\ 3 \in 1 .. 3
        /\ c + 3 <= Len(text)
    BY ONLY <1>2, <2>2
  <2>5. text[c + 1] = "<" /\ text[c + 2] = m /\ text[c + 3] = ">"
    BY ONLY <1>2, <2>2, <2>4
  <2>6. c + 1 \in 1 .. Len(text) /\ c + 3 \in c + 1 .. Len(text)
    BY <1>1, <2>4
  <2>7. ASSUME NEW j \in c + 1 .. (c + 3) - 1 PROVE text[j] # ">"
    <3>1. j = c + 1 \/ j = c + 2
      OBVIOUS
    <3>2. QED
      BY <2>3, <2>5, <3>1
  <2>8. Tag(text)[c + 1] = c + 3
    BY <2>5, <2>6, <2>7, TagAt
  <2>9. QED
    BY <2>2, <2>6, <2>8
<1>4. CASE h = <<"<", "img", "x", ">">>
  <2>2. Len(h) = 4 /\ h[1] = "<" /\ h[2] = "img" /\ h[3] = "x" /\ h[4] = ">"
    BY ONLY <1>4
  <2>4. /\ 1 \in 1 .. 4 /\ 2 \in 1 .. 4 /\ 3 \in 1 .. 4 /\ 4 \in 1 .. 4
        /\ c + 4 <= Len(text)
    BY ONLY <1>2, <2>2
  <2>5. /\ text[c + 1] = "<" /\ text[c + 2] = "img" /\ text[c + 3] = "x"
        /\ text[c + 4] = ">"
    BY ONLY <1>2, <2>2, <2>4
  <2>6. c + 1 \in 1 .. Len(text) /\ c + 4 \in c + 1 .. Len(text)
    BY <1>1, <2>4
  <2>7. ASSUME NEW j \in c + 1 .. (c + 4) - 1 PROVE text[j] # ">"
    <3>1. j = c + 1 \/ j = c + 2 \/ j = c + 3
      OBVIOUS
    <3>2. QED
      BY <2>5, <3>1
  <2>8. Tag(text)[c + 1] = c + 4
    BY <2>5, <2>6, <2>7, TagAt
  <2>9. QED
    BY <2>2, <2>6, <2>8
<1>5. QED
  BY <1>3, <1>4

\* The pass that takes out what tags are left.
LEMMA StripStage ==
  ASSUME NEW page \in Seq(Token)
  PROVE  LET out == Flat(page, Stage({"code", "/code", "pre", "/pre"}))
         IN regex_replace(out, Tag(out), <<>>) = Flat(page, Stage(TagMarks))
<1> DEFINE done == {"code", "/code", "pre", "/pre"}
           s == Stage(done)
           r == Stage(TagMarks)
           text == Flat(page, s)
           put == [i \in DOMAIN text |-> <<>>]
<1>1. /\ s \in [Token -> Seq(Token)] /\ r \in [Token -> Seq(Token)]
  BY StageTypes
<1>2. /\ \A m \in Token : s[m] = IF m \in done THEN Markdown(m) ELSE Html(m)
      /\ \A m \in Token : r[m] = IF m \in TagMarks THEN Markdown(m) ELSE Html(m)
  BY DEF Stage
<1>3. done \subseteq TagMarks /\ TagMarks \ done = {"p", "img"}
  BY DEF TagMarks, Tags
<1> HIDE DEF done, s, r
<1>4. text \in Seq(Token) /\ DOMAIN text = 1 .. Len(text) /\ Len(text) \in Nat
  BY <1>1, FlatPieces, LenProperties
<1> HIDE DEF text
<1>5. \A i \in 1 .. Len(text) : put[i] = <<>>
  BY <1>4
<1> HIDE DEF put
<1>6. Replaceable(text, Tag(text), put)
  <2>1. <<>> \in Seq(Token)
    OBVIOUS
  <2>2. QED
    BY <1>4, <1>5, <2>1, TagAt DEF Replaceable
<1>7. ASSUME NEW m \in Token, NEW c \in Nat, Stands(text, c, s[m])
      PROVE  Kept(Tag(text), c, s[m], r[m]) \/ Hit(Tag(text), put, c, s[m], r[m])
  <2>1. CASE m \in TagMarks \ done
    <3>1. s[m] = Html(m) /\ r[m] = <<>>
      BY <1>2, <1>3, <2>1, MarkdownIs
    <3>2. \/ \E t \in Tags : s[m] = <<"<", t, ">">>
          \/ s[m] = <<"<", "img", "x", ">">>
      BY <2>1, <3>1, HtmlIs DEF TagMarks
    <3>3. /\ Tag(text)[c + 1] = c + Len(s[m]) /\ Len(s[m]) # 0
          /\ c + 1 \in 1 .. Len(text)
      BY <1>4, <1>7, <3>2, TagHit
    <3>4. QED
      BY <1>5, <3>1, <3>3 DEF Hit
  <2>2. CASE m \notin TagMarks \ done
    <3>1. s[m] = r[m]
      BY <1>2, <1>3, <2>2
    <3>2. \A i \in 1 .. Len(s[m]) : s[m][i] # "<"
      <4>1. CASE m \in done
        <5>1. s[m] = Markdown(m) /\ m \in TagMarks
          BY <1>2, <1>3, <4>1
        <5>2. QED
          BY <5>1, NoTagInMarkdown
      <4>2. CASE m \notin TagMarks
        <5>1. s[m] = Html(m)
          BY <1>2, <1>3, <4>2
        <5>2. QED
          BY ONLY <4>2, <5>1, m \in Token, NoTagInHtml
      <4>3. QED
        BY <2>2, <4>1, <4>2
    <3>3. ASSUME NEW i \in 1 .. Len(s[m]) PROVE Tag(text)[c + i] = 0
      <4>1. s[m] \in Seq(Token)
        BY <1>1
      <4>2. Len(s[m]) \in Nat
        BY <4>1, LenProperties
      <4>3. c + Len(s[m]) <= Len(text) /\ text[c + i] = s[m][i]
        BY <1>7, Zenon DEF Stands
      <4>4. c + i \in 1 .. Len(text) /\ text[c + i] # "<"
        BY <1>4, <3>2, <4>2, <4>3
      <4>5. QED
        BY <1>4, <4>4, TagAt
    <3>4. QED
      BY <3>1, <3>3 DEF Kept
  <2>3. QED
    BY <2>1, <2>2
<1>8. MarkReplaces(page, s, r, Tag(text), put)
  BY <1>1, <1>6, <1>7 DEF MarkReplaces, text
<1>9. Replace(Flat(page, s), Tag(text), put) = Flat(page, r)
  BY ONLY <1>8, MarkPass
<1>10. QED
  BY <1>9 DEF regex_replace, text, put, s, r, done

-----------------------------------------------------------------------------
(* Entities. *)

Names == DOMAIN Entities
Semicolon == ";"

LEMMA NotSemicolon ==
  Semicolon # "&" /\ \A name \in Names : name # Semicolon
BY Tokens, Zenon DEF Semicolon, Names

Sec(text) == [i \in DOMAIN text |-> IF text[i] = "&" THEN Find(text, Semicolon, i) ELSE 0]

EntityEnd(text) ==
  [i \in DOMAIN text |->
     IF Sec(text)[i] = i + 2 /\ text[i + 1] \in Names
       THEN Sec(text)[i] ELSE 0]

LEMMA EntityAt ==
  ASSUME NEW text \in Seq(Token), NEW i \in 1 .. Len(text)
  PROVE  /\ EntityEnd(text)[i] # 0 =>
              /\ EntityEnd(text)[i] \in i .. Len(text)
              /\ text[i] = "&" /\ text[i + 1] \in Names
         /\ /\ i + 2 <= Len(text) /\ text[i] = "&"
            /\ text[i + 1] \in Names /\ text[i + 2] = Semicolon
            => EntityEnd(text)[i] = i + 2
<1>1. i \in Nat \ {0} /\ DOMAIN text = 1 .. Len(text) /\ Len(text) \in Nat
  BY LenProperties
<1>2. Sec(text)[i] = IF text[i] = "&" THEN Find(text, Semicolon, i) ELSE 0
  BY <1>1 DEF Sec
<1>3. EntityEnd(text)[i] = IF Sec(text)[i] = i + 2 /\ text[i + 1] \in Names
                             THEN Sec(text)[i] ELSE 0
  BY <1>1 DEF EntityEnd
<1>4. Find(text, Semicolon, i) # 0 => Find(text, Semicolon, i) \in i .. Len(text)
  BY <1>1, FindSome, FindNone
<1>5. ASSUME i + 2 <= Len(text), text[i] = "&", text[i + 1] \in Names,
             text[i + 2] = Semicolon
      PROVE  EntityEnd(text)[i] = i + 2
  <2>1. i + 2 \in i .. Len(text) /\ \A j \in i .. (i + 2) - 1 : j = i \/ j = i + 1
    BY <1>1, <1>5
  <2>2. text[i + 1] # Semicolon
    BY <1>5, NotSemicolon
  <2>3. \A j \in i .. (i + 2) - 1 : text[j] # Semicolon
    BY <1>5, <2>1, <2>2, NotSemicolon
  <2>4. Find(text, Semicolon, i) = i + 2
    BY <1>1, <1>5, <2>1, <2>3, FindIs
  <2>5. QED
    BY <1>2, <1>3, <1>5, <2>4
<1>6. ASSUME EntityEnd(text)[i] # 0
      PROVE  /\ EntityEnd(text)[i] \in i .. Len(text)
             /\ text[i] = "&" /\ text[i + 1] \in Names
  BY <1>1, <1>2, <1>3, <1>4, <1>6
<1>7. QED
  BY <1>5, <1>6

\* A mark that is no tag is shown by one token: it, or its entity.
LEMMA NoEntityInMark ==
  ASSUME NEW m, m \notin Chars, NEW h, h = <<m>>
  PROVE  \A i \in 1 .. Len(h) : h[i] # "&"
<1>1. Len(h) = 1 /\ h[1] = m
  OBVIOUS
<1>2. ASSUME NEW i \in 1 .. Len(h) PROVE h[i] # "&"
  <2>1. i = 1
    BY ONLY <1>1, i \in 1 .. Len(h)
  <2>2. QED
    BY ONLY <1>1, <2>1, m \notin Chars DEF Chars
<1>3. QED
  BY <1>2

LEMMA EntityHit ==
  ASSUME NEW text \in Seq(Token), NEW c \in Nat, NEW h, Stands(text, c, h),
         NEW name \in Names, h = <<"&", name, Semicolon>>
  PROVE  /\ EntityEnd(text)[c + 1] = c + Len(h) /\ Len(h) # 0
         /\ c + 1 \in 1 .. Len(text) /\ text[(c + 1) + 1] = name
<1>1. Len(text) \in Nat
  BY LenProperties
<1>2. c + Len(h) <= Len(text) /\ \A i \in 1 .. Len(h) : text[c + i] = h[i]
  BY Zenon DEF Stands
<1>3. Len(h) = 3 /\ h[1] = "&" /\ h[2] = name /\ h[3] = Semicolon
  BY ONLY h = <<"&", name, Semicolon>>
<1>4. /\ 1 \in 1 .. 3 /\ 2 \in 1 .. 3 /\ 3 \in 1 .. 3 /\ c + 3 <= Len(text)
  BY ONLY <1>2, <1>3
<1>5. text[c + 1] = "&" /\ text[c + 2] = name /\ text[c + 3] = Semicolon
  BY ONLY <1>2, <1>3, <1>4
<1>6. /\ c + 1 \in 1 .. Len(text) /\ (c + 1) + 2 <= Len(text)
      /\ (c + 1) + 1 = c + 2 /\ (c + 1) + 2 = c + 3
  BY <1>1, <1>4
<1>7. EntityEnd(text)[c + 1] = c + 3
  BY <1>5, <1>6, EntityAt
<1>8. QED
  BY <1>3, <1>5, <1>6, <1>7

\* The pass that decodes the entities.
LEMMA DecodeStage ==
  ASSUME NEW page \in Seq(Token)
  PROVE  htmlDecoder(Flat(page, Stage(TagMarks))) = Flat(page, Stage(Token))
<1> DEFINE s == Stage(TagMarks)
           r == Stage(Token)
           text == Flat(page, s)
           end == EntityEnd(text)
           put == [i \in DOMAIN text |-> <<Entities[text[i + 1]]>>]
<1>1. /\ s \in [Token -> Seq(Token)] /\ r \in [Token -> Seq(Token)]
  BY StageTypes
<1>2. /\ \A m \in Token : s[m] = IF m \in TagMarks THEN Markdown(m) ELSE Html(m)
      /\ \A m \in Token : r[m] = Markdown(m)
  BY DEF Stage
<1>3. htmlDecoder(text) = Replace(text, end, put)
  BY Zenon DEF htmlDecoder, EntityEnd, Sec, Names, Semicolon
<1> HIDE DEF s, r
<1>4. text \in Seq(Token) /\ DOMAIN text = 1 .. Len(text) /\ Len(text) \in Nat
  BY <1>1, FlatPieces, LenProperties
<1> HIDE DEF text
<1>5. \A i \in 1 .. Len(text) : put[i] = <<Entities[text[i + 1]]>>
  BY <1>4
<1> HIDE DEF put, end
<1>6. Replaceable(text, end, put)
  <2>1. ASSUME NEW i \in 1 .. Len(text), end[i] # 0
        PROVE  end[i] \in i .. Len(text) /\ put[i] \in Seq(Token)
    <3>1. end[i] \in i .. Len(text) /\ text[i + 1] \in Names
      BY <1>4, <2>1, EntityAt DEF end
    <3>2. Entities[text[i + 1]] \in Token
      BY <3>1, Tokens DEF Names
    <3>3. QED
      BY <1>5, <3>1, <3>2, Short
  <2>2. QED
    BY <1>4, <2>1 DEF Replaceable
<1>7. ASSUME NEW m \in Token, NEW c \in Nat, Stands(text, c, s[m])
      PROVE  Kept(end, c, s[m], r[m]) \/ Hit(end, put, c, s[m], r[m])
  <2>1. ASSUME m \notin TagMarks, NEW name \in Names,
               m = Entities[name], Html(m) = <<"&", name, Semicolon>>
        PROVE  Hit(end, put, c, s[m], r[m])
    <3>1. s[m] = <<"&", name, Semicolon>> /\ r[m] = <<m>>
      BY <1>2, <2>1, MarkdownIs
    <3>2. /\ end[c + 1] = c + Len(s[m]) /\ Len(s[m]) # 0
          /\ c + 1 \in 1 .. Len(text) /\ text[(c + 1) + 1] = name
      <4>1. /\ text \in Seq(Token) /\ c \in Nat /\ Stands(text, c, s[m])
            /\ name \in Names /\ s[m] = <<"&", name, Semicolon>>
        BY <1>4, <1>7, <3>1
      <4>2. QED
        BY ONLY <4>1, EntityHit DEF end
    <3>3. put[c + 1] = <<m>>
      BY <1>5, <2>1, <3>2
    <3>4. QED
      BY <3>1, <3>2, <3>3 DEF Hit
  <2>2. ASSUME s[m] = r[m], \A i \in 1 .. Len(s[m]) : s[m][i] # "&"
        PROVE  Kept(end, c, s[m], r[m])
    <3>1. ASSUME NEW i \in 1 .. Len(s[m]) PROVE end[c + i] = 0
      <4>1. s[m] \in Seq(Token)
        BY <1>1
      <4>2. Len(s[m]) \in Nat
        BY <4>1, LenProperties
      <4>3. c + Len(s[m]) <= Len(text) /\ text[c + i] = s[m][i]
        BY <1>7, Zenon DEF Stands
      <4>4. c + i \in 1 .. Len(text) /\ text[c + i] # "&"
        BY <1>4, <2>2, <4>2, <4>3
      <4>5. QED
        BY <1>4, <4>4, EntityAt DEF end
    <3>2. QED
      BY <2>2, <3>1 DEF Kept
  <2>3. CASE m \in TagMarks
    <3>1. s[m] = Markdown(m) /\ r[m] = Markdown(m)
      BY <1>2, <2>3
    <3>2. \A i \in 1 .. Len(s[m]) : s[m][i] # "&"
      BY <2>3, <3>1, NoTagInMarkdown
    <3>3. QED
      BY <2>2, <3>1, <3>2
  <2>4. CASE m \notin TagMarks /\ m \notin Chars /\ Html(m) = <<m>>
    <3>1. s[m] = <<m>> /\ r[m] = <<m>>
      BY <1>2, <2>4, MarkdownIs
    <3>2. \A i \in 1 .. Len(s[m]) : s[m][i] # "&"
      BY ONLY <2>4, <3>1, NoEntityInMark
    <3>3. QED
      BY <2>2, <3>1, <3>2
  <2>5. QED
    BY <2>1, <2>3, <2>4, HtmlIs, Zenon DEF Names, Semicolon
<1>8. MarkReplaces(page, s, r, end, put)
  BY <1>1, <1>6, <1>7 DEF MarkReplaces, text
<1>9. Replace(Flat(page, s), end, put) = Flat(page, r)
  BY ONLY <1>8, MarkPass
<1>10. QED
  BY <1>3, <1>9 DEF text, s, r

-----------------------------------------------------------------------------
(* A description shows the problem. *)

LEMMA AsTokens ==
  ASSUME NEW s \in Seq(STRING)
  PROVE  s \in Seq(Token)
<1>1. /\ Len(s) \in Nat /\ s = [i \in 1 .. Len(s) |-> s[i]]
      /\ \A i \in 1 .. Len(s) : s[i] \in STRING
  BY LenProperties, ElementOfSeq
<1>2. \A i \in 1 .. Len(s) : s[i] \in Token
  BY <1>1 DEF Token
<1>3. [i \in 1 .. Len(s) |-> s[i]] \in Seq(Token)
  BY <1>1, <1>2, IsASeq
<1>4. QED
  BY <1>1, <1>3

LEMMA FlatStage ==
  ASSUME NEW page \in Seq(Token)
  PROVE  /\ FlattenSeq([i \in DOMAIN page |-> Html(page[i])]) = Flat(page, Stage({}))
         /\ FlattenSeq([i \in DOMAIN page |-> Markdown(page[i])]) = Flat(page, Stage(Token))
<1>1. \A i \in DOMAIN page : page[i] \in Token
  BY LenProperties, ElementOfSeq
<1>2. /\ \A i \in DOMAIN page : Stage({})[page[i]] = Html(page[i])
      /\ \A i \in DOMAIN page : Stage(Token)[page[i]] = Markdown(page[i])
  BY <1>1 DEF Stage
<1>3. /\ [i \in DOMAIN page |-> Html(page[i])] = [i \in DOMAIN page |-> Stage({})[page[i]]]
      /\ [i \in DOMAIN page |-> Markdown(page[i])]
           = [i \in DOMAIN page |-> Stage(Token)[page[i]]]
  BY <1>2
<1>4. QED
  BY <1>3 DEF Flat

\* The passes of a description, one after the other.
LEMMA Described ==
  ASSUME NEW page \in Seq(Token)
  PROVE  htmlDecoder(htmlToMarkdown(FlattenSeq([i \in DOMAIN page |-> Html(page[i])])))
           = FlattenSeq([i \in DOMAIN page |-> Markdown(page[i])])
<1> DEFINE Replaced(out, word, with) == regex_replace(out, Literal(out, word), with)
           html == Flat(page, Stage({}))
           code == Flat(page, Stage({"code"}))
           uncode == Flat(page, Stage({"code", "/code"}))
           pre == Flat(page, Stage({"code", "/code", "pre"}))
           unpre == Flat(page, Stage({"code", "/code", "pre", "/pre"}))
<1>0. /\ {"code", "/code", "pre", "/pre"} \subseteq Tags /\ Tags \subseteq TagMarks
      /\ {} \cup {"code"} = {"code"}
      /\ {"code"} \cup {"/code"} = {"code", "/code"}
      /\ {"code", "/code"} \cup {"pre"} = {"code", "/code", "pre"}
      /\ {"code", "/code", "pre"} \cup {"/pre"} = {"code", "/code", "pre", "/pre"}
  BY DEF Tags, TagMarks
<1>m. /\ Markdown("code") = <<"tick">> /\ Markdown("/code") = <<"tick">>
      /\ Markdown("pre") = Backticks /\ Markdown("/pre") = Backticks
  BY MarkdownIs
<1>1. Replaced(html, <<"<", "code", ">">>, <<"tick">>) = code
  <2>1. "code" \in Tags \ {} /\ {} \in SUBSET TagMarks
    BY <1>0
  <2>2. QED
    BY ONLY <1>0, <1>m, <2>1, TagStage, page \in Seq(Token)
<1>2. Replaced(code, <<"<", "/code", ">">>, <<"tick">>) = uncode
  <2>1. "/code" \in Tags \ {"code"} /\ {"code"} \in SUBSET TagMarks
    BY <1>0
  <2>2. QED
    BY ONLY <1>0, <1>m, <2>1, TagStage, page \in Seq(Token)
<1>3. Replaced(uncode, <<"<", "pre", ">">>, Backticks) = pre
  <2>1. "pre" \in Tags \ {"code", "/code"} /\ {"code", "/code"} \in SUBSET TagMarks
    BY <1>0
  <2>2. QED
    BY ONLY <1>0, <1>m, <2>1, TagStage, page \in Seq(Token)
<1>4. Replaced(pre, <<"<", "/pre", ">">>, Backticks) = unpre
  <2>1. /\ "/pre" \in Tags \ {"code", "/code", "pre"}
        /\ {"code", "/code", "pre"} \in SUBSET TagMarks
    BY <1>0
  <2>2. QED
    BY ONLY <1>0, <1>m, <2>1, TagStage, page \in Seq(Token)
<1>5. regex_replace(unpre, Tag(unpre), <<>>) = Flat(page, Stage(TagMarks))
  BY StripStage
<1>6. htmlToMarkdown(html) = Flat(page, Stage(TagMarks))
  <2> HIDE DEF html, code, uncode, pre, unpre
  <2>1. QED
    BY <1>1, <1>2, <1>3, <1>4, <1>5, Zenon DEF htmlToMarkdown
<1>7. htmlDecoder(htmlToMarkdown(html)) = Flat(page, Stage(Token))
  BY <1>6, DecodeStage, Zenon
<1>8. QED
  BY <1>7, FlatStage, Zenon

-----------------------------------------------------------------------------
(* A solution shows its lines. *)

\* What follows a piece.
LEMMA NextPiece ==
  ASSUME NEW pieces \in Seq(Seq(Token)), NEW J, Joins(J, pieces),
         NEW k \in 1 .. Len(pieces), \A j \in 1 .. Len(pieces) : pieces[j] # <<>>,
         Len(J[k]) + 1 <= Len(FlattenSeq(pieces))
  PROVE  /\ k + 1 \in 1 .. Len(pieces)
         /\ FlattenSeq(pieces)[Len(J[k]) + 1] = pieces[k + 1][1]
<1> DEFINE text == FlattenSeq(pieces)
           n == Len(pieces)
<1>1. n \in Nat /\ text = J[n] /\ n \in 0 .. n
  BY LenProperties, FlattenIsJoin
<1>2. Len(text) \in Nat /\ Len(J[k]) \in Nat
  <2>0. k \in 0 .. n
    BY <1>1
  <2>1. J[n] \in Seq(Token) /\ J[k] \in Seq(Token)
    BY <1>1, <2>0 DEF Joins
  <2>2. QED
    BY <1>1, <2>1, LenProperties
<1>3. k # n
  BY <1>1, <1>2
<1>4. k + 1 \in 1 .. n /\ (k + 1) - 1 = k
  BY <1>1, <1>3
<1>5. Stands(text, Len(J[k]), pieces[k + 1]) /\ pieces[k + 1] \in Seq(Token)
  <2>1. Stands(text, Len(J[(k + 1) - 1]), pieces[k + 1]) /\ pieces[k + 1] \in Seq(Token)
    BY <1>4, PieceAt
  <2>2. QED
    BY <1>4, <2>1
<1>6. pieces[k + 1] # <<>>
  BY <1>4
<1>7. Len(pieces[k + 1]) \in Nat \ {0}
  BY <1>5, <1>6, LenProperties, EmptySeq
<1>8. 1 \in 1 .. Len(pieces[k + 1])
  BY <1>7
<1>9. text[Len(J[k]) + 1] = pieces[k + 1][1]
  BY <1>5, <1>8, Zenon DEF Stands
<1>10. QED
  BY <1>4, <1>9

\* The control characters, each with its letter.
Controls == {"newline", "return", "tab"}

IsEscape(letter, char) ==
  \/ letter = "n" /\ char = "newline"
  \/ letter = "r" /\ char = "return"
  \/ letter = "t" /\ char = "tab"

\* The pieces of a solution: the control characters in done are made, the others
\* are as they are typed.
Stroked(post, done) ==
  [k \in DOMAIN post |->
     IF post[k] \in done THEN <<post[k]>> ELSE Typed(post[k])]

\* All are made.
Unescaped(post) ==
  [k \in DOMAIN post |->
     IF post[k] = "fence" THEN Backticks ELSE <<post[k]>>]

Displayed(post) == [k \in DOMAIN post |-> Shown(post, k)]

LEMMA TypedIs ==
  ASSUME NEW m
  PROVE  /\ \A l : IsEscape(l, m) => Typed(m) = <<"\\", l>>
         /\ m = "fence" => Typed(m) = Backticks
         /\ m \notin Controls \cup {"fence"} => Typed(m) = <<m>>
<1>1. ASSUME NEW l, IsEscape(l, m) PROVE Typed(m) = <<"\\", l>>
  <2>1. CASE l = "n" /\ m = "newline"
    BY <2>1 DEF Typed
  <2>2. CASE l = "r" /\ m = "return"
    BY <2>2 DEF Typed
  <2>3. CASE l = "t" /\ m = "tab"
    BY <2>3 DEF Typed
  <2>4. QED
    BY <1>1, <2>1, <2>2, <2>3 DEF IsEscape
<1>2. ASSUME m = "fence" PROVE Typed(m) = Backticks
  BY <1>2 DEF Typed
<1>3. ASSUME m \notin Controls \cup {"fence"} PROVE Typed(m) = <<m>>
  BY <1>3 DEF Typed, Controls
<1>4. QED
  BY <1>1, <1>2, <1>3

LEMMA ControlIs ==
  ASSUME NEW m \in Controls
  PROVE  /\ m # "fence" /\ m # "\\" /\ m \in Token
         /\ \E l \in {"n", "r", "t"} : IsEscape(l, m)
BY DEF Controls, IsEscape, Token

\* A stroke as a piece.
IsPiece(h, m, done) == h = IF m \in done THEN <<m>> ELSE Typed(m)

LEMMA PieceIs ==
  ASSUME NEW m, NEW done \in SUBSET Controls, NEW h, IsPiece(h, m, done)
  PROVE  \/ m = "fence" /\ h = Backticks
         \/ \E l \in {"n", "r", "t"} :
              m \notin done /\ IsEscape(l, m) /\ h = <<"\\", l>>
         \/ m # "fence" /\ h = <<m>>
<1>1. CASE m \in done
  BY <1>1, ControlIs DEF IsPiece
<1>2. CASE m \in Controls \ done
  <2>1. PICK l \in {"n", "r", "t"} : IsEscape(l, m)
    BY <1>2, ControlIs
  <2>2. QED
    BY <1>2, <2>1, TypedIs DEF IsPiece
<1>3. CASE m \notin Controls
  BY <1>3, TypedIs DEF IsPiece
<1>4. QED
  BY <1>1, <1>2, <1>3

LEMMA PieceTypes ==
  ASSUME NEW m \in Token, NEW done \in SUBSET Controls, NEW h, IsPiece(h, m, done)
  PROVE  h \in Seq(Token)
<1>1. {"tick", "\\", "n", "r", "t"} \subseteq Token
  BY Tokens DEF Word
<1>2. Backticks \in Seq(Token) /\ <<m>> \in Seq(Token)
  BY <1>1, Short DEF Backticks
<1>3. \A l \in {"n", "r", "t"} : <<"\\", l>> \in Seq(Token)
  BY <1>1, Short
<1>4. QED
  BY <1>2, <1>3, PieceIs

LEMMA StrokedTypes ==
  ASSUME NEW post \in Seq(Token), NEW done \in SUBSET Controls
  PROVE  /\ Stroked(post, done) \in Seq(Seq(Token))
         /\ Len(Stroked(post, done)) = Len(post)
         /\ \A k \in 1 .. Len(post) : IsPiece(Stroked(post, done)[k], post[k], done)
<1> DEFINE Piece(k) == IF post[k] \in done THEN <<post[k]>> ELSE Typed(post[k])
<1>1. /\ Len(post) \in Nat /\ DOMAIN post = 1 .. Len(post)
      /\ \A k \in 1 .. Len(post) : post[k] \in Token
  BY LenProperties, ElementOfSeq
<1>2. \A k \in 1 .. Len(post) : IsPiece(Piece(k), post[k], done)
  BY DEF IsPiece
<1>3. Stroked(post, done) = [k \in 1 .. Len(post) |-> Piece(k)]
  BY <1>1 DEF Stroked
<1> HIDE DEF Piece
<1>4. \A k \in 1 .. Len(post) : Piece(k) \in Seq(Token)
  BY <1>1, <1>2, PieceTypes
<1>5. /\ [k \in 1 .. Len(post) |-> Piece(k)] \in Seq(Seq(Token))
      /\ Len([k \in 1 .. Len(post) |-> Piece(k)]) = Len(post)
  BY <1>1, <1>4, IsASeq
<1>6. QED
  BY <1>2, <1>3, <1>5

LEMMA SolutionTypes ==
  ASSUME NEW post \in Seq(Token), Slug \in Seq(Token)
  PROVE  /\ Unescaped(post) \in Seq(Seq(Token)) /\ Len(Unescaped(post)) = Len(post)
         /\ Displayed(post) \in Seq(Seq(Token)) /\ Len(Displayed(post)) = Len(post)
         /\ \A k \in 1 .. Len(post) :
              /\ post[k] \in Token
              /\ Unescaped(post)[k] = IF post[k] = "fence" THEN Backticks ELSE <<post[k]>>
              /\ Displayed(post)[k] = Shown(post, k)
<1>1. /\ Len(post) \in Nat /\ DOMAIN post = 1 .. Len(post)
      /\ \A k \in 1 .. Len(post) : post[k] \in Token
  BY LenProperties, ElementOfSeq
<1>2. /\ Backticks \in Seq(Token)
      /\ \A m \in Token : <<m>> \in Seq(Token)
      /\ Backticks \o Slug \in Seq(Token)
  <2>1. "tick" \in Token
    BY Tokens
  <2>2. Backticks \in Seq(Token)
    BY <2>1, Short DEF Backticks
  <2>3. QED
    BY <2>2, Short, ConcatProperties
<1>3. \A k \in 1 .. Len(post) :
        /\ (IF post[k] = "fence" THEN Backticks ELSE <<post[k]>>) \in Seq(Token)
        /\ Shown(post, k) \in Seq(Token)
  BY <1>1, <1>2 DEF Shown
<1>4. /\ Unescaped(post) = [k \in 1 .. Len(post) |->
                              IF post[k] = "fence" THEN Backticks ELSE <<post[k]>>]
      /\ Displayed(post) = [k \in 1 .. Len(post) |-> Shown(post, k)]
  BY <1>1 DEF Unescaped, Displayed
<1>5. /\ [k \in 1 .. Len(post) |->
            IF post[k] = "fence" THEN Backticks ELSE <<post[k]>>] \in Seq(Seq(Token))
      /\ [k \in 1 .. Len(post) |-> Shown(post, k)] \in Seq(Seq(Token))
  BY <1>1, <1>3, IsASeq
<1>6. /\ Len(Unescaped(post)) = Len(post) /\ Len(Displayed(post)) = Len(post)
  BY <1>1, <1>3, <1>4, IsASeq
<1>7. QED
  BY <1>1, <1>4, <1>5, <1>6

\* The first token of a piece is a letter only if the stroke is.
LEMMA StrokedHead ==
  ASSUME NEW m, NEW done \in SUBSET Controls, NEW h, IsPiece(h, m, done)
  PROVE  h # <<>> /\ (h[1] \in {"n", "r", "t"} => m = h[1])
<1>1. CASE h = <<"tick", "tick", "tick">>
  BY ONLY <1>1
<1>2. ASSUME NEW l, h = <<"\\", l>>
      PROVE  h # <<>> /\ h[1] \notin {"n", "r", "t"}
  BY ONLY <1>2
<1>3. CASE h = <<m>>
  BY ONLY <1>3
<1>4. QED
  BY <1>1, <1>2, <1>3, PieceIs DEF Backticks

\* What a solution is when the control characters in done are made.
Making(post, done, J) ==
  /\ post \in Seq(Token) /\ Written(post)
  /\ done \in SUBSET Controls
  /\ Joins(J, Stroked(post, done))

\* A backslash that is a stroke has no letter of an escape behind it.
LEMMA LoneBackslash ==
  ASSUME NEW post, NEW done, NEW J, Making(post, done, J),
         NEW l \in {"n", "r", "t"}, NEW k \in 1 .. Len(post),
         Stroked(post, done)[k] = <<post[k]>>
  PROVE  NoMatch(Literal(FlattenSeq(Stroked(post, done)), <<"\\", l>>),
                 Len(J[k - 1]), Stroked(post, done)[k])
<1> DEFINE pieces == Stroked(post, done)
           text == FlattenSeq(pieces)
           word == <<"\\", l>>
           c == Len(J[k - 1])
           h == pieces[k]
<1>0. /\ post \in Seq(Token) /\ Written(post) /\ done \in SUBSET Controls
      /\ Joins(J, pieces)
  BY DEF Making
<1>1. /\ pieces \in Seq(Seq(Token)) /\ Len(pieces) = Len(post)
      /\ \A j \in 1 .. Len(post) : IsPiece(pieces[j], post[j], done)
      /\ Len(post) \in Nat
  BY <1>0, StrokedTypes, LenProperties
<1>2. word \in Seq(Token) /\ word # <<>> /\ Len(word) = 2 /\ word[1] = "\\" /\ word[2] = l
  <2>1. word # <<>> /\ Len(word) = 2 /\ word[1] = "\\" /\ word[2] = l
    OBVIOUS
  <2>2. "\\" \in Token /\ l \in Token
    BY Tokens DEF Word
  <2>3. QED
    BY <2>1, <2>2, Short
<1>h. h = <<post[k]>>
  OBVIOUS
<1> HIDE DEF pieces, word
<1>3. /\ c \in Nat /\ Stands(text, c, h) /\ h \in Seq(Token)
      /\ Len(h) \in Nat /\ Len(J[k]) = c + Len(h)
  BY <1>0, <1>1, PieceAt
<1>4. text \in Seq(Token) /\ Len(text) \in Nat
  <2>1. text = J[Len(pieces)] /\ Len(pieces) \in 0 .. Len(pieces)
    BY <1>0, <1>1, FlattenIsJoin
  <2>2. text \in Seq(Token)
    BY <1>0, <2>1 DEF Joins
  <2>3. QED
    BY <2>2, LenProperties
<1>5. Len(h) = 1 /\ h[1] = post[k]
  BY ONLY <1>h
<1>6. SUFFICES ASSUME Literal(text, word)[c + 1] # 0 PROVE FALSE
  <2>1. \A i \in 1 .. Len(h) : i = 1
    BY <1>5
  <2>2. QED
    BY <2>1 DEF NoMatch, word, pieces
<1>7. c + 1 \in 1 .. Len(text) /\ text[c + 1] = post[k]
  <2>0. 1 \in 1 .. Len(h)
    BY ONLY <1>5
  <2>1. c + Len(h) <= Len(text) /\ 1 \in 1 .. Len(h)
    BY <1>3, <2>0, Zenon DEF Stands
  <2>2. text[c + 1] = h[1]
    BY <1>3, <2>1, Zenon DEF Stands
  <2>3. QED
    BY <1>3, <1>4, <1>5, <2>1, <2>2
<1>8. /\ (c + 1) + 2 - 1 <= Len(text)
      /\ \A j \in 1 .. 2 : text[(c + 1) + j - 1] = word[j]
  <2>1. /\ Literal(text, word)[c + 1] = (c + 1) + Len(word) - 1
        /\ Literal(text, word)[c + 1] \in c + 1 .. Len(text)
        /\ \A j \in 1 .. Len(word) : text[(c + 1) + j - 1] = word[j]
    BY <1>2, <1>4, <1>6, <1>7, LiteralAt
  <2>2. QED
    BY <1>2, <1>3, <1>4, <2>1
<1>9. /\ post[k] = "\\" /\ text[(c + 1) + 1] = l
      /\ Len(J[k]) + 1 = (c + 1) + 1 /\ Len(J[k]) + 1 <= Len(text)
  <2>1. /\ (c + 1) + 1 - 1 = c + 1 /\ (c + 1) + 2 - 1 = (c + 1) + 1
        /\ 1 \in 1 .. 2 /\ 2 \in 1 .. 2
    BY <1>3
  <2>2. text[c + 1] = "\\" /\ text[(c + 1) + 1] = l
    BY <1>2, <1>8, <2>1
  <2>3. QED
    BY <1>3, <1>5, <1>7, <1>8, <2>1, <2>2
<1>10. k + 1 \in 1 .. Len(post) /\ text[Len(J[k]) + 1] = pieces[k + 1][1]
  <2>1. \A j \in 1 .. Len(pieces) : pieces[j] # <<>>
    BY <1>0, <1>1, StrokedHead
  <2>2. k \in 1 .. Len(pieces)
    BY <1>1
  <2>3. QED
    BY ONLY <1>0, <1>1, <1>9, <2>1, <2>2, NextPiece
<1>11. post[k + 1] = l
  <2>1. IsPiece(pieces[k + 1], post[k + 1], done)
    BY <1>1, <1>10
  <2>2. pieces[k + 1][1] = l
    BY <1>9, <1>10
  <2>3. QED
    BY <1>0, <2>1, <2>2, StrokedHead
<1>12. k \in 1 .. Len(post) - 1
  BY <1>1, <1>10
<1>13. QED
  BY <1>0, <1>9, <1>11, <1>12 DEF Written

\* Where an escape does not stand, its pass finds none.
LEMMA NoEscape ==
  ASSUME NEW post, NEW done, NEW J, Making(post, done, J),
         NEW l \in {"n", "r", "t"}, NEW m, IsEscape(l, m),
         NEW k \in 1 .. Len(post), post[k] # m
  PROVE  NoMatch(Literal(FlattenSeq(Stroked(post, done)), <<"\\", l>>),
                 Len(J[k - 1]), Stroked(post, done)[k])
<1> DEFINE pieces == Stroked(post, done)
           text == FlattenSeq(pieces)
           word == <<"\\", l>>
           c == Len(J[k - 1])
           h == pieces[k]
<1>0. /\ post \in Seq(Token) /\ done \in SUBSET Controls /\ Joins(J, pieces)
  BY DEF Making
<1>1. /\ pieces \in Seq(Seq(Token)) /\ Len(pieces) = Len(post)
      /\ IsPiece(h, post[k], done) /\ Len(post) \in Nat
  BY <1>0, StrokedTypes, LenProperties
<1>2. word \in Seq(Token) /\ word # <<>> /\ Len(word) = 2 /\ word[1] = "\\" /\ word[2] = l
  <2>1. word # <<>> /\ Len(word) = 2 /\ word[1] = "\\" /\ word[2] = l
    OBVIOUS
  <2>2. "\\" \in Token /\ l \in Token
    BY Tokens DEF Word
  <2>3. QED
    BY <2>1, <2>2, Short
<1>3. CASE h = <<post[k]>>
  BY <1>3, LoneBackslash
<1> HIDE DEF pieces, word
<1>4. /\ c \in Nat /\ Stands(text, c, h) /\ h \in Seq(Token)
  BY <1>0, <1>1, PieceAt
<1>5. text \in Seq(Token)
  <2>1. text = J[Len(pieces)] /\ Len(pieces) \in 0 .. Len(pieces)
    BY <1>0, <1>1, FlattenIsJoin, LenProperties
  <2>2. QED
    BY <1>0, <2>1 DEF Joins
<1>6. ASSUME Clear(h, word) PROVE NoMatch(Literal(text, word), c, h)
  BY ONLY <1>2, <1>4, <1>5, <1>6, ClearOfMatches
<1>7. CASE h = Backticks
  <2>1. Len(h) = 3 /\ h[1] = "tick" /\ h[2] = "tick" /\ h[3] = "tick"
    <3>1. h = <<"tick", "tick", "tick">>
      BY <1>7 DEF Backticks
    <3>2. QED
      BY ONLY <3>1
  <2>2. ASSUME NEW i \in 1 .. Len(h) PROVE h[i] # "\\"
    BY ONLY <2>1, i \in 1 .. Len(h)
  <2>3. Clear(h, word)
    BY <1>2, <2>2 DEF Clear
  <2>4. QED
    BY <1>6, <2>3 DEF pieces, word
<1>8. ASSUME NEW other \in {"n", "r", "t"}, IsEscape(other, post[k]), h = <<"\\", other>>
      PROVE  NoMatch(Literal(text, word), c, h)
  <2>1. Len(h) = 2 /\ h[1] = "\\" /\ h[2] = other
    BY ONLY <1>8
  <2>2. other # l
    BY <1>8 DEF IsEscape
  <2>3. ASSUME NEW i \in 1 .. Len(h), h[i] = "\\" PROVE i = 1
    <3>1. i = 1 \/ i = 2
      BY ONLY <2>1, i \in 1 .. Len(h)
    <3>2. other # "\\"
      OBVIOUS
    <3>3. QED
      BY ONLY <2>1, <2>3, <3>1, <3>2
  <2>4. Clear(h, word)
    <3>1. 2 \in 1 .. Len(word) /\ 1 + 2 - 1 = 2
      BY ONLY <1>2
    <3>2. 2 <= Len(h) /\ h[2] # word[2]
      BY ONLY <1>2, <2>1, <2>2
    <3>3. QED
      BY ONLY <1>2, <2>3, <3>1, <3>2 DEF Clear
  <2>5. QED
    BY <1>6, <2>4
<1>9. QED
  BY <1>0, <1>1, <1>3, <1>7, <1>8, PieceIs DEF pieces, word

\* The pass that makes the control characters of a letter.
LEMMA EscapePass ==
  ASSUME NEW post \in Seq(Token), Written(post), NEW done \in SUBSET Controls,
         NEW l \in {"n", "r", "t"}, NEW m \in Controls \ done, IsEscape(l, m)
  PROVE  Unescape(FlattenSeq(Stroked(post, done)), l, m)
           = FlattenSeq(Stroked(post, done \cup {m}))
<1> DEFINE pieces == Stroked(post, done)
           images == Stroked(post, done \cup {m})
           word == <<"\\", l>>
           with == <<m>>
<1>1. /\ pieces \in Seq(Seq(Token)) /\ Len(pieces) = Len(post)
      /\ images \in Seq(Seq(Token)) /\ Len(images) = Len(pieces)
      /\ \A k \in 1 .. Len(post) :
           /\ IsPiece(pieces[k], post[k], done)
           /\ IsPiece(images[k], post[k], done \cup {m})
  BY StrokedTypes
<1>2. word \in Seq(Token) /\ word # <<>> /\ with \in Seq(Token)
  <2>1. "\\" \in Token /\ l \in Token /\ m \in Token
    BY Tokens, ControlIs DEF Word
  <2>2. QED
    BY <2>1, Short
<1>3. PICK J : Joins(J, pieces)
  BY <1>1, JoinsExist
<1>4. ASSUME NEW k \in 1 .. Len(pieces)
      PROVE  \/ pieces[k] = word /\ images[k] = with
             \/ /\ NoMatch(Literal(FlattenSeq(pieces), word), Len(J[k - 1]), pieces[k])
                /\ images[k] = pieces[k]
  <2>0. k \in 1 .. Len(post)
    BY <1>1
  <2>1. CASE post[k] = m
    BY <1>1, <2>0, <2>1, TypedIs DEF IsPiece
  <2>2. CASE post[k] # m
    <3>1. images[k] = pieces[k]
      BY <1>1, <2>0, <2>2 DEF IsPiece
    <3>2. Making(post, done, J)
      BY <1>3 DEF Making
    <3>3. NoMatch(Literal(FlattenSeq(pieces), word), Len(J[k - 1]), pieces[k])
      BY <2>0, <2>2, <3>2, NoEscape
    <3>4. QED
      BY <3>1, <3>3
  <2>3. QED
    BY <2>1, <2>2
<1> HIDE DEF pieces, images, word, with
<1>5. regex_replace(FlattenSeq(pieces), Literal(FlattenSeq(pieces), word), with)
        = FlattenSeq(images)
  BY ONLY <1>1, <1>2, <1>3, <1>4, LiteralPass
<1>6. QED
  BY <1>5 DEF Unescape, pieces, images, word, with

\* The three passes, one after the other.
LEMMA EscapePasses ==
  ASSUME NEW post \in Seq(Token), Written(post)
  PROVE  LET lines == Unescape(FlattenSeq([i \in DOMAIN post |-> Typed(post[i])]),
                               "n", "newline")
             returns == Unescape(lines, "r", "return")
         IN Unescape(returns, "t", "tab") = FlattenSeq(Unescaped(post))
<1> DEFINE Done(done) == FlattenSeq(Stroked(post, done))
<1>0. ASSUME NEW done \in SUBSET Controls, NEW l \in {"n", "r", "t"},
             NEW m \in Controls \ done, IsEscape(l, m)
      PROVE  Unescape(Done(done), l, m) = Done(done \cup {m})
  BY <1>0, EscapePass
<1>1. /\ {} \in SUBSET Controls /\ {"newline"} \in SUBSET Controls
      /\ {"newline", "return"} \in SUBSET Controls
      /\ "newline" \in Controls \ {} /\ "return" \in Controls \ {"newline"}
      /\ "tab" \in Controls \ {"newline", "return"}
      /\ {} \cup {"newline"} = {"newline"}
      /\ {"newline"} \cup {"return"} = {"newline", "return"}
      /\ {"newline", "return"} \cup {"tab"} = Controls
  BY DEF Controls
<1>2. /\ IsEscape("n", "newline") /\ IsEscape("r", "return") /\ IsEscape("t", "tab")
      /\ "n" \in {"n", "r", "t"} /\ "r" \in {"n", "r", "t"} /\ "t" \in {"n", "r", "t"}
  BY DEF IsEscape
<1>3. [i \in DOMAIN post |-> Typed(post[i])] = Stroked(post, {})
  BY DEF Stroked
<1> HIDE DEF Done
<1>4. Unescape(Done({}), "n", "newline") = Done({"newline"})
  <2>1. Unescape(Done({}), "n", "newline") = Done({} \cup {"newline"})
    BY ONLY <1>0, <1>1, <1>2
  <2>2. QED
    BY <1>1, <2>1
<1>5. Unescape(Done({"newline"}), "r", "return") = Done({"newline", "return"})
  <2>1. Unescape(Done({"newline"}), "r", "return") = Done({"newline"} \cup {"return"})
    BY ONLY <1>0, <1>1, <1>2
  <2>2. QED
    BY <1>1, <2>1
<1>6. Unescape(Done({"newline", "return"}), "t", "tab") = Done(Controls)
  <2>1. Unescape(Done({"newline", "return"}), "t", "tab")
          = Done({"newline", "return"} \cup {"tab"})
    BY ONLY <1>0, <1>1, <1>2
  <2>2. QED
    BY <1>1, <2>1
<1>7. Stroked(post, Controls) = Unescaped(post)
  <2>1. \A k \in DOMAIN post :
          (IF post[k] \in Controls THEN <<post[k]>> ELSE Typed(post[k]))
            = IF post[k] = "fence" THEN Backticks ELSE <<post[k]>>
    BY TypedIs, ControlIs
  <2>2. QED
    BY <2>1 DEF Stroked, Unescaped
<1>8. QED
  BY <1>3, <1>4, <1>5, <1>6, <1>7, Zenon DEF Done

-----------------------------------------------------------------------------
(* Fences. *)

LEMMA BareAt ==
  ASSUME NEW text \in Seq(Token), NEW i \in 1 .. Len(text)
  PROVE  /\ Bare(text)[i] # 0 =>
              /\ Bare(text)[i] = i + 2 /\ i + 2 <= Len(text)
              /\ text[i] = "tick" /\ text[i + 1] = "tick" /\ text[i + 2] = "tick"
              /\ i + 3 <= Len(text) => text[i + 3] \notin Word
         /\ /\ i + 2 <= Len(text)
            /\ text[i] = "tick" /\ text[i + 1] = "tick" /\ text[i + 2] = "tick"
            /\ i + 3 <= Len(text) => text[i + 3] \notin Word
            => Bare(text)[i] = i + 2
<1>1. i \in Nat \ {0} /\ DOMAIN text = 1 .. Len(text) /\ Len(text) \in Nat
  BY LenProperties
<1>2. Bare(text)[i] = IF i + 3 <= Len(text) /\ text[i + 3] \in Word
                        THEN 0 ELSE Literal(text, Backticks)[i]
  BY <1>1 DEF Bare
<1>3. /\ Backticks \in Seq(Token) /\ Backticks # <<>> /\ Len(Backticks) = 3
      /\ Backticks[1] = "tick" /\ Backticks[2] = "tick" /\ Backticks[3] = "tick"
  <2>1. "tick" \in Token
    BY Tokens
  <2>2. QED
    BY <2>1, Short DEF Backticks
<1>4. /\ i + 1 - 1 = i /\ i + 2 - 1 = i + 1 /\ i + 3 - 1 = i + 2
      /\ \A j \in 1 .. 3 : j = 1 \/ j = 2 \/ j = 3
      /\ 1 \in 1 .. 3 /\ 2 \in 1 .. 3 /\ 3 \in 1 .. 3
  BY <1>1
<1>5. /\ Literal(text, Backticks)[i] # 0 =>
           /\ Literal(text, Backticks)[i] = i + 2
           /\ Literal(text, Backticks)[i] \in i .. Len(text)
           /\ \A j \in 1 .. 3 : text[i + j - 1] = Backticks[j]
      /\ /\ i + 2 <= Len(text)
         /\ \A j \in 1 .. 3 : text[i + j - 1] = Backticks[j]
         => Literal(text, Backticks)[i] = i + 2
  <2> DEFINE end == Literal(text, Backticks)
  <2>1. /\ end[i] # 0 =>
             /\ end[i] = i + Len(Backticks) - 1
             /\ end[i] \in i .. Len(text)
             /\ \A j \in 1 .. Len(Backticks) : text[i + j - 1] = Backticks[j]
        /\ /\ i + Len(Backticks) - 1 <= Len(text)
           /\ \A j \in 1 .. Len(Backticks) : text[i + j - 1] = Backticks[j]
           => end[i] = i + Len(Backticks) - 1
    BY ONLY <1>3, LiteralAt, text \in Seq(Token), i \in 1 .. Len(text)
  <2>2. i + Len(Backticks) - 1 = i + 2
    BY <1>1, <1>3
  <2> HIDE DEF end
  <2>3. QED
    BY ONLY <1>3, <2>1, <2>2 DEF end
<1>6. (\A j \in 1 .. 3 : text[i + j - 1] = Backticks[j]) <=>
        text[i] = "tick" /\ text[i + 1] = "tick" /\ text[i + 2] = "tick"
  BY ONLY <1>3, <1>4
<1>7. QED
  BY <1>1, <1>2, <1>5, <1>6

\* The first token of a piece, once the new lines are made.
LEMMA UnescapedHead ==
  ASSUME NEW m, NEW h, h = IF m = "fence" THEN Backticks ELSE <<m>>
  PROVE  /\ h # <<>>
         /\ h[1] \in Word <=> m \in Word
         /\ h[1] = "tick" <=> m = "tick" \/ m = "fence"
<1>1. CASE m = "fence"
  <2>1. h = <<"tick", "tick", "tick">>
    BY <1>1 DEF Backticks
  <2>2. h # <<>> /\ h[1] = "tick"
    BY ONLY <2>1
  <2>3. QED
    BY <1>1, <2>2 DEF Word
<1>2. CASE m # "fence"
  <2>1. h = <<m>>
    BY <1>2
  <2>2. h # <<>> /\ h[1] = m
    BY ONLY <2>1
  <2>3. QED
    BY <1>2, <2>2
<1>3. QED
  BY <1>1, <1>2

\* Where ticks are no fence, or one that has its language.
LEMMA NoBareFence ==
  ASSUME NEW post \in Seq(Token), Written(post), Slug \in Seq(Token),
         NEW J, Joins(J, Unescaped(post)),
         NEW k \in 1 .. Len(post), post[k] = "fence" => Tagged(post, k)
  PROVE  NoMatch(Bare(FlattenSeq(Unescaped(post))), Len(J[k - 1]), Unescaped(post)[k])
<1> DEFINE pieces == Unescaped(post)
           text == FlattenSeq(pieces)
           c == Len(J[k - 1])
           h == pieces[k]
<1>1. /\ pieces \in Seq(Seq(Token)) /\ Len(pieces) = Len(post) /\ Joins(J, pieces)
      /\ \A j \in 1 .. Len(post) :
           pieces[j] = IF post[j] = "fence" THEN Backticks ELSE <<post[j]>>
      /\ Len(post) \in Nat
  BY SolutionTypes, LenProperties
<1> HIDE DEF pieces
<1>2. \A j \in 1 .. Len(post) :
        /\ pieces[j] # <<>>
        /\ pieces[j][1] \in Word <=> post[j] \in Word
        /\ pieces[j][1] = "tick" <=> post[j] = "tick" \/ post[j] = "fence"
  BY ONLY <1>1, UnescapedHead
<1>3. text \in Seq(Token) /\ Len(text) \in Nat
  <2>1. text = J[Len(pieces)] /\ Len(pieces) \in 0 .. Len(pieces)
    BY <1>1, FlattenIsJoin
  <2>2. text \in Seq(Token)
    BY <1>1, <2>1 DEF Joins
  <2>3. QED
    BY <2>2, LenProperties
<1>4. \A j \in 1 .. Len(post) :
        /\ Len(J[j - 1]) \in Nat /\ Len(J[j]) = Len(J[j - 1]) + Len(pieces[j])
        /\ Stands(text, Len(J[j - 1]), pieces[j])
  BY <1>1, PieceAt
<1>5. \A j \in 1 .. Len(post) : Len(J[j]) + 1 <= Len(text) =>
        j + 1 \in 1 .. Len(post) /\ text[Len(J[j]) + 1] = pieces[j + 1][1]
  BY ONLY <1>1, <1>2, NextPiece
<1> HIDE DEF text
<1>6. CASE post[k] = "fence"
  <2>1. /\ Len(h) = 3 /\ h[1] = "tick" /\ h[2] = "tick" /\ h[3] = "tick"
    <3>1. h = <<"tick", "tick", "tick">>
      BY <1>1, <1>6 DEF Backticks
    <3>2. QED
      BY ONLY <3>1
  <2>2. c \in Nat /\ c + 3 <= Len(text) /\ Len(J[k]) = c + 3
    BY <1>4, <2>1 DEF Stands
  <2>3. k < Len(post) /\ post[k + 1] \in Word
    BY <1>6 DEF Tagged
  <2>4. k + 1 \in 1 .. Len(post) /\ (k + 1) - 1 = k
    BY <1>1, <2>3
  <2>5. c + 4 <= Len(text) /\ text[c + 4] \in Word
    <3>1. /\ Len(J[k]) + Len(pieces[k + 1]) <= Len(text)
          /\ Len(pieces[k + 1]) \in Nat \ {0}
      <4>1. Stands(text, Len(J[k]), pieces[k + 1])
        BY <1>4, <2>4
      <4>2. pieces[k + 1] \in Seq(Token) /\ pieces[k + 1] # <<>>
        BY <1>1, <1>2, <2>4, ElementOfSeq
      <4>3. Len(pieces[k + 1]) \in Nat \ {0}
        BY <4>2, LenProperties, EmptySeq
      <4>4. QED
        BY <4>1, <4>3, Zenon DEF Stands
    <3>2. Len(J[k]) + 1 <= Len(text)
      <4>1. \A a \in Nat, b \in Nat \ {0}, d \in Nat : a + b <= d => a + 1 <= d
        OBVIOUS
      <4>2. Len(J[k]) \in Nat
        BY <2>2
      <4>3. QED
        BY ONLY <1>3, <3>1, <4>1, <4>2
    <3>3. text[Len(J[k]) + 1] = pieces[k + 1][1]
      BY <1>1, <1>5, <3>2
    <3>4. text[Len(J[k]) + 1] \in Word
      BY <1>2, <2>3, <2>4, <3>3
    <3>5. Len(J[k]) + 1 = c + 4
      BY <2>2
    <3>6. QED
      BY <3>2, <3>4, <3>5
  <2>6. text[c + 4] # "tick"
    BY <2>5 DEF Word
  <2>7. ASSUME NEW i \in 1 .. 3 PROVE Bare(text)[c + i] = 0
    <3>1. c + i \in 1 .. Len(text)
      BY <1>3, <2>2
    <3>2. CASE i = 1
      <4>1. (c + i) + 3 = c + 4
        BY <2>2, <3>2
      <4>2. QED
        BY <1>3, <2>5, <3>1, <4>1, BareAt
    <3>3. CASE i = 2
      <4>1. (c + i) + 2 = c + 4
        BY <2>2, <3>3
      <4>2. QED
        BY <1>3, <2>6, <3>1, <4>1, BareAt
    <3>4. CASE i = 3
      <4>1. (c + i) + 1 = c + 4
        BY <2>2, <3>4
      <4>2. QED
        BY <1>3, <2>6, <3>1, <4>1, BareAt
    <3>5. QED
      BY <3>2, <3>3, <3>4
  <2>8. QED
    BY <2>1, <2>7 DEF NoMatch, text, pieces
<1>7. CASE post[k] # "fence"
  <2>1. Len(h) = 1 /\ h[1] = post[k]
    <3>1. h = <<post[k]>>
      BY <1>1, <1>7
    <3>2. QED
      BY ONLY <3>1
  <2>2. SUFFICES ASSUME Bare(text)[c + 1] # 0 PROVE FALSE
    <3>1. \A i \in 1 .. Len(h) : i = 1
      BY <2>1
    <3>2. QED
      BY <3>1 DEF NoMatch, text, pieces
  <2>3. c \in Nat /\ c + 1 <= Len(text) /\ Len(J[k]) = c + 1 /\ text[c + 1] = post[k]
    <3>1. c \in Nat /\ Len(J[k]) = c + 1 /\ Stands(text, c, h)
      BY <1>4, <2>1
    <3>2. 1 \in 1 .. Len(h)
      BY ONLY <2>1
    <3>3. c + Len(h) <= Len(text) /\ text[c + 1] = h[1]
      BY <3>1, <3>2, Zenon DEF Stands
    <3>4. QED
      BY ONLY <2>1, <3>1, <3>3
  <2>4. c + 1 \in 1 .. Len(text)
    BY <1>3, <2>3
  <2>5. /\ (c + 1) + 2 <= Len(text) /\ text[c + 1] = "tick"
        /\ text[(c + 1) + 1] = "tick" /\ text[(c + 1) + 2] = "tick"
    BY <1>3, <2>2, <2>4, BareAt
  <2>6. /\ post[k] = "tick" /\ Len(J[k]) + 1 <= Len(text)
        /\ Len(J[k]) + 1 = (c + 1) + 1 /\ Len(J[k]) + 2 = (c + 1) + 2
    BY <1>3, <2>3, <2>5
  <2>7. k + 1 \in 1 .. Len(post) /\ pieces[k + 1][1] = "tick"
    BY <1>5, <2>5, <2>6
  <2>8. post[k + 1] = "tick"
    <3>1. k \in 1 .. Len(post) - 1
      BY <1>1, <2>7
    <3>2. post[k + 1] = "tick" \/ post[k + 1] = "fence"
      BY <1>2, <2>7
    <3>3. QED
      BY <2>6, <3>1, <3>2 DEF Written
  <2>9. Len(J[k + 1]) = Len(J[k]) + 1
    <3>1. (k + 1) - 1 = k
      BY <1>1
    <3>2. pieces[k + 1] = <<post[k + 1]>>
      BY <1>1, <2>7, <2>8
    <3>3. Len(pieces[k + 1]) = 1
      BY ONLY <3>2
    <3>4. QED
      BY <1>4, <2>7, <3>1, <3>3
  <2>10. /\ (k + 1) + 1 \in 1 .. Len(post) /\ pieces[(k + 1) + 1][1] = "tick"
    <3>1. Len(J[k + 1]) + 1 = (c + 1) + 2
      BY <2>3, <2>9
    <3>2. Len(J[k + 1]) + 1 <= Len(text) /\ text[Len(J[k + 1]) + 1] = "tick"
      BY <2>5, <3>1
    <3>3. QED
      BY <1>5, <2>7, <3>2
  <2>11. /\ (k + 1) + 1 = k + 2 /\ k \in 1 .. Len(post) - 2
         /\ k + 1 \in 1 .. Len(post) - 1
    BY <1>1, <2>10
  <2>12. post[k + 2] = "tick" \/ post[k + 2] = "fence"
    BY <1>2, <2>10, <2>11
  <2>13. QED
    BY <2>6, <2>8, <2>11, <2>12 DEF Written
<1>8. QED
  BY <1>6, <1>7

\* The pass that gives the fences their language.
LEMMA FencePass ==
  ASSUME NEW post \in Seq(Token), Written(post), Slug \in Seq(Token)
  PROVE  LET text == FlattenSeq(Unescaped(post))
         IN regex_replace(text, Bare(text), Backticks \o Slug)
              = FlattenSeq(Displayed(post))
<1> DEFINE pieces == Unescaped(post)
           images == Displayed(post)
           text == FlattenSeq(pieces)
           end == Bare(text)
           with == Backticks \o Slug
           put == [i \in DOMAIN text |-> with]
<1>1. /\ pieces \in Seq(Seq(Token)) /\ Len(pieces) = Len(post)
      /\ images \in Seq(Seq(Token)) /\ Len(images) = Len(pieces)
      /\ \A k \in 1 .. Len(post) :
           /\ pieces[k] = IF post[k] = "fence" THEN Backticks ELSE <<post[k]>>
           /\ images[k] = Shown(post, k)
      /\ Len(post) \in Nat
  BY SolutionTypes, LenProperties
<1>2. PICK J : Joins(J, pieces)
  BY <1>1, JoinsExist
<1>3. with \in Seq(Token) /\ Backticks \in Seq(Token)
  <2>1. Backticks \in Seq(Token)
    BY Tokens, Short DEF Backticks
  <2>2. QED
    BY <2>1, ConcatProperties
<1> HIDE DEF pieces, images, with
<1>4. text \in Seq(Token) /\ DOMAIN text = 1 .. Len(text) /\ Len(text) \in Nat
  <2>1. text = J[Len(pieces)] /\ Len(pieces) \in 0 .. Len(pieces)
    BY <1>1, <1>2, FlattenIsJoin
  <2>2. text \in Seq(Token)
    BY <1>2, <2>1 DEF Joins
  <2>3. QED
    BY <2>2, LenProperties
<1>5. \A k \in 1 .. Len(post) :
        /\ Len(J[k - 1]) \in Nat /\ Len(J[k]) = Len(J[k - 1]) + Len(pieces[k])
        /\ Stands(text, Len(J[k - 1]), pieces[k])
  BY <1>1, <1>2, PieceAt
<1>6. \A k \in 1 .. Len(post) : Len(J[k]) + 1 <= Len(text) =>
        k + 1 \in 1 .. Len(post) /\ text[Len(J[k]) + 1] = pieces[k + 1][1]
  <2>1. \A j \in 1 .. Len(pieces) : pieces[j] # <<>>
    BY <1>1, UnescapedHead
  <2>2. QED
    BY ONLY <1>1, <1>2, <2>1, NextPiece
<1>t. text = FlattenSeq(pieces)
  OBVIOUS
<1> HIDE DEF text
<1>7. \A i \in 1 .. Len(text) : put[i] = with
  BY <1>4
<1> HIDE DEF put
<1>8. Replaceable(text, end, put)
  <2>1. ASSUME NEW i \in 1 .. Len(text), end[i] # 0
        PROVE  end[i] \in i .. Len(text) /\ put[i] \in Seq(Token)
    <3>1. end[i] = i + 2 /\ i + 2 <= Len(text)
      BY <1>4, <2>1, BareAt
    <3>2. QED
      BY <1>3, <1>4, <1>7, <3>1
  <2>2. QED
    BY <1>4, <2>1 DEF Replaceable
<1>9. ASSUME NEW k \in 1 .. Len(pieces)
      PROVE  \/ Kept(end, Len(J[k - 1]), pieces[k], images[k])
             \/ Hit(end, put, Len(J[k - 1]), pieces[k], images[k])
  <2> DEFINE c == Len(J[k - 1])
  <2>0. k \in 1 .. Len(post)
    BY <1>1
  <2>1. CASE post[k] = "fence" => Tagged(post, k)
    <3>1. images[k] = pieces[k]
      BY <1>1, <2>0, <2>1 DEF Shown
    <3>2. NoMatch(end, c, pieces[k])
      <4>1. NoMatch(Bare(FlattenSeq(Unescaped(post))), Len(J[k - 1]), Unescaped(post)[k])
        BY <1>2, <2>0, <2>1, NoBareFence DEF pieces
      <4>2. QED
        BY <4>1 DEF pieces, text
    <3>3. QED
      BY <3>1, <3>2 DEF Kept, NoMatch
  <2>2. CASE post[k] = "fence" /\ ~ Tagged(post, k)
    <3>1. images[k] = with /\ pieces[k] = Backticks
      BY <1>1, <2>0, <2>2 DEF Shown, with
    <3>2. /\ Len(pieces[k]) = 3 /\ pieces[k][1] = "tick"
          /\ pieces[k][2] = "tick" /\ pieces[k][3] = "tick"
      <4>1. pieces[k] = <<"tick", "tick", "tick">>
        BY <3>1 DEF Backticks
      <4>2. QED
        BY ONLY <4>1
    <3>3. c \in Nat /\ c + 3 <= Len(text) /\ Len(J[k]) = c + 3
      BY <1>5, <2>0, <3>2 DEF Stands
    <3>4. text[c + 1] = "tick" /\ text[c + 2] = "tick" /\ text[c + 3] = "tick"
      <4>1. \A i \in 1 .. 3 : text[c + i] = pieces[k][i]
        <5>1. \A i \in 1 .. Len(pieces[k]) : text[c + i] = pieces[k][i]
          BY <1>5, <2>0, Zenon DEF Stands
        <5>2. QED
          BY <3>2, <5>1
      <4>2. 1 \in 1 .. 3 /\ 2 \in 1 .. 3 /\ 3 \in 1 .. 3
        OBVIOUS
      <4>3. QED
        BY ONLY <3>2, <4>1, <4>2
    <3>5. ASSUME c + 4 <= Len(text) PROVE text[c + 4] \notin Word
      <4>1. Len(J[k]) + 1 = c + 4 /\ Len(J[k]) + 1 <= Len(text)
        BY <3>3, <3>5
      <4>2. k + 1 \in 1 .. Len(post) /\ text[c + 4] = pieces[k + 1][1]
        BY <1>6, <2>0, <4>1
      <4>3. post[k + 1] \notin Word
        <5>1. k < Len(post)
          BY <1>1, <4>2
        <5>2. QED
          BY <2>2, <5>1 DEF Tagged
      <4>4. pieces[k + 1] = IF post[k + 1] = "fence" THEN Backticks ELSE <<post[k + 1]>>
        BY <1>1, <4>2
      <4>5. pieces[k + 1][1] \in Word <=> post[k + 1] \in Word
        BY ONLY <4>4, UnescapedHead
      <4>6. QED
        BY <4>2, <4>3, <4>5
    <3>6. /\ c + 1 \in 1 .. Len(text) /\ (c + 1) + 1 = c + 2 /\ (c + 1) + 2 = c + 3
          /\ (c + 1) + 3 = c + 4
      BY <1>4, <3>3
    <3>7. end[c + 1] = c + 3
      <4>1. /\ (c + 1) + 2 <= Len(text)
            /\ text[c + 1] = "tick" /\ text[(c + 1) + 1] = "tick"
            /\ text[(c + 1) + 2] = "tick"
            /\ (c + 1) + 3 <= Len(text) => text[(c + 1) + 3] \notin Word
        BY <3>3, <3>4, <3>5, <3>6
      <4>2. QED
        BY <1>4, <3>6, <4>1, BareAt
    <3>8. QED
      BY <1>7, <3>1, <3>2, <3>6, <3>7 DEF Hit
  <2>3. QED
    BY <2>1, <2>2
<1>10. Replaces(end, put, pieces, J, images)
  BY <1>1, <1>2, <1>8, <1>9, <1>t DEF Replaces
<1>11. Replace(FlattenSeq(pieces), end, put) = FlattenSeq(images)
  BY ONLY <1>10, Pass
<1>12. QED
  BY <1>11 DEF regex_replace, text, put, pieces, images, with

\* The passes of a solution, one after the other.
LEMMA Solved ==
  ASSUME NEW post \in Seq(Token), Written(post), Slug \in Seq(Token)
  PROVE  removeNewLines(FlattenSeq([i \in DOMAIN post |-> Typed(post[i])]), Slug)
           = FlattenSeq([k \in DOMAIN post |-> Shown(post, k)])
<1> DEFINE lines == Unescape(FlattenSeq([i \in DOMAIN post |-> Typed(post[i])]),
                             "n", "newline")
           returns == Unescape(lines, "r", "return")
           out == Unescape(returns, "t", "tab")
<1>1. out = FlattenSeq(Unescaped(post))
  BY EscapePasses
<1>2. removeNewLines(FlattenSeq([i \in DOMAIN post |-> Typed(post[i])]), Slug)
        = regex_replace(out, Bare(out), Backticks \o Slug)
  BY DEF removeNewLines
<1> HIDE DEF lines, returns, out
<1>3. regex_replace(out, Bare(out), Backticks \o Slug) = FlattenSeq(Displayed(post))
  BY <1>1, FencePass
<1>4. QED
  BY <1>2, <1>3, Zenon DEF Displayed

-----------------------------------------------------------------------------
(* A line of the credentials file. *)

LEMMA OfIs ==
  ASSUME NEW key \in Seq(Token), NEW line \in Seq(Token)
  PROVE  Of(key, line) <=>
           /\ Len(key) + 1 <= Len(line) /\ line[Len(key) + 1] = "="
           /\ \A i \in 1 .. Len(key) : line[i] = key[i] /\ key[i] # "="
<1> DEFINE l == Len(key)
           n == Len(line)
           head == key \o <<"=">>
<1>1. l \in Nat /\ n \in Nat
  BY LenProperties
<1>2. /\ head \in Seq(Token) /\ Len(head) = l + 1
      /\ \A i \in 1 .. l : head[i] = key[i]
      /\ head[l + 1] = "="
  <2>1. "=" \in Token
    BY DEF Token
  <2>2. <<"=">> \in Seq(Token) /\ Len(<<"=">>) = 1 /\ <<"=">>[1] = "="
    BY <2>1, Short
  <2>3. /\ head \in Seq(Token) /\ Len(head) = Len(key) + Len(<<"=">>)
        /\ \A i \in 1 .. Len(key) : head[i] = key[i]
        /\ \A i \in 1 .. Len(<<"=">>) : head[Len(key) + i] = <<"=">>[i]
    BY ONLY <2>2, ConcatFacts, key \in Seq(Token)
  <2>4. 1 \in 1 .. 1
    OBVIOUS
  <2>5. QED
    BY ONLY <2>2, <2>3, <2>4
<1> HIDE DEF head
<1>3. SubSeq(head, 1, Len(head)) = head
  BY <1>2, SubSeqFull
<1>4. ASSUME l + 1 <= n
      PROVE  head = SubSeq(line, 1, l + 1) <=>
               line[l + 1] = "=" /\ \A i \in 1 .. l : line[i] = key[i]
  <2> DEFINE first == SubSeq(line, 1, l + 1)
  <2>1. \A i \in 1 .. l + 1 : line[i] \in Token
    <3>1. \A i \in 1 .. l + 1 : i \in 1 .. n
      BY <1>1, <1>4
    <3>2. QED
      BY <3>1, ElementOfSeq
  <2>2. /\ first \in Seq(Token) /\ Len(first) = l + 1
        /\ \A i \in 1 .. l + 1 : first[i] = line[i]
    <3>1. 1 \in Int /\ l + 1 \in Int /\ 1 <= l + 1 /\ (l + 1) - 1 + 1 = l + 1
      BY <1>1
    <3>2. /\ first \in Seq(Token)
          /\ Len(first) = IF 1 <= l + 1 THEN (l + 1) - 1 + 1 ELSE 0
          /\ \A i \in 1 .. (l + 1) - 1 + 1 : first[i] = line[1 + i - 1]
      BY <2>1, <3>1, SubSeqProperties
    <3>3. \A i \in 1 .. l + 1 : 1 + i - 1 = i
      BY <1>1
    <3>4. QED
      BY <3>1, <3>2, <3>3
  <2> HIDE DEF first
  <2>3. /\ l + 1 \in 1 .. l + 1 /\ \A i \in 1 .. l : i \in 1 .. l + 1
        /\ \A i \in 1 .. l + 1 : i = l + 1 \/ i \in 1 .. l
    BY <1>1
  <2>4. ASSUME head = first
        PROVE  line[l + 1] = "=" /\ \A i \in 1 .. l : line[i] = key[i]
    BY ONLY <1>2, <2>2, <2>3, <2>4
  <2>5. ASSUME line[l + 1] = "=", \A i \in 1 .. l : line[i] = key[i]
        PROVE  head = first
    <3>1. \A i \in 1 .. Len(head) : head[i] = first[i]
      BY ONLY <1>2, <2>2, <2>3, <2>5
    <3>2. QED
      BY ONLY <1>2, <2>2, <3>1, SeqEqual
  <2>6. QED
    BY <2>4, <2>5 DEF first
<1>5. IsPrefix(head, line) <=> l + 1 <= n /\ head = SubSeq(line, 1, l + 1)
  BY <1>2, <1>3, Zenon DEF IsPrefix
<1>6. Contains(key, "=") <=> \E i \in 1 .. l : key[i] = "="
  BY Zenon DEF Contains
<1>7. QED
  BY <1>4, <1>5, <1>6, Zenon DEF Of, head

\* A line with an equals sign gives one key a value.
LEMMA SplitOf ==
  ASSUME NEW line \in Seq(Token), Find(line, "=", 1) # 0
  PROVE  LET key == Split(line)[1]
             value == Split(line)[2]
         IN /\ key \in Seq(Token) /\ value \in Seq(Token)
            /\ line = key \o <<"=">> \o value
            /\ Of(key, line)
            /\ \A other \in Seq(Token) : Of(other, line) => other = key
<1> DEFINE p == Find(line, "=", 1)
           n == Len(line)
           key == SubSeq(line, 1, p - 1)
           value == SubSeq(line, p + 1, n)
<1>1. n \in Nat /\ 1 \in Nat \ {0}
  BY LenProperties
<1>2. p \in 1 .. n /\ line[p] = "=" /\ \A j \in 1 .. p - 1 : line[j] # "="
  BY <1>1, FindSome, FindNone
<1>3. Split(line)[1] = key /\ Split(line)[2] = value
  BY DEF Split
<1> HIDE DEF p
<1>4. \A i \in 1 .. n : line[i] \in Token
  BY ElementOfSeq
<1>5. /\ key \in Seq(Token) /\ Len(key) = p - 1
      /\ \A i \in 1 .. p - 1 : key[i] = line[i]
  <2>1. /\ 1 \in Int /\ p - 1 \in Int /\ (p - 1) - 1 + 1 = p - 1
        /\ (IF 1 <= p - 1 THEN (p - 1) - 1 + 1 ELSE 0) = p - 1
        /\ \A i \in 1 .. p - 1 : i \in 1 .. n /\ 1 + i - 1 = i
    BY <1>1, <1>2
  <2>2. \A i \in 1 .. p - 1 : line[i] \in Token
    BY <1>4, <2>1
  <2>3. /\ key \in Seq(Token)
        /\ Len(key) = IF 1 <= p - 1 THEN (p - 1) - 1 + 1 ELSE 0
        /\ \A i \in 1 .. (p - 1) - 1 + 1 : key[i] = line[1 + i - 1]
    BY <2>1, <2>2, SubSeqProperties
  <2> HIDE DEF key
  <2>4. QED
    BY ONLY <2>1, <2>3
<1>6. /\ value \in Seq(Token) /\ Len(value) = n - p
      /\ \A i \in 1 .. n - p : value[i] = line[p + i]
  <2>1. /\ p + 1 \in Int /\ n \in Int /\ n - (p + 1) + 1 = n - p
        /\ (IF p + 1 <= n THEN n - (p + 1) + 1 ELSE 0) = n - p
        /\ \A i \in p + 1 .. n : i \in 1 .. n
        /\ \A i \in 1 .. n - p : (p + 1) + i - 1 = p + i
    BY <1>1, <1>2
  <2>2. \A i \in p + 1 .. n : line[i] \in Token
    BY <1>4, <2>1
  <2>3. /\ value \in Seq(Token)
        /\ Len(value) = IF p + 1 <= n THEN n - (p + 1) + 1 ELSE 0
        /\ \A i \in 1 .. n - (p + 1) + 1 : value[i] = line[(p + 1) + i - 1]
    BY <2>1, <2>2, SubSeqProperties
  <2> HIDE DEF value
  <2>4. QED
    BY ONLY <2>1, <2>3
<1> HIDE DEF key, value
<1>7. Of(key, line)
  <2>1. Len(key) + 1 = p
    BY <1>2, <1>5
  <2>2. /\ Len(key) + 1 <= Len(line) /\ line[Len(key) + 1] = "="
        /\ \A i \in 1 .. Len(key) : line[i] = key[i] /\ key[i] # "="
    BY <1>1, <1>2, <1>5, <2>1
  <2>3. QED
    BY <1>5, <2>2, OfIs
<1>8. ASSUME NEW other \in Seq(Token), Of(other, line) PROVE other = key
  <2>1. Len(other) \in Nat
    BY LenProperties
  <2>2. /\ Len(other) + 1 <= Len(line) /\ line[Len(other) + 1] = "="
        /\ \A i \in 1 .. Len(other) : line[i] = other[i] /\ other[i] # "="
    BY <1>8, OfIs
  <2>3. Len(other) + 1 \in 1 .. Len(line) /\ (Len(other) + 1) - 1 = Len(other)
    BY <1>1, <2>1, <2>2
  <2>4. Find(line, "=", 1) = Len(other) + 1
    BY <1>1, <2>2, <2>3, FindIs
  <2>5. Len(other) = p - 1
    BY <2>1, <2>4 DEF p
  <2>6. \A i \in 1 .. Len(other) : other[i] = key[i]
    BY <1>5, <2>2, <2>5
  <2>7. QED
    BY <1>5, <2>5, <2>6, SeqEqual
<1>9. line = key \o <<"=">> \o value
  <2> DEFINE mid == <<"=">>
             head == key \o mid
             whole == head \o value
  <2>1. mid \in Seq(Token) /\ Len(mid) = 1 /\ mid[1] = "="
    <3>1. "=" \in Token
      BY DEF Token
    <3>2. QED
      BY <3>1, Short
  <2> HIDE DEF mid
  <2>2. /\ head \in Seq(Token) /\ Len(head) = Len(key) + Len(mid)
        /\ \A i \in 1 .. Len(key) : head[i] = key[i]
        /\ \A i \in 1 .. Len(mid) : head[Len(key) + i] = mid[i]
    BY ONLY <1>5, <2>1, ConcatFacts
  <2> HIDE DEF head
  <2>3. /\ whole \in Seq(Token) /\ Len(whole) = Len(head) + Len(value)
        /\ \A i \in 1 .. Len(head) : whole[i] = head[i]
        /\ \A i \in 1 .. Len(value) : whole[Len(head) + i] = value[i]
    BY ONLY <1>6, <2>2, ConcatFacts
  <2> HIDE DEF whole
  <2>4. Len(head) = p /\ Len(whole) = n
    BY <1>1, <1>2, <1>5, <1>6, <2>1, <2>2, <2>3
  <2>5. ASSUME NEW i \in 1 .. n PROVE line[i] = whole[i]
    <3>1. CASE i <= p - 1
      <4>1. i \in 1 .. p - 1 /\ i \in 1 .. p
        BY <1>1, <1>2, <3>1
      <4>2. QED
        BY ONLY <1>5, <2>2, <2>3, <2>4, <4>1
    <3>2. CASE i = p
      <4>1. 1 \in 1 .. 1 /\ (p - 1) + 1 = p /\ p \in 1 .. p
        BY <1>1, <1>2
      <4>2. head[p] = "="
        BY ONLY <1>5, <2>1, <2>2, <4>1
      <4>3. QED
        BY ONLY <1>2, <2>3, <2>4, <3>2, <4>1, <4>2
    <3>3. CASE i > p
      <4>1. i - p \in 1 .. n - p /\ p + (i - p) = i
        BY <1>1, <1>2, <3>3
      <4>2. QED
        BY ONLY <1>6, <2>3, <2>4, <4>1
    <3>4. QED
      BY <1>1, <1>2, <3>1, <3>2, <3>3
  <2>6. line = whole
    BY <2>3, <2>4, <2>5, SeqEqual
  <2>7. QED
    BY <2>6, Zenon DEF whole, head, mid
<1>10. QED
  BY <1>3, <1>5, <1>6, <1>7, <1>8, <1>9, Zenon

LEMMA NoSplit ==
  ASSUME NEW line \in Seq(Token), Find(line, "=", 1) = 0
  PROVE  /\ ~ Contains(line, "=")
         /\ \A key \in Seq(Token) : ~ Of(key, line)
<1>1. Len(line) \in Nat /\ 1 \in Nat \ {0}
  BY LenProperties
<1>2. \A i \in 1 .. Len(line) : line[i] # "="
  BY <1>1, FindSome
<1>3. ASSUME NEW key \in Seq(Token), Of(key, line) PROVE FALSE
  <2>1. Len(key) \in Nat /\ Len(key) + 1 <= Len(line) /\ line[Len(key) + 1] = "="
    BY <1>3, OfIs, LenProperties
  <2>2. Len(key) + 1 \in 1 .. Len(line)
    BY <1>1, <2>1
  <2>3. QED
    BY <1>2, <2>1, <2>2
<1>4. QED
  BY <1>2, <1>3 DEF Contains

-----------------------------------------------------------------------------
(* The map, line after line. *)

IsConfig(config, file) ==
  config = [i \in 0 .. Len(file) |->
              IF i = 0 THEN <<>> ELSE After(config[i - 1], file[i])]

LEMMA ConfigExists ==
  ASSUME NEW file, Len(file) \in Nat
  PROVE  \E config : IsConfig(config, file)
<1> DEFINE n == Len(file)
           Value(c, k) == IF k = 0 THEN <<>> ELSE After(c[k - 1], file[k])
           Works(c, m) == c = [k \in 0 .. m |-> Value(c, k)]
           S == {m \in Nat : \E c : Works(c, m)}
<1>1. \A c : Value(c, 0) = <<>>
  OBVIOUS
<1>2. ASSUME NEW c, NEW d, NEW k \in Nat \ {0}, c[k - 1] = d[k - 1]
      PROVE  Value(c, k) = Value(d, k)
  BY <1>2
<1> HIDE DEF n, Value
<1>3. 0 \in S
  <2> DEFINE c == [k \in 0 .. 0 |-> <<>>]
  <2>1. 0 .. 0 = {0}
    OBVIOUS
  <2>2. Works(c, 0)
    BY <1>1, <2>1
  <2> HIDE DEF Works, c
  <2>3. QED
    BY <2>2
<1>4. ASSUME NEW m \in Nat, m \in S PROVE m + 1 \in S
  <2>1. PICK c : Works(c, m)
    BY <1>4
  <2> DEFINE d == [k \in 0 .. m + 1 |-> IF k = m + 1 THEN Value(c, m + 1) ELSE c[k]]
  <2>2. \A k \in 0 .. m : d[k] = c[k] /\ c[k] = Value(c, k)
    <3>1. \A k \in 0 .. m : c[k] = Value(c, k)
      BY <2>1
    <3>2. \A k \in 0 .. m : k \in 0 .. m + 1 /\ k # m + 1
      OBVIOUS
    <3>3. QED
      BY <3>1, <3>2
  <2>3. d[m + 1] = Value(c, m + 1)
    <3>1. m + 1 \in 0 .. m + 1
      OBVIOUS
    <3>2. QED
      BY <3>1, Zenon
  <2> HIDE DEF Works
  <2>4. ASSUME NEW k \in 0 .. m + 1 PROVE d[k] = Value(d, k)
    <3> HIDE DEF d
    <3>1. CASE k = 0
      <4>1. 0 \in 0 .. m
        OBVIOUS
      <4>2. QED
        BY ONLY <1>1, <2>2, <3>1, <4>1
    <3>2. CASE k \in 1 .. m
      <4>1. k \in Nat \ {0} /\ k \in 0 .. m /\ k - 1 \in 0 .. m
        BY <3>2
      <4>2. Value(c, k) = Value(d, k)
        BY <1>2, <2>2, <4>1
      <4>3. QED
        BY <2>2, <4>1, <4>2
    <3>3. CASE k = m + 1
      <4>1. m + 1 \in Nat \ {0} /\ (m + 1) - 1 \in 0 .. m
        OBVIOUS
      <4>2. Value(c, m + 1) = Value(d, m + 1)
        BY <1>2, <2>2, <4>1
      <4>3. QED
        BY <2>3, <3>3, <4>2
    <3>4. QED
      BY <3>1, <3>2, <3>3
  <2>5. Works(d, m + 1)
    BY <2>4 DEF Works
  <2>6. QED
    BY <2>5
<1>5. n \in S
  <2> HIDE DEF S
  <2>1. n \in Nat
    BY DEF n
  <2>2. QED
    BY <1>3, <1>4, <2>1, Induction
<1>6. \E c : Works(c, n)
  <2> HIDE DEF Works
  <2>1. QED
    BY <1>5
<1>7. QED
  BY <1>6 DEF n, Value, IsConfig

\* What the first k lines say, and no more.
Says(config, file, k) ==
  /\ \A key \in DOMAIN config : key \in Seq(Token) /\ \E i \in 1 .. k :
       /\ Of(key, file[i])
       /\ file[i] = key \o <<"=">> \o config[key]
       /\ \A j \in i + 1 .. k : ~ Of(key, file[j])
  /\ \A i \in 1 .. k : Contains(file[i], "=") =>
       \E key \in DOMAIN config : Of(key, file[i])

\* A line more.
LEMMA SaysMore ==
  ASSUME NEW file \in Seq(Seq(Token)), NEW k \in Nat, k + 1 <= Len(file),
         NEW config, Says(config, file, k)
  PROVE  Says(After(config, file[k + 1]), file, k + 1)
<1> DEFINE line == file[k + 1]
           new == After(config, line)
<1>1. line \in Seq(Token)
  <2>1. k + 1 \in 1 .. Len(file)
    BY LenProperties
  <2>2. QED
    BY <2>1, ElementOfSeq
<1>2. /\ \A key \in DOMAIN config : key \in Seq(Token) /\ \E i \in 1 .. k :
           /\ Of(key, file[i])
           /\ file[i] = key \o <<"=">> \o config[key]
           /\ \A j \in i + 1 .. k : ~ Of(key, file[j])
      /\ \A i \in 1 .. k : Contains(file[i], "=") =>
           \E key \in DOMAIN config : Of(key, file[i])
  BY Zenon DEF Says
<1>3. /\ \A i \in 1 .. k + 1 : i \in 1 .. k \/ i = k + 1
      /\ \A i \in 1 .. k : i \in 1 .. k + 1
      /\ k + 1 \in 1 .. k + 1
      /\ \A i \in 1 .. k : \A j \in i + 1 .. k + 1 : j \in i + 1 .. k \/ j = k + 1
      /\ \A j \in (k + 1) + 1 .. k + 1 : FALSE
  OBVIOUS
<1> HIDE DEF new
<1>4. CASE Find(line, "=", 1) = 0
  <2>1. new = config
    BY <1>4 DEF After, new
  <2>2. ~ Contains(line, "=") /\ \A key \in Seq(Token) : ~ Of(key, line)
    BY <1>1, <1>4, NoSplit
  <2>3. ASSUME NEW key \in DOMAIN config
        PROVE  key \in Seq(Token) /\ \E i \in 1 .. k + 1 :
                 /\ Of(key, file[i])
                 /\ file[i] = key \o <<"=">> \o config[key]
                 /\ \A j \in i + 1 .. k + 1 : ~ Of(key, file[j])
    <3>1. PICK i \in 1 .. k : /\ Of(key, file[i])
                              /\ file[i] = key \o <<"=">> \o config[key]
                              /\ \A j \in i + 1 .. k : ~ Of(key, file[j])
      BY <1>2, Zenon
    <3>2. key \in Seq(Token)
      BY <1>2, Zenon
    <3>3. \A j \in i + 1 .. k + 1 : ~ Of(key, file[j])
      BY <1>3, <2>2, <3>1, <3>2, Zenon
    <3>4. QED
      BY <1>3, <3>1, <3>2, <3>3, Zenon
  <2>4. \A i \in 1 .. k + 1 : Contains(file[i], "=") =>
          \E key \in DOMAIN config : Of(key, file[i])
    BY <1>2, <1>3, <2>2, Zenon
  <2>5. Says(config, file, k + 1)
    BY <2>3, <2>4, Zenon DEF Says
  <2>6. QED
    BY <2>1, <2>5, Zenon DEF new
<1>5. CASE Find(line, "=", 1) # 0
  <2> DEFINE this == Split(line)[1]
             value == Split(line)[2]
  <2>1. /\ this \in Seq(Token) /\ Of(this, line)
        /\ line = this \o <<"=">> \o value
        /\ \A other \in Seq(Token) : Of(other, line) => other = this
    BY <1>1, <1>5, SplitOf
  <2>2. new = Assign(config, this, value)
    BY <1>5 DEF After, new
  <2> HIDE DEF this, value
  <2>3. /\ DOMAIN new = DOMAIN config \cup {this} /\ new[this] = value
        /\ \A key \in DOMAIN config : key # this => new[key] = config[key]
    BY ONLY <2>2 DEF Assign
  <2>4. ASSUME NEW key \in DOMAIN new
        PROVE  key \in Seq(Token) /\ \E i \in 1 .. k + 1 :
                 /\ Of(key, file[i])
                 /\ file[i] = key \o <<"=">> \o new[key]
                 /\ \A j \in i + 1 .. k + 1 : ~ Of(key, file[j])
    <3>1. CASE key = this
      <4>1. /\ Of(key, file[k + 1]) /\ file[k + 1] = key \o <<"=">> \o new[key]
            /\ key \in Seq(Token)
        BY <2>1, <2>3, <3>1, Zenon
      <4>2. QED
        BY <1>3, <4>1, Zenon
    <3>2. CASE key # this
      <4>0. key \in DOMAIN config /\ new[key] = config[key]
        BY <2>3, <3>2
      <4>1. PICK i \in 1 .. k : /\ Of(key, file[i])
                                /\ file[i] = key \o <<"=">> \o config[key]
                                /\ \A j \in i + 1 .. k : ~ Of(key, file[j])
        BY <1>2, <4>0, Zenon
      <4>2. key \in Seq(Token)
        BY <1>2, <4>0, Zenon
      <4>3. \A j \in i + 1 .. k + 1 : ~ Of(key, file[j])
        BY <1>3, <2>1, <3>2, <4>1, <4>2, Zenon
      <4>4. file[i] = key \o <<"=">> \o new[key]
        BY <4>0, <4>1, Zenon
      <4>5. QED
        BY <1>3, <4>1, <4>2, <4>3, <4>4, Zenon
    <3>3. QED
      BY <3>1, <3>2, Zenon
  <2>5. ASSUME NEW i \in 1 .. k + 1, Contains(file[i], "=")
        PROVE  \E key \in DOMAIN new : Of(key, file[i])
    <3>1. CASE i \in 1 .. k
      BY <1>2, <2>3, <2>5, <3>1
    <3>2. CASE i = k + 1
      BY <2>1, <2>3, <3>2
    <3>3. QED
      BY <1>3, <3>1, <3>2, Zenon
  <2>6. Says(new, file, k + 1)
    BY <2>4, <2>5, Zenon DEF Says
  <2>7. QED
    BY <2>6 DEF new
<1>6. QED
  BY <1>4, <1>5

LEMMA Credentials ==
  ASSUME NEW file \in Seq(Seq(Token))
  PROVE  Says(readAuthFile(file), file, Len(file))
<1> DEFINE n == Len(file)
           config == CHOOSE c : IsConfig(c, file)
           S == {k \in Nat : k <= n => Says(config[k], file, k)}
<1>1. n \in Nat
  BY LenProperties
<1>2. readAuthFile(file) = config[n]
  BY DEF readAuthFile, IsConfig
<1>3. IsConfig(config, file)
  BY <1>1, ConfigExists
<1> HIDE DEF n, config
<1>4. config = [i \in 0 .. n |-> IF i = 0 THEN <<>> ELSE After(config[i - 1], file[i])]
  BY <1>3 DEF IsConfig, n
<1>5. 0 \in S
  <2>1. 0 \in 0 .. n
    BY <1>1
  <2>2. config[0] = <<>>
    BY <1>4, <2>1
  <2>3. /\ DOMAIN config[0] = {} /\ 1 .. 0 = {}
    BY <2>2
  <2>4. Says(config[0], file, 0)
    BY <2>3, Zenon DEF Says
  <2>5. QED
    BY <2>4
<1>6. ASSUME NEW k \in Nat, k \in S PROVE k + 1 \in S
  <2> SUFFICES ASSUME k + 1 <= n PROVE Says(config[k + 1], file, k + 1)
    OBVIOUS
  <2>1. k + 1 \in 0 .. n /\ k + 1 # 0 /\ (k + 1) - 1 = k /\ k <= n
    BY <1>1
  <2>2. config[k + 1] = After(config[k], file[k + 1])
    <3>1. config[k + 1] = IF k + 1 = 0 THEN <<>> ELSE After(config[(k + 1) - 1], file[k + 1])
      BY <1>4, <2>1, Zenon
    <3>2. QED
      BY <2>1, <3>1
  <2>3. Says(config[k], file, k)
    BY <1>6, <2>1
  <2>4. k + 1 <= Len(file)
    BY DEF n
  <2>5. Says(After(config[k], file[k + 1]), file, k + 1)
    BY ONLY <2>3, <2>4, SaysMore, k \in Nat, file \in Seq(Seq(Token))
  <2>6. QED
    BY <2>2, <2>5
<1>7. n \in S
  <2> HIDE DEF S
  <2>1. QED
    BY <1>1, <1>5, <1>6, Induction
<1>8. Says(config[n], file, n)
  BY <1>1, <1>7
<1>9. QED
  BY <1>2, <1>8 DEF n

-----------------------------------------------------------------------------
(* The theorems. *)

LEMMA Constants ==
  /\ \A page \in Pages : page \in Seq(Token)
  /\ \A post \in Posts : post \in Seq(Token) /\ Written(post)
  /\ \A file \in Files : file \in Seq(Seq(Token))
  /\ Slug \in Seq(Token)
<1>1. /\ \A page \in Pages : page \in Seq(STRING)
      /\ \A post \in Posts : post \in Seq(STRING) /\ Written(post)
      /\ \A file \in Files : file \in Seq(Seq(STRING))
      /\ Slug \in Seq(STRING)
  BY TextAssumption, Zenon
<1>2. Seq(STRING) \subseteq Seq(Token)
  BY AsTokens
<1>3. Seq(Seq(STRING)) \subseteq Seq(Seq(Token))
  BY <1>2, SeqMonotonic
<1>4. QED
  BY <1>1, <1>2, <1>3

TextInv ==
  /\ read \in BOOLEAN
  /\ \/ kind = "description" /\ input \in Pages
     \/ kind = "solution" /\ input \in Posts
     \/ kind = "credentials" /\ input \in Files
  /\ ShowsTheProblem /\ ShowsTheSolution /\ KeepsTheCredentials

LEMMA TextInductive == Spec => []TextInv
<1>1. Init => TextInv
  BY Zenon DEF Init, TextInv, ShowsTheProblem, ShowsTheSolution, KeepsTheCredentials
<1>2. TextInv /\ [Next]_vars => TextInv'
  <2> SUFFICES ASSUME TextInv, [Next]_vars PROVE TextInv'
    OBVIOUS
  <2>1. CASE Describe
    <3>1. /\ kind' = "description" /\ input' = input /\ input \in Pages /\ read' = TRUE
          /\ output' = htmlDecoder(htmlToMarkdown(
                         FlattenSeq([i \in DOMAIN input |-> Html(input[i])])))
      BY <2>1 DEF Describe, TextInv
    <3>2. output' = FlattenSeq([i \in DOMAIN input |-> Markdown(input[i])])
      BY <3>1, Constants, Described, Zenon
    <3>3. ShowsTheProblem'
      BY <3>1, <3>2, Zenon DEF ShowsTheProblem
    <3>4. ShowsTheSolution' /\ KeepsTheCredentials'
      BY <3>1 DEF ShowsTheSolution, KeepsTheCredentials
    <3>5. QED
      BY <3>1, <3>3, <3>4 DEF TextInv
  <2>2. CASE Show
    <3>1. /\ kind' = "solution" /\ input' = input /\ input \in Posts /\ read' = TRUE
          /\ output' = removeNewLines(
                         FlattenSeq([i \in DOMAIN input |-> Typed(input[i])]), Slug)
      BY <2>2 DEF Show, TextInv
    <3>2. output' = FlattenSeq([k \in DOMAIN input |-> Shown(input, k)])
      BY <3>1, Constants, Solved, Zenon
    <3>3. ShowsTheSolution'
      BY <3>1, <3>2, Zenon DEF ShowsTheSolution
    <3>4. ShowsTheProblem' /\ KeepsTheCredentials'
      BY <3>1 DEF ShowsTheProblem, KeepsTheCredentials
    <3>5. QED
      BY <3>1, <3>3, <3>4 DEF TextInv
  <2>3. CASE Read
    <3>1. /\ kind' = "credentials" /\ input' = input /\ input \in Files /\ read' = TRUE
          /\ output' = readAuthFile(input)
      BY <2>3 DEF Read, TextInv
    <3>2. input \in Seq(Seq(Token)) /\ DOMAIN input = 1 .. Len(input)
      BY <3>1, Constants, LenProperties
    <3>3. Says(output', input, Len(input))
      BY <3>1, <3>2, Credentials, Zenon
    <3>4. KeepsTheCredentials'
      BY <3>1, <3>2, <3>3, Zenon DEF KeepsTheCredentials, Says
    <3>5. ShowsTheProblem' /\ ShowsTheSolution'
      BY <3>1 DEF ShowsTheProblem, ShowsTheSolution
    <3>6. QED
      BY <3>1, <3>4, <3>5 DEF TextInv
  <2>4. CASE UNCHANGED vars
    BY <2>4 DEF vars, TextInv, ShowsTheProblem, ShowsTheSolution, KeepsTheCredentials
  <2>5. QED
    BY <2>1, <2>2, <2>3, <2>4 DEF Next
<1>3. QED
  BY <1>1, <1>2, PTL DEF Spec

\* However long the problem: the description made of its HTML, written with tags
\* without attributes, images and six entities, shows its characters and no tag.
THEOREM ProblemShown == Spec => []ShowsTheProblem
<1>1. TextInv => ShowsTheProblem
  BY DEF TextInv
<1>2. QED
  BY <1>1, TextInductive, PTL

\* However long the solution: a backslash before an n, an r or a t becomes a control
\* character (removeNewLines asks no more, so in \times too), a fence gets the
\* language unless a word follows it then, and nothing else changes.
THEOREM SolutionShown == Spec => []ShowsTheSolution
<1>1. TextInv => ShowsTheSolution
  BY DEF TextInv
<1>2. QED
  BY <1>1, TextInductive, PTL

\* However many lines the file has: the last one that names a key counts, and
\* its value is all that follows the first equals sign.
THEOREM CredentialsKept == Spec => []KeepsTheCredentials
<1>1. TextInv => KeepsTheCredentials
  BY DEF TextInv
<1>2. QED
  BY <1>1, TextInductive, PTL
=============================================================================
