------------------------------- MODULE Lists --------------------------------
(***************************************************************************)
(* Facts about naturals, lists and finite sets that several proofs need.   *)
(* Induction is stated about a set, of naturals or of subsets, instead of  *)
(* a predicate; with it, what FlattenSeq returns (by induction on the      *)
(* length of the list), and that a fold over a finite set is a function    *)
(* with the values it should have (by induction on the subsets).           *)
(***************************************************************************)
EXTENDS Integers, Sequences, SequencesExt, SequenceTheorems,
        FiniteSets, FiniteSetsExt, FiniteSetTheorems, WellFoundedInduction, TLAPS

(* A non-empty set of naturals has a least element.                        *)
LEMMA LeastElement ==
  ASSUME NEW S, S \subseteq Nat, S # {}
  PROVE  \E n \in S : \A m \in S : n <= m
<1> DEFINE R == OpToRel(<, Nat)
<1>1. IsWellFoundedOn(R, Nat)
  BY NatLessThanWellFounded
<1>2. \A x, y \in Nat : x < y => <<x, y>> \in R
  BY DEF OpToRel
<1> HIDE DEF R
<1>3. \E x \in S : \A y \in S : ~(<<y, x>> \in R)
  BY <1>1, WFMin, Zenon
<1>4. PICK x \in S : \A y \in S : ~(<<y, x>> \in R)
  BY <1>3
<1>5. ASSUME NEW y \in S PROVE x <= y
  <2>1. x \in Nat /\ y \in Nat /\ ~(<<y, x>> \in R)
    BY <1>4
  <2>2. ~(y < x)
    BY <1>2, <2>1
  <2>3. QED
    BY <2>1, <2>2
<1>6. QED
  BY <1>5

(* Induction, over the members of a set.                                   *)
LEMMA SetInduction ==
  ASSUME NEW S, 0 \in S, \A n \in Nat : n \in S => n + 1 \in S
  PROVE  Nat \subseteq S
<1>1. SUFFICES ASSUME Nat \ S # {} PROVE FALSE
  OBVIOUS
<1>2. PICK n \in Nat \ S : \A m \in Nat \ S : n <= m
  BY <1>1, LeastElement
<1>3. n - 1 \in Nat /\ n - 1 \notin Nat \ S
  BY <1>2
<1>4. QED
  BY <1>2, <1>3

(* f flattens the first n of a list of lists.                              *)
Flattens(f, list, n) ==
  f = [i \in 1..n |-> IF i = 1 THEN list[i] ELSE f[i - 1] \o list[i]]

(* There is one for every list.                                            *)
LEMMA FlattensExists ==
  ASSUME NEW list, NEW n \in Nat
  PROVE  \E f : Flattens(f, list, n)
<1> DEFINE T == {k \in Nat : \E f : Flattens(f, list, k)}
<1>1. 0 \in T
  <2> DEFINE e == [i \in 1..0 |-> list[i]]
  <2>1. Flattens(e, list, 0)
    BY DEF Flattens
  <2>2. QED
    BY <2>1
<1>2. ASSUME NEW k \in Nat, k \in T PROVE k + 1 \in T
  <2>1. PICK f : Flattens(f, list, k)
    BY <1>2
  <2> DEFINE g == [i \in 1..(k + 1) |-> IF i = k + 1
                                        THEN IF i = 1 THEN list[i] ELSE f[k] \o list[i]
                                        ELSE f[i]]
  <2>2. Flattens(g, list, k + 1)
    <3>1. ASSUME NEW i \in 1..(k + 1)
          PROVE  g[i] = IF i = 1 THEN list[i] ELSE g[i - 1] \o list[i]
      <4>1. CASE i = k + 1
        <5>1. i # 1 => i - 1 \in 1..(k + 1) /\ i - 1 # k + 1 /\ i - 1 = k
          BY <4>1
        <5>2. i # 1 => g[i - 1] = f[k]
          BY <5>1
        <5>3. QED
          BY <4>1, <5>2
      <4>2. CASE i # k + 1
        <5>1. i \in 1..k
          BY <4>2
        <5>2. f[i] = IF i = 1 THEN list[i] ELSE f[i - 1] \o list[i]
          BY <2>1, <5>1 DEF Flattens
        <5>3. i # 1 => i - 1 \in 1..(k + 1) /\ i - 1 # k + 1
          BY <5>1
        <5>4. i # 1 => g[i - 1] = f[i - 1]
          BY <5>3
        <5>5. g[i] = f[i]
          BY <4>2
        <5>6. QED
          BY <5>2, <5>4, <5>5
      <4>3. QED
        BY <4>1, <4>2
    <3> HIDE DEF g
    <3>2. [i \in 1..(k + 1) |-> g[i]] = [i \in 1..(k + 1) |->
             IF i = 1 THEN list[i] ELSE g[i - 1] \o list[i]]
      BY <3>1
    <3>3. g = [i \in 1..(k + 1) |-> g[i]]
      BY DEF g
    <3>4. QED
      BY <3>2, <3>3 DEF Flattens
  <2>3. QED
    BY <2>2
<1>3. Nat \subseteq T
  <2> HIDE DEF T
  <2>1. QED
    BY <1>1, <1>2, SetInduction
<1>4. QED
  BY <1>3

(* What it has at one position follows from the one before.                *)
Follows(f, list, i) ==
  /\ i = 0 => f[i + 1] = list[i + 1]
  /\ i # 0 => f[i + 1] = f[i] \o list[i + 1]

(* One step of a function that flattens the beginnings of a list.          *)
LEMMA FlattensNext ==
  ASSUME NEW f, NEW list, NEW n \in Nat, Flattens(f, list, n),
         NEW i \in Nat, i + 1 \in 1..n
  PROVE  Follows(f, list, i)
<1> DEFINE F(j) == IF j = 1 THEN list[j] ELSE f[j - 1] \o list[j]
<1>1. f = [j \in 1..n |-> F(j)]
  BY DEF Flattens
<1> HIDE DEF F
<1>2. f[i + 1] = F(i + 1)
  BY <1>1
<1>3. i = 0 => F(i + 1) = list[i + 1]
  BY DEF F
<1>4. i # 0 => F(i + 1) = f[i] \o list[i + 1]
  <2>1. (i + 1) - 1 = i /\ (i # 0 => i + 1 # 1)
    OBVIOUS
  <2>2. i + 1 # 1 => F(i + 1) = f[(i + 1) - 1] \o list[i + 1]
    BY DEF F
  <2>3. QED
    BY <2>1, <2>2, Zenon
<1>5. QED
  BY <1>2, <1>3, <1>4, Zenon DEF Follows

(* Two lists agree up to a position.                                       *)
Agree(f, g, k) == \A i \in 1..k : f[i] = g[i]

(* Two that flatten lists agree as far as the lists do.                    *)
LEMMA FlattensAgree ==
  ASSUME NEW f, NEW g, NEW s, NEW t, NEW m \in Nat, NEW n \in Nat,
         Flattens(f, s, m), Flattens(g, t, n),
         NEW k \in Nat, k <= m, k <= n, Agree(s, t, k)
  PROVE  Agree(f, g, k)
<1> DEFINE T == {i \in Nat : i \in 1..k => f[i] = g[i]}
<1>1. 0 \in T
  OBVIOUS
<1>2. ASSUME NEW i \in Nat, i \in T PROVE i + 1 \in T
  <2>1. SUFFICES ASSUME i + 1 \in 1..k PROVE f[i + 1] = g[i + 1]
    OBVIOUS
  <2>2. i + 1 \in 1..m /\ i + 1 \in 1..n
    BY <2>1
  <2>3. Follows(f, s, i)
    BY <2>2, FlattensNext, Zenon
  <2>4. Follows(g, t, i)
    BY <2>2, FlattensNext, Zenon
  <2>5. i # 0 => f[i] = g[i]
    BY <1>2, <2>1
  <2>6. s[i + 1] = t[i + 1]
    BY <2>1 DEF Agree
  <2>7. QED
    BY <2>3, <2>4, <2>5, <2>6, Zenon DEF Follows
<1>3. Nat \subseteq T
  <2> HIDE DEF T
  <2>1. QED
    BY <1>1, <1>2, SetInduction
<1>4. QED
  BY <1>3 DEF Agree

(* FlattenSeq takes the last of what such a function has.                  *)
LEMMA FlattenIs ==
  ASSUME NEW list, Len(list) \in Nat \ {0}
  PROVE  \E f : Flattens(f, list, Len(list)) /\ FlattenSeq(list) = f[Len(list)]
<1> DEFINE n == Len(list)
           c == CHOOSE f : f = [i \in 1..n |-> IF i = 1 THEN list[i] ELSE f[i - 1] \o list[i]]
<1>1. \E f : Flattens(f, list, n)
  <2>1. n \in Nat
    OBVIOUS
  <2> HIDE DEF n
  <2>2. QED
    BY <2>1, FlattensExists, Zenon
<1>2. Flattens(c, list, n)
  <2> HIDE DEF n
  <2>2. QED
    BY <1>1, Zenon DEF Flattens
<1>3. FlattenSeq(list) = c[n]
  <2>1. Len(list) # 0
    OBVIOUS
  <2>2. QED
  BY <2>1, Zenon DEF FlattenSeq
<1>4. QED
  BY <1>2, <1>3

(* A list of lists is flattened from the front.                            *)
LEMMA FlattenAppend ==
  ASSUME NEW S, NEW list \in Seq(Seq(S)), NEW e \in Seq(S)
  PROVE  FlattenSeq(Append(list, e)) = FlattenSeq(list) \o e
<1> DEFINE l == Append(list, e)
           n == Len(list)
<1>1. /\ n \in Nat /\ Len(l) = n + 1 /\ l[n + 1] = e
      /\ \A i \in 1..n : list[i] = l[i]
  OBVIOUS
<1>2. PICK g : Flattens(g, l, n + 1) /\ FlattenSeq(l) = g[n + 1]
  <2>1. Len(l) \in Nat \ {0}
    BY <1>1
  <2>2. QED
    BY <1>1, <2>1, FlattenIs
<1>3. n = 0 => FlattenSeq(list) = <<>>
  BY DEF FlattenSeq
<1>4. n # 0 => \E f : Flattens(f, list, n) /\ FlattenSeq(list) = f[n]
  BY <1>1, FlattenIs
<1> HIDE DEF l, n
<1>5. /\ n = 0 => g[n + 1] = e
      /\ n # 0 => g[n + 1] = g[n] \o e
  <2>1. n + 1 \in Nat /\ n + 1 \in 1..(n + 1)
    BY <1>1
  <2>2. Follows(g, l, n)
    BY <1>1, <1>2, <2>1, FlattensNext, Zenon
  <2>3. QED
    BY <1>1, <2>2, Zenon DEF Follows
<1>6. CASE n = 0
  <2>1. <<>> \o e = e
    OBVIOUS
  <2>2. QED
    BY <1>2, <1>3, <1>5, <1>6, <2>1 DEF l
<1>7. CASE n # 0
  <2>1. PICK f : Flattens(f, list, n) /\ FlattenSeq(list) = f[n]
    BY <1>4, <1>7
  <2>2. Agree(list, l, n)
    BY <1>1 DEF Agree
  <2>3. n + 1 \in Nat /\ n <= n /\ n <= n + 1 /\ n \in 1..n
    BY <1>1, <1>7
  <2>4. Agree(f, g, n)
    BY <1>1, <1>2, <2>1, <2>2, <2>3, FlattensAgree
  <2>5. f[n] = g[n]
    BY <2>3, <2>4, Zenon DEF Agree
  <2>6. QED
    BY <1>2, <1>5, <1>7, <2>1, <2>5, Zenon DEF l
<1>8. QED
  BY <1>6, <1>7

(* Flattening lists over S gives lists over S.                             *)
LEMMA FlattensType ==
  ASSUME NEW S, NEW list, NEW f, NEW n \in Nat, Flattens(f, list, n),
         \A i \in 1..n : list[i] \in Seq(S)
  PROVE  \A i \in 1..n : f[i] \in Seq(S)
<1> DEFINE T == {i \in Nat : i \in 1..n => f[i] \in Seq(S)}
<1>1. 0 \in T
  OBVIOUS
<1>2. ASSUME NEW i \in Nat, i \in T PROVE i + 1 \in T
  <2>1. SUFFICES ASSUME i + 1 \in 1..n PROVE f[i + 1] \in Seq(S)
    OBVIOUS
  <2>2. Follows(f, list, i)
    BY <2>1, FlattensNext, Zenon
  <2>3. list[i + 1] \in Seq(S)
    BY <2>1
  <2>4. i # 0 => i \in 1..n
    BY <2>1
  <2>5. i # 0 => f[i] \in Seq(S)
    BY <1>2, <2>4
  <2>6. \A a, b \in Seq(S) : a \o b \in Seq(S)
    OBVIOUS
  <2>7. QED
    BY <2>2, <2>3, <2>5, <2>6, Zenon DEF Follows
<1>3. Nat \subseteq T
  <2> HIDE DEF T
  <2>1. QED
    BY <1>1, <1>2, SetInduction
<1>4. QED
  BY <1>3

(* A flattened list has the elements of the lists in it.                   *)
LEMMA FlattenType ==
  ASSUME NEW S, NEW list \in Seq(Seq(S))
  PROVE  FlattenSeq(list) \in Seq(S)
<1> DEFINE n == Len(list)
<1>1. n \in Nat /\ \A i \in 1..n : list[i] \in Seq(S)
  OBVIOUS
<1>2. CASE n = 0
  BY <1>2 DEF FlattenSeq
<1>3. CASE n # 0
  <2>1. PICK f : Flattens(f, list, n) /\ FlattenSeq(list) = f[n]
    BY <1>1, <1>3, FlattenIs
  <2> HIDE DEF n
  <2>2. \A i \in 1..n : f[i] \in Seq(S)
    BY <1>1, <2>1, FlattensType, Zenon
  <2>3. n \in 1..n
    BY <1>1, <1>3
  <2>4. QED
    BY <2>1, <2>2, <2>3
<1>4. QED
  BY <1>2, <1>3

(* A list of lists may also be flattened from the back.                    *)
LEMMA CatAssoc ==
  ASSUME NEW S, NEW a \in Seq(S), NEW b \in Seq(S), NEW c \in Seq(S)
  PROVE  (a \o b) \o c = a \o (b \o c)
OBVIOUS

(* What a list put in front adds.                                          *)
LEMMA FlattenCons ==
  ASSUME NEW S, NEW list \in Seq(Seq(S)), NEW e \in Seq(S)
  PROVE  FlattenSeq(<<e>> \o list) = e \o FlattenSeq(list)
<1> DEFINE l == <<e>> \o list
           n == Len(list)
<1>0. \A a, b, c \in Seq(S) : (a \o b) \o c = a \o (b \o c)
  <2> TAKE a, b, c \in Seq(S)
  <2>1. QED
    BY CatAssoc, SMTT(60)
<1>1. /\ n \in Nat /\ Len(l) = n + 1 /\ l[1] = e
      /\ \A i \in 1..n : l[i + 1] = list[i]
      /\ \A i \in 1..n : list[i] \in Seq(S)
  OBVIOUS
<1>2. PICK g : Flattens(g, l, n + 1) /\ FlattenSeq(l) = g[n + 1]
  <2>1. Len(l) \in Nat \ {0}
    BY <1>1
  <2>2. QED
    BY <1>1, <2>1, FlattenIs
<1>3. n = 0 => FlattenSeq(list) = <<>>
  BY DEF FlattenSeq
<1>4. n # 0 => \E f : Flattens(f, list, n) /\ FlattenSeq(list) = f[n]
  BY <1>1, FlattenIs
<1> HIDE DEF l, n
<1>5. n + 1 \in Nat /\ 0 \in Nat /\ 0 + 1 \in 1..(n + 1)
  BY <1>1
<1>6. g[1] = e
  <2>1. Follows(g, l, 0)
    BY <1>2, <1>5, FlattensNext, Zenon
  <2>2. 0 + 1 = 1
    OBVIOUS
  <2>3. QED
    BY <1>1, <2>1, <2>2, Zenon DEF Follows
<1>7. CASE n = 0
  <2>1. e \o <<>> = e
    OBVIOUS
  <2>2. g[n + 1] = e
    BY <1>6, <1>7
  <2>3. QED
    BY <1>2, <1>3, <1>7, <2>1, <2>2 DEF l
<1>8. CASE n # 0
  <2>1. PICK f : Flattens(f, list, n) /\ FlattenSeq(list) = f[n]
    BY <1>4, <1>8
  <2>2. \A i \in 1..n : f[i] \in Seq(S)
    BY <1>1, <2>1, FlattensType, Zenon
  <2> DEFINE T == {i \in Nat : i \in 1..n => g[i + 1] = e \o f[i]}
  <2>3. 0 \in T
    OBVIOUS
  <2>4. ASSUME NEW i \in Nat, i \in T PROVE i + 1 \in T
    <3>1. SUFFICES ASSUME i + 1 \in 1..n PROVE g[(i + 1) + 1] = e \o f[i + 1]
      OBVIOUS
    <3>2. /\ i + 1 \in Nat /\ i + 1 # 0 /\ (i + 1) + 1 \in 1..(n + 1)
          /\ l[(i + 1) + 1] = list[i + 1]
          /\ i # 0 => i \in 1..n
      BY <1>1, <3>1
    <3>3. g[(i + 1) + 1] = g[i + 1] \o list[i + 1]
      <4>1. Follows(g, l, i + 1)
        BY <1>2, <1>5, <3>2, FlattensNext, Zenon
      <4>2. QED
        BY <3>2, <4>1, Zenon DEF Follows
    <3>4. Follows(f, list, i)
      BY <1>1, <2>1, <3>1, FlattensNext, Zenon
    <3>5. CASE i = 0
      <4>1. g[i + 1] = e
        BY <1>6, <3>5
      <4>2. QED
        BY <3>3, <3>4, <3>5, <4>1, Zenon DEF Follows
    <3>6. CASE i # 0
      <4>1. g[i + 1] = e \o f[i] /\ f[i] \in Seq(S) /\ list[i + 1] \in Seq(S)
        BY <1>1, <2>2, <2>4, <3>1, <3>2, <3>6
      <4>2. (e \o f[i]) \o list[i + 1] = e \o (f[i] \o list[i + 1])
        BY <1>0, <4>1, Zenon
      <4>3. f[i + 1] = f[i] \o list[i + 1]
        BY <3>4, <3>6, Zenon DEF Follows
      <4>4. QED
        BY <3>3, <4>1, <4>2, <4>3, Zenon
    <3>7. QED
      BY <3>5, <3>6
  <2>5. Nat \subseteq T
    <3> HIDE DEF T
    <3>1. QED
      BY <2>3, <2>4, SetInduction
  <2>6. n \in T /\ n \in 1..n
    <3> HIDE DEF T
    <3>1. n \in Nat /\ n >= 1
      BY <1>1, <1>8
    <3>2. n \in 1..n
      BY <3>1
    <3>3. QED
      BY <2>5, <3>1, <3>2
  <2>7. g[n + 1] = e \o f[n]
    BY <2>6
  <2>8. QED
    BY <1>2, <2>1, <2>7, Zenon DEF l
<1>9. QED
  BY <1>7, <1>8

-----------------------------------------------------------------------------
(* Concatenation.                                                          *)
LEMMA CatType ==
  ASSUME NEW S, NEW a \in Seq(S), NEW b \in Seq(S)
  PROVE  a \o b \in Seq(S)
OBVIOUS

(* The empty list adds nothing.                                            *)
LEMMA CatEmpty ==
  ASSUME NEW S, NEW a \in Seq(S)
  PROVE  a \o <<>> = a /\ <<>> \o a = a
<1>1. <<>> \in Seq(S)
  OBVIOUS
<1>2. a \o <<>> = a
  OBVIOUS
<1>3. <<>> \o a = a
  OBVIOUS
<1>4. QED
  BY <1>2, <1>3

(* Appending to the second of two lists appends to both.                   *)
LEMMA CatAppend ==
  ASSUME NEW S, NEW a \in Seq(S), NEW b \in Seq(S), NEW x \in S
  PROVE  a \o Append(b, x) = Append(a \o b, x)
OBVIOUS

(* An element may go from the front of one part to the end of the other.   *)
LEMMA CatMove ==
  ASSUME NEW S, NEW a \in Seq(S), NEW b \in Seq(S), NEW x \in S
  PROVE  Append(a, x) \o b = a \o (<<x>> \o b)
OBVIOUS

(* What a list has to be to be the concatenation of two.                   *)
LEMMA CatIs ==
  ASSUME NEW S, NEW a \in Seq(S), NEW b \in Seq(S), NEW c \in Seq(S),
         NEW d \in Nat, NEW e \in Nat, Len(a) = d, Len(b) = e, Len(c) = d + e,
         \A m \in 1..d : c[m] = a[m],
         \A m \in 1..e : c[d + m] = b[m]
  PROVE  a \o b = c
<1>1. a \o b \in Seq(S) /\ Len(a \o b) = d + e
  OBVIOUS
<1>2. ASSUME NEW m \in 1..(d + e) PROVE (a \o b)[m] = c[m]
  <2>1. CASE m <= d
    <3>1. m \in 1..d
      BY <2>1
    <3>2. (a \o b)[m] = a[m]
      BY <3>1
    <3>3. QED
      BY <3>1, <3>2
  <2>2. CASE m > d
    <3>1. m - d \in 1..e /\ d + (m - d) = m
      BY <2>2
    <3>2. (a \o b)[m] = b[m - d]
      <4>1. m > Len(a) /\ m <= Len(a) + Len(b) /\ m - d = m - Len(a)
        BY <2>2
      <4>2. (a \o b)[m] = b[m - Len(a)]
        BY <4>1, ConcatProperties
      <4>3. QED
        BY <4>1, <4>2
    <3>3. c[d + (m - d)] = b[m - d]
      BY <3>1
    <3>4. QED
      BY <3>1, <3>2, <3>3
  <2>3. QED
    BY <2>1, <2>2
<1>3. c \in Seq(S) /\ Len(c) = d + e
  OBVIOUS
<1> DEFINE f == a \o b
<1>4. f \in Seq(S) /\ Len(f) = d + e /\ \A m \in 1..(d + e) : f[m] = c[m]
  BY <1>1, <1>2
<1> HIDE DEF f
<1>5. f = [m \in 1..(d + e) |-> f[m]] /\ c = [m \in 1..(d + e) |-> c[m]]
  BY <1>3, <1>4
<1>6. f = c
  BY <1>4, <1>5
<1>7. QED
  BY <1>6 DEF f

(* The elements of a part of a list.                                       *)
LEMMA SubSeqIs ==
  ASSUME NEW S, NEW q \in Seq(S), NEW i \in Nat, NEW j \in Nat, i <= j, j <= Len(q)
  PROVE  /\ SubSeq(q, i + 1, j) \in Seq(S)
         /\ Len(SubSeq(q, i + 1, j)) = j - i
         /\ \A m \in 1..(j - i) : SubSeq(q, i + 1, j)[m] = q[i + m]
OBVIOUS

(* A sequence is as long as its domain.                                    *)
LEMMA LenUnique ==
  ASSUME NEW S, NEW q \in Seq(S), NEW n \in Nat, DOMAIN q = 1..n
  PROVE  Len(q) = n
<1>1. Len(q) \in Nat /\ DOMAIN q = 1..Len(q)
  OBVIOUS
<1> DEFINE l == Len(q)
<1> HIDE DEF l
<1>2. l \in Nat /\ 1..l = 1..n
  BY <1>1 DEF l
<1>3. l = n
  <2>1. l >= 1 => l \in 1..n
    BY <1>2
  <2>2. n >= 1 => n \in 1..l
    BY <1>2
  <2>3. QED
    BY <1>2, <2>1, <2>2
<1>4. QED
  BY <1>3 DEF l

(* Two parts of a list that follow each other.                             *)
LEMMA SubSeqSplit ==
  ASSUME NEW S, NEW q \in Seq(S), NEW i \in Nat, NEW j \in Nat, NEW k \in Nat,
         i <= j, j <= k, k <= Len(q)
  PROVE  SubSeq(q, i + 1, j) \o SubSeq(q, j + 1, k) = SubSeq(q, i + 1, k)
<1> DEFINE a == SubSeq(q, i + 1, j)
           b == SubSeq(q, j + 1, k)
           c == SubSeq(q, i + 1, k)
           d == j - i
           e == k - j
<1>1. /\ a \in Seq(S) /\ Len(a) = j - i
      /\ \A m \in 1..(j - i) : a[m] = q[i + m]
  OBVIOUS
<1>2. /\ b \in Seq(S) /\ Len(b) = k - j
      /\ \A m \in 1..(k - j) : b[m] = q[j + m]
  OBVIOUS
<1>3. /\ c \in Seq(S) /\ Len(c) = k - i
      /\ \A m \in 1..(k - i) : c[m] = q[i + m]
  OBVIOUS
<1>4. d \in Nat /\ e \in Nat /\ k - i = d + e
  OBVIOUS
<1> HIDE DEF a, b, c
<1>5. \A m \in 1..d : c[m] = a[m]
  <2>1. \A m \in 1..d : m \in 1..(k - i)
    OBVIOUS
  <2>2. QED
    BY <1>1, <1>3, <2>1
<1>6. \A m \in 1..e : c[d + m] = b[m]
  <2>1. ASSUME NEW m \in 1..e PROVE c[d + m] = b[m]
    <3>1. d + m \in 1..(k - i) /\ i + (d + m) = j + m
      OBVIOUS
    <3>2. c[d + m] = q[i + (d + m)]
      BY <1>3, <3>1
    <3>3. b[m] = q[j + m]
      BY <1>2
    <3>4. QED
      BY <3>1, <3>2, <3>3
  <2>2. QED
    BY <2>1
<1>7. Len(a) = d /\ Len(b) = e /\ Len(c) = d + e
  BY <1>1, <1>2, <1>3, <1>4
<1> HIDE DEF d, e
<1>8. a \o b = c
  BY <1>1, <1>2, <1>3, <1>4, <1>5, <1>6, <1>7, CatIs, ZenonT(60)
<1>9. QED
  BY <1>8 DEF a, b, c

-----------------------------------------------------------------------------
(* Finite sets and folds over them.                                        *)

(* Induction on a finite set: F has the empty set, and for every other set *)
(* there is an element with which F has it if F has it without.            *)
LEMMA FiniteInduction ==
  ASSUME NEW S, IsFiniteSet(S), NEW F, {} \in F,
         \A T \in SUBSET S : T # {} => \E x \in T : T \ {x} \in F => T \in F
  PROVE  SUBSET S \subseteq F
<1> DEFINE K == {k \in Nat : \A T \in SUBSET S : Cardinality(T) = k => T \in F}
<1>1. 0 \in K
  <2>1. ASSUME NEW T \in SUBSET S, Cardinality(T) = 0 PROVE T \in F
    BY <2>1, FS_Subset, FS_EmptySet
  <2>2. QED
    BY <2>1
<1>2. ASSUME NEW k \in Nat, k \in K PROVE k + 1 \in K
  <2>1. ASSUME NEW T \in SUBSET S, Cardinality(T) = k + 1 PROVE T \in F
    <3>1. IsFiniteSet(T) /\ T # {}
      <4>1. IsFiniteSet(T)
        BY FS_Subset
      <4>2. Cardinality({}) = 0
        BY FS_EmptySet
      <4>3. QED
        BY <2>1, <4>1, <4>2
    <3>2. PICK x \in T : T \ {x} \in F => T \in F
      BY <3>1
    <3>3. Cardinality(T \ {x}) = k
      <4>1. Cardinality(T \ {x}) = Cardinality(T) - 1
        BY <3>1, FS_RemoveElement
      <4>2. QED
        BY <2>1, <4>1
    <3>4. T \ {x} \in F
      BY <1>2, <3>3
    <3>5. QED
      BY <3>2, <3>4
  <2>2. QED
    BY <2>1
<1>3. Nat \subseteq K
  <2> HIDE DEF K
  <2>1. QED
    BY <1>1, <1>2, SetInduction
<1>4. ASSUME NEW T \in SUBSET S PROVE T \in F
  <2>1. Cardinality(T) \in Nat
    BY FS_Subset, FS_CardinalityType
  <2>2. QED
    BY <1>3, <2>1
<1>5. QED
  BY <1>4

(* A finite set of integers that is not empty has a largest element.       *)
LEMMA LargestElement ==
  ASSUME NEW S, IsFiniteSet(S), S \subseteq Int, S # {}
  PROVE  Max(S) \in S /\ \A m \in S : m <= Max(S)
<1> DEFINE Top(T) == \E n \in T : \A m \in T : m <= n
           F == {T \in SUBSET S : T = {} \/ Top(T)}
<1>1. \A T \in SUBSET S : T # {} => \E x \in T : T \ {x} \in F => T \in F
  <2>1. SUFFICES ASSUME NEW T \in SUBSET S, NEW x \in T, T \ {x} \in F
                 PROVE  Top(T)
    <3>1. ASSUME NEW T \in SUBSET S, T # {}
          PROVE  \E x \in T : T \ {x} \in F => T \in F
      <4>1. PICK x \in T : TRUE
        BY <3>1
      <4>2. T \ {x} \in F => T \in F
        BY <2>1
      <4>3. QED
        BY <4>2
    <3>2. QED
      BY <3>1
  <2>2. CASE T \ {x} = {}
    <3>1. \A m \in T : m <= x
      BY <2>2
    <3>2. QED
      BY <3>1
  <2>3. CASE Top(T \ {x})
    <3>1. PICK n \in T \ {x} : \A m \in T \ {x} : m <= n
      BY <2>3
    <3>2. CASE x <= n
      <4>1. \A m \in T : m <= n
        BY <3>1, <3>2
      <4>2. QED
        BY <4>1
    <3>3. CASE n <= x
      <4>1. \A m \in T : m <= x
        BY <3>1, <3>3
      <4>2. QED
        BY <4>1
    <3>4. QED
      BY <3>2, <3>3
  <2>4. QED
    BY <2>1, <2>2, <2>3
<1>2. SUBSET S \subseteq F
  <2>1. {} \in F
    OBVIOUS
  <2> HIDE DEF F
  <2>2. QED
    BY <1>1, <2>1, FiniteInduction
<1>3. \E n \in S : \A m \in S : n >= m
  <2>1. Top(S)
    BY <1>2
  <2>2. QED
    BY <2>1
<1>4. Max(S) \in S /\ \A m \in S : Max(S) >= m
  BY <1>3, Zenon DEF Max
<1>5. QED
  BY <1>4

(* f folds the subsets of S: it takes the element that pick names out of   *)
(* the set, folds what is left and applies step.                           *)
FoldsBy(f, S, base, pick, step) ==
  f = [s \in SUBSET S |-> IF s = {} THEN base ELSE step[s][f[s \ {pick[s]}]]]

(* A fold over a finite set exists: there is a function that takes one     *)
(* element of each subset, as the recursive equation asks.                 *)
LEMMA FoldExists ==
  ASSUME NEW S, IsFiniteSet(S), NEW W, NEW base \in W, NEW pick, NEW step,
         \A s \in SUBSET S : s # {} => pick[s] \in s,
         \A s \in SUBSET S, v \in W : step[s][v] \in W
  PROVE  \E f \in [SUBSET S -> W] : FoldsBy(f, S, base, pick, step)
<1> DEFINE Value(f, s) == IF s = {} THEN base ELSE step[s][f[s \ {pick[s]}]]
           UpTo(f, k) == \A s \in SUBSET S : Cardinality(s) <= k => f[s] = Value(f, s)
           K == {k \in Nat : \E f \in [SUBSET S -> W] : UpTo(f, k)}
<1>1. \A s \in SUBSET S : IsFiniteSet(s) /\ Cardinality(s) \in Nat
  BY FS_Subset, FS_CardinalityType
<1>2. \A s \in SUBSET S : s # {} =>
        s \ {pick[s]} \in SUBSET S /\ Cardinality(s \ {pick[s]}) = Cardinality(s) - 1
  BY <1>1, FS_RemoveElement
<1>3. 0 \in K
  <2> DEFINE g == [s \in SUBSET S |-> base]
  <2>1. \A s \in SUBSET S : Cardinality(s) <= 0 => s = {}
    BY <1>1, FS_EmptySet
  <2>2. UpTo(g, 0)
    BY <2>1
  <2>3. g \in [SUBSET S -> W]
    OBVIOUS
  <2>4. QED
    BY <2>2, <2>3
<1>4. ASSUME NEW k \in Nat, k \in K PROVE k + 1 \in K
  <2>1. PICK f \in [SUBSET S -> W] : UpTo(f, k)
    BY <1>4
  <2> DEFINE g == [s \in SUBSET S |-> IF Cardinality(s) <= k THEN f[s] ELSE Value(f, s)]
  <2>2. ASSUME NEW s \in SUBSET S PROVE Value(f, s) \in W
    <3>1. s # {} => s \ {pick[s]} \in SUBSET S
      BY <1>2
    <3>2. s # {} => f[s \ {pick[s]}] \in W
      BY <3>1
    <3>3. QED
      BY <3>2
  <2>3. g \in [SUBSET S -> W]
    <3> HIDE DEF Value
    <3>1. QED
      BY <2>2
  <2>4. ASSUME NEW s \in SUBSET S, Cardinality(s) <= k + 1
        PROVE  g[s] = Value(g, s)
    <3>1. g[s] = Value(f, s)
      <4>1. Cardinality(s) <= k => f[s] = Value(f, s)
        BY <2>1
      <4> HIDE DEF Value
      <4>2. QED
        BY <4>1
    <3>2. s # {} => g[s \ {pick[s]}] = f[s \ {pick[s]}]
      <4>1. s # {} => /\ s \ {pick[s]} \in SUBSET S
                      /\ Cardinality(s \ {pick[s]}) <= k
        BY <1>1, <1>2, <2>4
      <4> HIDE DEF Value
      <4>2. QED
        BY <4>1
    <3> HIDE DEF g
    <3>3. Value(g, s) = Value(f, s)
      BY <3>2
    <3>4. QED
      BY <3>1, <3>3
  <2> HIDE DEF g, Value
  <2>5. UpTo(g, k + 1)
    BY <2>4
  <2>6. QED
    BY <2>3, <2>5
<1>5. Cardinality(S) \in K
  <2>1. Nat \subseteq K
    <3> HIDE DEF K
    <3>1. QED
      BY <1>3, <1>4, SetInduction
  <2>2. QED
    BY <1>1, <2>1
<1>6. PICK f \in [SUBSET S -> W] : UpTo(f, Cardinality(S))
  BY <1>5
<1>7. \A s \in SUBSET S : f[s] = Value(f, s)
  <2>1. \A s \in SUBSET S : Cardinality(s) <= Cardinality(S)
    BY FS_Subset
  <2> HIDE DEF Value
  <2>2. QED
    BY <1>6, <2>1
<1>8. FoldsBy(f, S, base, pick, step)
  <2>1. f = [s \in SUBSET S |-> f[s]]
    OBVIOUS
  <2>2. [s \in SUBSET S |-> f[s]] = [s \in SUBSET S |-> Value(f, s)]
    <3> HIDE DEF Value
    <3>1. QED
      BY <1>7
  <2>3. QED
    BY <2>1, <2>2, Zenon DEF FoldsBy
<1>9. QED
  BY <1>8

(* A property that holds of the empty set, and of every other set if it    *)
(* holds without one of its elements, holds of what is folded.             *)
LEMMA FoldRange ==
  ASSUME NEW S, IsFiniteSet(S), NEW W, NEW c, c[{}] \in W,
         \A s \in SUBSET S : s # {} => \E x \in s : c[s \ {x}] \in W => c[s] \in W
  PROVE  c[S] \in W
<1> DEFINE F == {s \in SUBSET S : c[s] \in W}
<1>1. {} \in F
  OBVIOUS
<1>2. \A s \in SUBSET S : s # {} => \E x \in s : s \ {x} \in F => s \in F
  <2>1. ASSUME NEW s \in SUBSET S, s # {}
        PROVE  \E x \in s : s \ {x} \in F => s \in F
    <3>1. PICK x \in s : c[s \ {x}] \in W => c[s] \in W
      BY <2>1
    <3>2. s \ {x} \in F => s \in F
      BY <3>1
    <3>3. QED
      BY <3>2
  <2>2. QED
    BY <2>1
<1> HIDE DEF F
<1>3. SUBSET S \subseteq F
  BY <1>1, <1>2, FiniteInduction
<1>4. QED
  BY <1>3 DEF F

-----------------------------------------------------------------------------
(* Lists without repetition.                                              *)
LEMMA CatOnce ==
  ASSUME NEW S, NEW a \in Seq(S), NEW b \in Seq(S)
  PROVE  /\ ToSet(a \o b) = ToSet(a) \cup ToSet(b)
         /\ IsInjective(a \o b) <=>
              IsInjective(a) /\ IsInjective(b) /\ ToSet(a) \cap ToSet(b) = {}
<1> DEFINE c == a \o b
           m == Len(a)
           n == Len(b)
<1>1. m \in Nat /\ n \in Nat /\ DOMAIN a = 1..m /\ DOMAIN b = 1..n
  OBVIOUS
<1>2. /\ DOMAIN c = 1..(m + n)
      /\ \A i \in 1..m : c[i] = a[i]
      /\ \A i \in 1..n : c[m + i] = b[i]
  OBVIOUS
<1> HIDE DEF c, m, n
<1>3. \A k \in 1..(m + n) : k \in 1..m \/ (k - m \in 1..n /\ k = m + (k - m))
  BY <1>1
<1>4. \A k \in 1..m : k \in 1..(m + n)
  BY <1>1
<1>5. \A k \in 1..n : m + k \in 1..(m + n)
  BY <1>1
<1>6. ToSet(c) = ToSet(a) \cup ToSet(b)
  <2>1. /\ ToSet(c) = {c[k] : k \in 1..(m + n)}
        /\ ToSet(a) = {a[k] : k \in 1..m} /\ ToSet(b) = {b[k] : k \in 1..n}
    BY <1>1, <1>2 DEF ToSet
  <2>2. \A k \in 1..(m + n) : c[k] \in ToSet(a) \cup ToSet(b)
    BY <1>2, <1>3, <2>1
  <2>3. \A k \in 1..m : a[k] \in ToSet(c)
    BY <1>2, <1>4, <2>1
  <2>4. \A k \in 1..n : b[k] \in ToSet(c)
    BY <1>2, <1>5, <2>1
  <2>5. QED
    BY <2>1, <2>2, <2>3, <2>4
<1>7. ASSUME IsInjective(c)
      PROVE  IsInjective(a) /\ IsInjective(b) /\ ToSet(a) \cap ToSet(b) = {}
  <2>1. \A k, l \in 1..(m + n) : c[k] = c[l] => k = l
    BY <1>2, <1>7 DEF IsInjective
  <2>2. \A k, l \in 1..m : a[k] = a[l] => k = l
    BY <1>2, <1>4, <2>1
  <2>3. \A k, l \in 1..n : b[k] = b[l] => k = l
    <3>1. SUFFICES ASSUME NEW k \in 1..n, NEW l \in 1..n, b[k] = b[l] PROVE k = l
      OBVIOUS
    <3>2. m + k = m + l
      BY <1>2, <1>5, <2>1, <3>1
    <3>3. QED
      BY <1>1, <3>2
  <2>4. \A k \in 1..m, l \in 1..n : a[k] # b[l]
    <3>1. SUFFICES ASSUME NEW k \in 1..m, NEW l \in 1..n, a[k] = b[l] PROVE FALSE
      OBVIOUS
    <3>2. k = m + l
      BY <1>2, <1>4, <1>5, <2>1, <3>1
    <3>3. QED
      BY <1>1, <3>2
  <2>5. QED
    BY <1>1, <2>2, <2>3, <2>4 DEF IsInjective, ToSet
<1>8. ASSUME IsInjective(a), IsInjective(b), ToSet(a) \cap ToSet(b) = {}
      PROVE  IsInjective(c)
  <2>1. \A k \in 1..m, l \in 1..n : a[k] # b[l]
    BY <1>1, <1>8 DEF ToSet
  <2>2. \A k, l \in 1..m : a[k] = a[l] => k = l
    BY <1>1, <1>8 DEF IsInjective
  <2>3. \A k, l \in 1..n : b[k] = b[l] => k = l
    BY <1>1, <1>8 DEF IsInjective
  <2>4. SUFFICES ASSUME NEW k \in 1..(m + n), NEW l \in 1..(m + n), c[k] = c[l]
                 PROVE  k = l
    BY <1>2 DEF IsInjective
  <2>5. CASE k \in 1..m /\ l \in 1..m
    BY <1>2, <2>2, <2>4, <2>5
  <2>6. CASE k \in 1..m /\ l - m \in 1..n /\ l = m + (l - m)
    BY <1>2, <2>1, <2>4, <2>6
  <2>7. CASE l \in 1..m /\ k - m \in 1..n /\ k = m + (k - m)
    BY <1>2, <2>1, <2>4, <2>7
  <2>8. CASE /\ k - m \in 1..n /\ k = m + (k - m)
             /\ l - m \in 1..n /\ l = m + (l - m)
    <3>1. b[k - m] = b[l - m]
      BY <1>2, <2>4, <2>8
    <3>2. k - m = l - m
      BY <2>3, <2>8, <3>1
    <3>3. QED
      BY <2>8, <3>2
  <2>9. QED
    BY <1>3, <2>5, <2>6, <2>7, <2>8
<1>9. QED
  BY <1>6, <1>7, <1>8 DEF c

(* A list read backwards.                                                  *)
LEMMA ReverseOnce ==
  ASSUME NEW S, NEW a \in Seq(S)
  PROVE  /\ Reverse(a) \in Seq(S) /\ Len(Reverse(a)) = Len(a)
         /\ ToSet(Reverse(a)) = ToSet(a)
         /\ IsInjective(a) => IsInjective(Reverse(a))
<1> DEFINE n == Len(a)
           r == Reverse(a)
<1>1. n \in Nat /\ DOMAIN a = 1..n /\ \A i \in 1..n : a[i] \in S
  OBVIOUS
<1>2. r = [i \in 1..n |-> a[n - i + 1]]
  BY DEF Reverse
<1> HIDE DEF n, r
<1>3. \A i \in 1..n : n - i + 1 \in 1..n /\ n - (n - i + 1) + 1 = i
  BY <1>1
<1>4. r \in Seq(S) /\ Len(r) = n /\ DOMAIN r = 1..n
  BY <1>1, <1>2, <1>3
<1>5. \A i \in 1..n : r[i] = a[n - i + 1] /\ a[i] = r[n - i + 1]
  BY <1>2, <1>3
<1>6. ToSet(r) = ToSet(a)
  <2>1. ToSet(r) = {r[i] : i \in 1..n} /\ ToSet(a) = {a[i] : i \in 1..n}
    BY <1>1, <1>4 DEF ToSet
  <2>2. QED
    BY <1>3, <1>5, <2>1
<1>7. ASSUME IsInjective(a) PROVE IsInjective(r)
  <2>1. \A i, j \in 1..n : n - i + 1 = n - j + 1 => i = j
    BY <1>1
  <2>2. \A i, j \in 1..n : r[i] = r[j] => i = j
    BY <1>1, <1>3, <1>5, <1>7, <2>1 DEF IsInjective
  <2>3. QED
    BY <1>4, <2>2 DEF IsInjective
<1>8. QED
  BY <1>4, <1>6, <1>7 DEF n, r

(* Taking one from the front or the back, and adding one.                  *)
LEMMA TakeOnce ==
  ASSUME NEW S, NEW a \in Seq(S), a # <<>>
  PROVE  /\ Tail(a) \in Seq(S) /\ Front(a) \in Seq(S)
         /\ Head(a) \in S /\ Last(a) \in S
         /\ a = <<Head(a)>> \o Tail(a) /\ a = Front(a) \o <<Last(a)>>
         /\ Len(Tail(a)) = Len(a) - 1 /\ Len(Front(a)) = Len(a) - 1
<1> DEFINE n == Len(a)
<1>1. n \in Nat \ {0} /\ DOMAIN a = 1..n
  OBVIOUS
<1>2. Tail(a) \in Seq(S) /\ Head(a) \in S /\ Len(Tail(a)) = n - 1
  BY <1>1
<1>3. a = <<Head(a)>> \o Tail(a)
  <2>1. \A i \in 1..n : a[i] = (<<Head(a)>> \o Tail(a))[i]
    BY <1>1, SMTT(30)
  <2>2. <<Head(a)>> \o Tail(a) \in Seq(S) /\ Len(<<Head(a)>> \o Tail(a)) = n
    BY <1>1, <1>2
  <2>3. QED
    BY <2>1, <2>2, CatIs
<1>4. /\ Front(a) = [i \in 1..(n - 1) |-> a[i]] /\ Last(a) = a[n]
      /\ Front(a) \in Seq(S) /\ Len(Front(a)) = n - 1 /\ Last(a) \in S
  <2>1. Front(a) = [i \in 1..(n - 1) |-> a[i]] /\ Last(a) = a[n]
    BY <1>1 DEF Front, Last
  <2>2. \A i \in 1..(n - 1) : a[i] \in S
    BY <1>1
  <2>3. QED
    BY <1>1, <2>1, <2>2
<1>5. a = Front(a) \o <<Last(a)>>
  <2>1. \A i \in 1..n : a[i] = (Front(a) \o <<Last(a)>>)[i]
    BY <1>1, <1>4, SMTT(30)
  <2>2. Front(a) \o <<Last(a)>> \in Seq(S) /\ Len(Front(a) \o <<Last(a)>>) = n
    BY <1>1, <1>4
  <2>3. QED
    BY <2>1, <2>2, CatIs
<1>6. QED
  BY <1>2, <1>3, <1>4, <1>5

(* A list of one element.                                                  *)
LEMMA SingleOnce ==
  ASSUME NEW x
  PROVE  ToSet(<<x>>) = {x} /\ IsInjective(<<x>>) /\ Len(<<x>>) = 1
BY DEF ToSet, IsInjective

(* A list with one more element at its end.                                *)
LEMMA AppendOnce ==
  ASSUME NEW S, NEW s \in Seq(S), NEW x \in S
  PROVE  /\ ToSet(Append(s, x)) = ToSet(s) \cup {x}
         /\ IsInjective(Append(s, x)) <=> IsInjective(s) /\ x \notin ToSet(s)
<1>1. <<x>> \in Seq(S) /\ Append(s, x) = s \o <<x>>
  OBVIOUS
<1>2. /\ ToSet(s \o <<x>>) = ToSet(s) \cup ToSet(<<x>>)
      /\ IsInjective(s \o <<x>>) <=>
           IsInjective(s) /\ IsInjective(<<x>>) /\ ToSet(s) \cap ToSet(<<x>>) = {}
  BY <1>1, CatOnce
<1>3. ToSet(<<x>>) = {x} /\ IsInjective(<<x>>)
  BY SingleOnce
<1>4. QED
  BY <1>1, <1>2, <1>3

(* The type and length of two lists put together.                          *)
LEMMA CatLen ==
  ASSUME NEW S, NEW a \in Seq(S), NEW b \in Seq(S)
  PROVE  /\ a \o b \in Seq(S) /\ Len(a \o b) = Len(a) + Len(b)
         /\ Len(a) \in Nat /\ Len(b) \in Nat
OBVIOUS

=============================================================================
