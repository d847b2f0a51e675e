------------------------------ MODULE ListFacts ------------------------------
(***************************************************************************)
(* Facts about sequences and joined sequences that the proofs about index  *)
(* blocks cite.  Induction is stated with a set in place of a predicate,   *)
(* and rests on the least element of a set of numbers.                     *)
(***************************************************************************)
EXTENDS Integers, SequencesExt, SequenceTheorems, FiniteSetTheorems,
        WellFoundedInduction, TLAPS

(* A set of numbers that is not empty has a least one.                     *)
LEMMA LeastNumber ==
  ASSUME NEW T \in SUBSET Nat, T # {}
  PROVE  \E x \in T : \A y \in T : ~(y < x)
<1> DEFINE R == OpToRel(<, Nat)
<1>1. IsWellFoundedOn(R, Nat)
  BY NatLessThanWellFounded, Zenon
<1>2. \A a, b \in Nat : a < b => <<a, b>> \in R
  BY DEF OpToRel
<1> HIDE DEF R
<1>3. \E x \in T : \A y \in T : ~ (<<y, x>> \in R)
  BY <1>1, WFMin, Zenon
<1> QED BY <1>2, <1>3

(* Least and greatest numbers.                                             *)
LEMMA MinIs ==
  ASSUME NEW S \in SUBSET Int, NEW m \in S, \A y \in S : m <= y
  PROVE  Min(S) = m
<1>1. \A x \in S : (\A y \in S : x <= y) => x = m
  <2>1. TAKE x \in S
  <2>2. HAVE \A y \in S : x <= y
  <2>3. x <= m /\ m <= x /\ x \in Int /\ m \in Int
    BY <2>2
  <2> QED BY <2>3
<1> QED BY <1>1 DEF Min

LEMMA MaxIs ==
  ASSUME NEW S \in SUBSET Int, NEW m \in S, \A y \in S : y <= m
  PROVE  Max(S) = m
<1>1. \A x \in S : (\A y \in S : x >= y) => x = m
  <2>1. TAKE x \in S
  <2>2. HAVE \A y \in S : x >= y
  <2>3. x <= m /\ m <= x /\ x \in Int /\ m \in Int
    BY <2>2
  <2> QED BY <2>3
<1>2. \A y \in S : m >= y
  <2>1. TAKE y \in S
  <2>2. y <= m /\ y \in Int /\ m \in Int
    OBVIOUS
  <2> QED BY <2>2
<1> QED BY <1>1, <1>2 DEF Max

LEMMA MinOfSome ==
  ASSUME NEW S \in SUBSET Nat, S # {}
  PROVE  Min(S) \in S /\ \A y \in S : Min(S) <= y
<1>1. PICK x \in S : \A y \in S : ~(y < x)
  BY LeastNumber
<1>2. \A y \in S : x <= y
  <2>1. TAKE y \in S
  <2>2. x \in Int /\ y \in Int /\ ~(y < x)
    BY <1>1
  <2> QED BY <2>2
<1>3. Min(S) = x
  BY <1>2, MinIs
<1> QED BY <1>2, <1>3

(* Of two numbers.                                                         *)
LEMMA MinOfTwo ==
  ASSUME NEW a \in Int, NEW b \in Int
  PROVE  a <= b => /\ Min({a, b}) = a /\ Min({b, a}) = a
                   /\ Max({a, b}) = b /\ Max({b, a}) = b
<1>1. SUFFICES ASSUME a <= b
               PROVE  Min({a, b}) = a /\ Max({a, b}) = b
  <2>1. {a, b} = {b, a}
    OBVIOUS
  <2> QED BY <2>1
<1>2. {a, b} \in SUBSET Int /\ a \in {a, b} /\ b \in {a, b}
      /\ (\A y \in {a, b} : a <= y) /\ (\A y \in {a, b} : y <= b)
  BY <1>1
<1> QED BY <1>2, MinIs, MaxIs

(* A set with 0, and with n + 1 for every number n in it, has them all.    *)
LEMMA NumberInduction ==
  ASSUME NEW T, 0 \in T, \A n \in Nat : n \in T => n + 1 \in T
  PROVE  Nat \subseteq T
<1> DEFINE M == Nat \ T
<1>1. SUFFICES ASSUME M # {} PROVE FALSE
  OBVIOUS
<1>2. PICK x \in M : \A y \in M : ~(y < x)
  <2>1. M \in SUBSET Nat
    OBVIOUS
  <2> HIDE DEF M
  <2> QED BY <1>1, <2>1, LeastNumber
<1>3. x \in Nat /\ x - 1 \in Nat
  OBVIOUS
<1>4. x - 1 \in T
  BY <1>2, <1>3
<1> QED BY <1>3, <1>4

(* A set with <<>>, and with Append(s, e) for every s in it, has all.      *)
LEMMA SequenceInduction ==
  ASSUME NEW S, NEW T, <<>> \in T,
         \A s \in Seq(S), e \in S : s \in T => Append(s, e) \in T
  PROVE  Seq(S) \subseteq T
<1> DEFINE N == {n \in Nat : \A s \in Seq(S) : Len(s) = n => s \in T}
<1>1. 0 \in N
  BY EmptySeq
<1>2. ASSUME NEW n \in Nat, n \in N PROVE n + 1 \in N
  <2>1. SUFFICES ASSUME NEW s \in Seq(S), Len(s) = n + 1 PROVE s \in T
    OBVIOUS
  <2>2. s # <<>>
    BY <2>1, EmptySeq
  <2>3. PICK t \in Seq(S), e \in S : s = Append(t, e)
    BY <2>2, SequenceEmptyOrAppend
  <2>4. Len(t) = n
    BY <2>1, <2>3, AppendProperties, LenProperties
  <2>5. t \in T
    BY <1>2, <2>4
  <2> QED BY <2>3, <2>5
<1> HIDE DEF N
<1>3. Nat \subseteq N
  BY <1>1, <1>2, NumberInduction
<1>4. ASSUME NEW s \in Seq(S) PROVE s \in T
  <2>1. Len(s) \in N
    BY <1>3, LenProperties
  <2> QED BY <2>1 DEF N
<1> QED BY <1>4

-----------------------------------------------------------------------------
(* FlattenSeq.                                                             *)

(* f[i] is the first i sequences of s, joined.                             *)
Joins(s, f) == f = [i \in 1..Len(s) |-> IF i = 1 THEN s[i] ELSE f[i - 1] \o s[i]]

LEMMA JoinsAt ==
  ASSUME NEW s, NEW f, Joins(s, f), NEW i \in 1..Len(s)
  PROVE  f[i] = IF i = 1 THEN s[i] ELSE f[i - 1] \o s[i]
<1> DEFINE h == [j \in 1..Len(s) |-> IF j = 1 THEN s[j] ELSE f[j - 1] \o s[j]]
<1>1. f = h
  BY DEF Joins
<1>2. h[i] = IF i = 1 THEN s[i] ELSE f[i - 1] \o s[i]
  OBVIOUS
<1> HIDE DEF h
<1> QED BY <1>1, <1>2

LEMMA FlattenDef ==
  ASSUME NEW s, Len(s) # 0
  PROVE  FlattenSeq(s) = (CHOOSE f : Joins(s, f))[Len(s)]
BY DEF FlattenSeq, Joins

(* The sequences of s can be joined one after the other.                   *)
LEMMA JoinsExists ==
  ASSUME NEW S, NEW s \in Seq(Seq(S))
  PROVE  \E f \in [1..Len(s) -> Seq(S)] : Joins(s, f)
<1> DEFINE J(t, f) == \A i \in 1..Len(t) : f[i] = IF i = 1 THEN t[i] ELSE f[i - 1] \o t[i]
           T == {t \in Seq(Seq(S)) : \E f \in [1..Len(t) -> Seq(S)] : J(t, f)}
<1>1. <<>> \in T
  <2>1. <<>> \in Seq(Seq(S)) /\ Len(<<>>) = 0 /\ 1..0 = {}
    OBVIOUS
  <2>2. [i \in {} |-> <<>>] \in [{} -> Seq(S)]
    OBVIOUS
  <2> QED BY <2>1, <2>2
<1>2. ASSUME NEW t \in Seq(Seq(S)), NEW e \in Seq(S), t \in T
      PROVE  Append(t, e) \in T
  <2>1. PICK f \in [1..Len(t) -> Seq(S)] : J(t, f)
    BY <1>2
  <2> DEFINE u == Append(t, e)
             n == Len(t)
             g == [i \in 1..n + 1 |->
                     IF i <= n THEN f[i] ELSE IF n = 0 THEN e ELSE f[n] \o e]
  <2>2. /\ n \in Nat /\ Len(u) = n + 1 /\ u \in Seq(Seq(S))
        /\ \A i \in 1..n : u[i] = t[i]
        /\ u[n + 1] = e
    BY AppendProperties, LenProperties
  <2> HIDE DEF u
  <2>3. g \in [1..n + 1 -> Seq(S)]
    <3>1. ASSUME n # 0 PROVE f[n] \o e \in Seq(S)
      <4>1. f[n] \in Seq(S)
        <5>1. n \in 1..n
          BY <2>2, <3>1
        <5> QED BY <5>1
      <4> QED BY <4>1, ConcatProperties
    <3> QED BY <2>2, <3>1
  <2>4. ASSUME NEW i \in 1..n + 1
        PROVE  g[i] = IF i = 1 THEN u[i] ELSE g[i - 1] \o u[i]
    <3>1. CASE i <= n
      <4>1. i \in 1..n /\ (i # 1 => i - 1 \in 1..n)
        BY <2>2, <3>1
      <4>2. f[i] = IF i = 1 THEN t[i] ELSE f[i - 1] \o t[i]
        BY <2>1, <4>1
      <4>3. g[i] = f[i] /\ u[i] = t[i] /\ (i # 1 => g[i - 1] = f[i - 1])
        BY <2>2, <4>1, SMTT(40)
      <4> HIDE DEF g
      <4> QED BY <4>2, <4>3
    <3>2. CASE i = n + 1
      BY <2>2, <3>2
    <3> QED BY <2>2, <3>1, <3>2
  <2> HIDE DEF g
  <2>5. J(u, g)
    BY <2>2, <2>4
  <2> QED BY <2>2, <2>3, <2>5 DEF u
<1>3. Seq(Seq(S)) \subseteq T
  <2> HIDE DEF T
  <2> QED BY <1>1, <1>2, SequenceInduction
<1>4. PICK f \in [1..Len(s) -> Seq(S)] : J(s, f)
  BY <1>3
<1> QED BY <1>4 DEF Joins

(* There is one way to do it.                                              *)
LEMMA JoinsUnique ==
  ASSUME NEW s, NEW f, NEW g, Len(s) \in Nat, Joins(s, f), Joins(s, g)
  PROVE  f = g
<1> DEFINE N == {n \in Nat : n \in 1..Len(s) => f[n] = g[n]}
<1>1. 0 \in N
  OBVIOUS
<1>2. ASSUME NEW n \in Nat, n \in N PROVE n + 1 \in N
  <2>1. SUFFICES ASSUME n + 1 \in 1..Len(s) PROVE f[n + 1] = g[n + 1]
    OBVIOUS
  <2>2. /\ f[n + 1] = IF n + 1 = 1 THEN s[n + 1] ELSE f[(n + 1) - 1] \o s[n + 1]
        /\ g[n + 1] = IF n + 1 = 1 THEN s[n + 1] ELSE g[(n + 1) - 1] \o s[n + 1]
    BY <2>1 DEF Joins
  <2>3. (n + 1) - 1 = n /\ (n + 1 # 1 => n \in 1..Len(s))
    BY <2>1
  <2> QED BY <1>2, <2>2, <2>3
<1>3. Nat \subseteq N
  <2> HIDE DEF N
  <2> QED BY <1>1, <1>2, NumberInduction
<1>4. \A n \in 1..Len(s) : f[n] = g[n]
  BY <1>3
<1> QED BY <1>4 DEF Joins

(* So FlattenSeq is the last of them.                                      *)
LEMMA FlattenJoins ==
  ASSUME NEW S, NEW s \in Seq(Seq(S)), s # <<>>, NEW f, Joins(s, f)
  PROVE  FlattenSeq(s) = f[Len(s)]
<1>1. Len(s) \in Nat \ {0}
  BY EmptySeq
<1>2. Joins(s, CHOOSE h : Joins(s, h))
  OBVIOUS
<1>3. f = CHOOSE h : Joins(s, h)
  BY <1>1, <1>2, JoinsUnique
<1> QED BY <1>1, <1>3, FlattenDef

LEMMA FlattenEmpty == FlattenSeq(<<>>) = <<>>
BY DEF FlattenSeq

LEMMA FlattenType ==
  ASSUME NEW S, NEW s \in Seq(Seq(S))
  PROVE  FlattenSeq(s) \in Seq(S)
<1>1. CASE s = <<>>
  BY <1>1, FlattenEmpty, EmptySeq
<1>2. CASE s # <<>>
  <2>1. PICK f \in [1..Len(s) -> Seq(S)] : Joins(s, f)
    BY JoinsExists
  <2>2. Len(s) \in 1..Len(s)
    BY <1>2, EmptySeq
  <2> QED BY <1>2, <2>1, <2>2, FlattenJoins, SMTT(40)
<1> QED BY <1>1, <1>2

(* One more sequence is joined at the end.                                 *)
LEMMA FlattenAppend ==
  ASSUME NEW S, NEW s \in Seq(Seq(S)), NEW e \in Seq(S)
  PROVE  FlattenSeq(Append(s, e)) = FlattenSeq(s) \o e
<1> DEFINE u == Append(s, e)
           n == Len(s)
<1>1. /\ n \in Nat /\ Len(u) = n + 1 /\ u \in Seq(Seq(S)) /\ u # <<>>
      /\ \A i \in 1..n : u[i] = s[i]
      /\ u[n + 1] = e
  BY AppendProperties, LenProperties
<1> HIDE DEF u
<1>2. PICK g \in [1..Len(u) -> Seq(S)] : Joins(u, g)
  BY <1>1, JoinsExists
<1>3. FlattenSeq(u) = g[n + 1]
  BY <1>1, <1>2, FlattenJoins
<1>4. g[n + 1] = IF n + 1 = 1 THEN e ELSE g[n] \o e
  <2>1. g[n + 1] = IF n + 1 = 1 THEN u[n + 1] ELSE g[(n + 1) - 1] \o u[n + 1]
    <3>1. n + 1 \in 1..Len(u)
      BY <1>1
    <3> QED BY <3>1, <1>2, JoinsAt
  <2>2. (n + 1) - 1 = n
    BY <1>1
  <2> QED BY <1>1, <2>1, <2>2
<1>5. CASE n = 0
  <2>1. FlattenSeq(s) = <<>>
    BY <1>5, EmptySeq, FlattenEmpty
  <2> QED BY <1>3, <1>4, <1>5, <2>1, ConcatEmptySeq DEF u
<1>6. CASE n # 0
  <2> DEFINE h == [i \in 1..n |-> g[i]]
  <2>1. ASSUME NEW i \in 1..n
        PROVE  h[i] = IF i = 1 THEN s[i] ELSE h[i - 1] \o s[i]
    <3>1. g[i] = IF i = 1 THEN u[i] ELSE g[i - 1] \o u[i]
      <4>1. i \in 1..Len(u)
        BY <1>1
      <4> QED BY <4>1, <1>2, JoinsAt
    <3>2. u[i] = s[i] /\ (i # 1 => i - 1 \in 1..n)
      BY <1>1
    <3> QED BY <3>1, <3>2
  <2>2. Joins(s, h)
    BY <2>1 DEF Joins
  <2>3. s # <<>>
    BY <1>6
  <2>4. FlattenSeq(s) = h[n]
    <3> HIDE DEF h
    <3> QED BY <2>2, <2>3, FlattenJoins
  <2>5. h[n] = g[n] /\ n + 1 # 1
    BY <1>1, <1>6
  <2> QED BY <1>3, <1>4, <2>4, <2>5 DEF u
<1> QED BY <1>5, <1>6

(* Joining two sequences of sequences joins what they make.                *)
LEMMA FlattenConcat ==
  ASSUME NEW S, NEW s \in Seq(Seq(S)), NEW t \in Seq(Seq(S))
  PROVE  FlattenSeq(s \o t) = FlattenSeq(s) \o FlattenSeq(t)
<1> DEFINE T == {u \in Seq(Seq(S)) : FlattenSeq(s \o u) = FlattenSeq(s) \o FlattenSeq(u)}
<1>1. <<>> \in T
  BY FlattenEmpty, FlattenType, ConcatEmptySeq, EmptySeq
<1>2. ASSUME NEW u \in Seq(Seq(S)), NEW e \in Seq(S), u \in T
      PROVE  Append(u, e) \in T
  <2>1. s \o Append(u, e) = Append(s \o u, e)
    <3>1. Append(u, e) = u \o <<e>> /\ Append(s \o u, e) = (s \o u) \o <<e>>
      BY AppendIsConcat, ConcatProperties
    <3>2. <<e>> \in Seq(Seq(S))
      OBVIOUS
    <3> QED BY <3>1, <3>2, ConcatAssociative, SMTT(40)
  <2>2. FlattenSeq(Append(s \o u, e)) = FlattenSeq(s \o u) \o e
    BY FlattenAppend, ConcatProperties
  <2>3. FlattenSeq(Append(u, e)) = FlattenSeq(u) \o e
    BY FlattenAppend
  <2>4. FlattenSeq(s) \in Seq(S) /\ FlattenSeq(u) \in Seq(S)
    BY FlattenType
  <2>5. (FlattenSeq(s) \o FlattenSeq(u)) \o e = FlattenSeq(s) \o (FlattenSeq(u) \o e)
    BY <2>4, ConcatAssociative, SMTT(40)
  <2>6. Append(u, e) \in Seq(Seq(S))
    BY AppendProperties
  <2> QED BY <1>2, <2>1, <2>2, <2>3, <2>5, <2>6
<1>3. Seq(Seq(S)) \subseteq T
  <2> HIDE DEF T
  <2> QED BY <1>1, <1>2, SequenceInduction
<1> QED BY <1>3

LEMMA FlattenOne ==
  ASSUME NEW S, NEW e \in Seq(S)
  PROVE  FlattenSeq(<<e>>) = e
<1>1. <<e>> = Append(<<>>, e) /\ <<>> \in Seq(Seq(S))
  BY EmptySeq
<1>2. FlattenSeq(Append(<<>>, e)) = FlattenSeq(<<>>) \o e
  BY <1>1, FlattenAppend
<1> QED BY <1>1, <1>2, FlattenEmpty, ConcatEmptySeq

-----------------------------------------------------------------------------
(* Cutting a sequence, and putting the parts together again.               *)

LEMMA SubSeqFacts ==
  ASSUME NEW S, NEW s \in Seq(S), NEW i \in 1..Len(s) + 1, NEW j \in i - 1..Len(s)
  PROVE  /\ SubSeq(s, i, j) \in Seq(S) /\ Len(SubSeq(s, i, j)) = j - i + 1
         /\ \A k \in 1..j - i + 1 : SubSeq(s, i, j)[k] = s[i - 1 + k]
<1> DEFINE t == SubSeq(s, i, j)
<1>1. i \in Int /\ j \in Int /\ Len(s) \in Nat
  BY LenProperties
<1>2. \A k \in i..j : s[k] \in S
  BY <1>1, ElementOfSeq
<1>3. /\ t \in Seq(S) /\ Len(t) = IF i <= j THEN j - i + 1 ELSE 0
      /\ \A k \in 1..j - i + 1 : t[k] = s[i + k - 1]
  BY <1>1, <1>2, SubSeqProperties
<1> HIDE DEF t
<1>4. Len(t) = j - i + 1
  BY <1>1, <1>3
<1>5. \A k \in 1..j - i + 1 : i + k - 1 = i - 1 + k
  BY <1>1
<1> QED BY <1>3, <1>4, <1>5 DEF t

(* A sequence is its first part and the rest.                              *)
LEMMA CutFacts ==
  ASSUME NEW S, NEW s \in Seq(S), NEW i \in 1..Len(s) + 1
  PROVE  LET a == SubSeq(s, 1, i - 1)
             z == SubSeq(s, i, Len(s))
         IN /\ a \in Seq(S) /\ z \in Seq(S)
            /\ Len(a) = i - 1 /\ Len(z) = Len(s) - i + 1
            /\ s = a \o z
            /\ \A k \in 1..i - 1 : a[k] = s[k]
            /\ \A k \in 1..Len(s) - i + 1 : z[k] = s[i - 1 + k]
<1> DEFINE a == SubSeq(s, 1, i - 1)
           z == SubSeq(s, i, Len(s))
<1>1. Len(s) \in Nat /\ i \in Nat
  BY LenProperties
<1>2. /\ a \in Seq(S) /\ Len(a) = (i - 1) - 1 + 1
      /\ \A k \in 1..(i - 1) - 1 + 1 : a[k] = s[1 - 1 + k]
  <2>1. 1 \in 1..Len(s) + 1 /\ i - 1 \in 1 - 1..Len(s)
    BY <1>1
  <2> QED BY <2>1, SubSeqFacts
<1>3. /\ z \in Seq(S) /\ Len(z) = Len(s) - i + 1
      /\ \A k \in 1..Len(s) - i + 1 : z[k] = s[i - 1 + k]
  <2>1. Len(s) \in i - 1..Len(s)
    BY <1>1
  <2> QED BY <2>1, SubSeqFacts
<1> HIDE DEF a, z
<1>4. Len(a) = i - 1 /\ \A k \in 1..i - 1 : a[k] = s[k]
  <2>1. (i - 1) - 1 + 1 = i - 1 /\ \A k \in 1..i - 1 : 1 - 1 + k = k
    BY <1>1
  <2> QED BY <1>2, <2>1
<1>5. s = a \o z
  <2> DEFINE t == a \o z
  <2>1. t \in Seq(S) /\ Len(t) = Len(a) + Len(z)
        /\ \A k \in 1..Len(a) + Len(z) : t[k] = IF k <= Len(a) THEN a[k] ELSE z[k - Len(a)]
    BY <1>2, <1>3, ConcatProperties
  <2>2. Len(a) + Len(z) = Len(s)
    BY <1>1, <1>3, <1>4
  <2> HIDE DEF t
  <2>3. ASSUME NEW k \in 1..Len(s) PROVE t[k] = s[k]
    <3>1. CASE k <= i - 1
      BY <1>1, <1>4, <2>1, <2>2, <3>1
    <3>2. CASE ~(k <= i - 1)
      <4>1. k - (i - 1) \in 1..Len(s) - i + 1 /\ i - 1 + (k - (i - 1)) = k
        BY <1>1, <3>2
      <4>2. z[k - (i - 1)] = s[k]
        BY <1>3, <4>1
      <4> QED BY <1>4, <2>1, <2>2, <3>2, <4>2
    <3> QED BY <3>1, <3>2
  <2>4. s = t
    BY <2>1, <2>2, <2>3, SeqEqual
  <2> QED BY <2>4 DEF t
<1> QED BY <1>2, <1>3, <1>4, <1>5 DEF a, z

(* The parts of a \o z.                                                    *)
LEMMA CutConcat ==
  ASSUME NEW S, NEW a \in Seq(S), NEW z \in Seq(S)
  PROVE  LET s == a \o z
         IN /\ s \in Seq(S) /\ Len(s) = Len(a) + Len(z) /\ Len(a) \in Nat /\ Len(z) \in Nat
            /\ SubSeq(s, 1, Len(a)) = a
            /\ SubSeq(s, Len(a) + 1, Len(s)) = z
<1> DEFINE s == a \o z
           n == Len(a)
           b == SubSeq(s, 1, n)
           y == SubSeq(s, n + 1, Len(s))
<1>1. /\ s \in Seq(S) /\ Len(s) = Len(a) + Len(z) /\ Len(a) \in Nat /\ Len(z) \in Nat
      /\ \A k \in 1..Len(a) + Len(z) : s[k] = IF k <= Len(a) THEN a[k] ELSE z[k - Len(a)]
  BY ConcatProperties, LenProperties
<1> HIDE DEF s
<1>2. /\ b \in Seq(S) /\ Len(b) = n - 1 + 1
      /\ \A k \in 1..n - 1 + 1 : b[k] = s[1 - 1 + k]
  <2>1. 1 \in 1..Len(s) + 1 /\ n \in 1 - 1..Len(s)
    BY <1>1
  <2> QED BY <1>1, <2>1, SubSeqFacts
<1>3. /\ y \in Seq(S) /\ Len(y) = Len(s) - (n + 1) + 1
      /\ \A k \in 1..Len(s) - (n + 1) + 1 : y[k] = s[(n + 1) - 1 + k]
  <2>1. n + 1 \in 1..Len(s) + 1 /\ Len(s) \in (n + 1) - 1..Len(s)
    BY <1>1
  <2> QED BY <1>1, <2>1, SubSeqFacts
<1> HIDE DEF b, y
<1>4. b = a
  <2>1. Len(b) = n /\ \A k \in 1..n : 1 - 1 + k = k /\ k \in 1..n - 1 + 1
    BY <1>1, <1>2
  <2>2. \A k \in 1..n : b[k] = a[k]
    BY <1>1, <1>2, <2>1
  <2> QED BY <1>2, <2>1, <2>2, SeqEqual
<1>5. y = z
  <2>1. /\ Len(y) = Len(z)
        /\ \A k \in 1..Len(z) : /\ k \in 1..Len(s) - (n + 1) + 1
                                /\ (n + 1) - 1 + k = n + k /\ ~(n + k <= n)
                                /\ n + k - n = k /\ n + k \in 1..Len(a) + Len(z)
    BY <1>1, <1>3
  <2>2. \A k \in 1..Len(z) : y[k] = z[k]
    BY <1>1, <1>3, <2>1
  <2> QED BY <1>3, <2>1, <2>2, SeqEqual
<1> QED BY <1>1, <1>4, <1>5 DEF s, b, y

LEMMA InsertConcat ==
  ASSUME NEW S, NEW a \in Seq(S), NEW z \in Seq(S), NEW e
  PROVE  InsertAt(a \o z, Len(a) + 1, e) = (a \o <<e>>) \o z
<1> DEFINE s == a \o z
<1>1. /\ SubSeq(s, 1, Len(a)) = a /\ SubSeq(s, Len(a) + 1, Len(s)) = z /\ Len(a) \in Nat
  BY CutConcat
<1>2. (Len(a) + 1) - 1 = Len(a)
  BY <1>1
<1> HIDE DEF s
<1>3. InsertAt(s, Len(a) + 1, e) = (a \o <<e>>) \o z
  BY <1>1, <1>2 DEF InsertAt
<1> QED BY <1>3 DEF s

LEMMA RemoveConcat ==
  ASSUME NEW S, NEW a \in Seq(S), NEW z \in Seq(S), NEW e \in S
  PROVE  RemoveAt((a \o <<e>>) \o z, Len(a) + 1) = a \o z
<1> DEFINE b == a \o <<e>>
           s == b \o z
<1>1. <<e>> \in Seq(S) /\ Len(<<e>>) = 1
  OBVIOUS
<1>2. b \in Seq(S) /\ Len(b) = Len(a) + 1 /\ SubSeq(b, 1, Len(a)) = a /\ Len(a) \in Nat
  BY <1>1, CutConcat
<1> HIDE DEF b
<1>3. /\ s \in Seq(S) /\ SubSeq(s, 1, Len(b)) = b /\ SubSeq(s, Len(b) + 1, Len(s)) = z
      /\ Len(s) = Len(b) + Len(z) /\ Len(z) \in Nat
  <2> SUFFICES ASSUME NEW d \in Seq(S)
               PROVE  LET u == d \o z
                      IN /\ u \in Seq(S) /\ SubSeq(u, 1, Len(d)) = d
                         /\ SubSeq(u, Len(d) + 1, Len(u)) = z
                         /\ Len(u) = Len(d) + Len(z) /\ Len(z) \in Nat
    BY <1>2
  <2> QED BY CutConcat
<1> HIDE DEF s
<1>4. SubSeq(s, 1, Len(a)) = a
  <2>1. /\ 1 \in 1..Len(s) + 1 /\ Len(a) \in 1 - 1..Len(s) /\ Len(b) \in 1 - 1..Len(s)
        /\ 1 \in 1..Len(b) + 1 /\ Len(a) \in 1 - 1..Len(b)
    BY <1>2, <1>3
  <2>2. /\ SubSeq(s, 1, Len(a)) \in Seq(S) /\ Len(SubSeq(s, 1, Len(a))) = Len(a) - 1 + 1
        /\ \A k \in 1..Len(a) - 1 + 1 : SubSeq(s, 1, Len(a))[k] = s[1 - 1 + k]
    BY <1>3, <2>1, SubSeqFacts
  <2>3. \A k \in 1..Len(b) - 1 + 1 : SubSeq(s, 1, Len(b))[k] = s[1 - 1 + k]
    BY <1>3, <2>1, SubSeqFacts
  <2>4. /\ SubSeq(b, 1, Len(a)) \in Seq(S) /\ Len(SubSeq(b, 1, Len(a))) = Len(a) - 1 + 1
        /\ \A k \in 1..Len(a) - 1 + 1 : SubSeq(b, 1, Len(a))[k] = b[1 - 1 + k]
    BY <1>2, <2>1, SubSeqFacts
  <2>5. \A k \in 1..Len(a) - 1 + 1 : k \in 1..Len(b) - 1 + 1 /\ 1 - 1 + k = k
    BY <1>2
  <2>6. \A k \in 1..Len(a) - 1 + 1 : SubSeq(s, 1, Len(a))[k] = SubSeq(b, 1, Len(a))[k]
    BY <1>3, <2>2, <2>3, <2>4, <2>5
  <2>7. SubSeq(s, 1, Len(a)) = SubSeq(b, 1, Len(a))
    BY <2>2, <2>4, <2>6, SeqEqual
  <2> QED BY <1>2, <2>7
<1>5. (Len(a) + 1) - 1 = Len(a) /\ (Len(a) + 1) + 1 = Len(b) + 1
  BY <1>2
<1>6. RemoveAt(s, Len(a) + 1) = a \o z
  BY <1>3, <1>4, <1>5 DEF RemoveAt
<1> QED BY <1>6 DEF s, b

(* s is a, e and z.                                                        *)
Around(S, s, a, e, z) ==
  /\ a \in Seq(S) /\ z \in Seq(S) /\ e \in S
  /\ s = (a \o <<e>>) \o z

CutAt(S, s, i, a, z) ==
  /\ Around(S, s, a, s[i], z)
  /\ Len(a) = i - 1 /\ Len(z) = Len(s) - i
  /\ \A k \in 1..i - 1 : a[k] = s[k]
  /\ \A k \in 1..Len(s) - i : z[k] = s[i + k]

LEMMA CutOne ==
  ASSUME NEW S, NEW s \in Seq(S), NEW i \in DOMAIN s
  PROVE  CutAt(S, s, i, SubSeq(s, 1, i - 1), SubSeq(s, i + 1, Len(s)))
<1> DEFINE a == SubSeq(s, 1, i - 1)
           b == SubSeq(s, 1, (i + 1) - 1)
           z == SubSeq(s, i + 1, Len(s))
           e == s[i]
<1>1. /\ Len(s) \in Nat /\ i \in 1..Len(s) /\ e \in S
      /\ i \in 1..Len(s) + 1 /\ i + 1 \in 1..Len(s) + 1
  BY LenProperties, ElementOfSeq
<1>2. a \in Seq(S) /\ Len(a) = i - 1 /\ \A k \in 1..i - 1 : a[k] = s[k]
  BY <1>1, CutFacts
<1>3. /\ b \in Seq(S) /\ z \in Seq(S) /\ Len(b) = (i + 1) - 1
      /\ Len(z) = Len(s) - (i + 1) + 1 /\ s = b \o z
      /\ \A k \in 1..(i + 1) - 1 : b[k] = s[k]
      /\ \A k \in 1..Len(s) - (i + 1) + 1 : z[k] = s[(i + 1) - 1 + k]
  BY <1>1, CutFacts
<1> HIDE DEF a, b, z
<1>4. <<e>> \in Seq(S) /\ Len(<<e>>) = 1 /\ <<e>>[1] = e
  BY <1>1
<1> HIDE DEF e
<1>5. b = a \o <<e>>
  <2> DEFINE d == a \o <<e>>
  <2>1. /\ d \in Seq(S) /\ Len(d) = Len(a) + 1
        /\ \A k \in 1..Len(a) + 1 : d[k] = IF k <= Len(a) THEN a[k] ELSE <<e>>[k - Len(a)]
    BY <1>2, <1>4, ConcatProperties
  <2> HIDE DEF d
  <2>2. ASSUME NEW k \in 1..Len(d) PROVE d[k] = b[k]
    <3>1. k \in 1..i /\ k \in 1..Len(a) + 1 /\ k \in 1..(i + 1) - 1
      BY <1>1, <1>2, <2>1
    <3>2. CASE k = i
      <4>1. ~(k <= Len(a)) /\ k - Len(a) = 1
        BY <1>1, <1>2, <3>2
      <4> QED BY <1>3, <1>4, <2>1, <3>1, <3>2, <4>1 DEF e
    <3>3. CASE k # i
      <4>1. k <= Len(a) /\ k \in 1..i - 1
        BY <1>1, <1>2, <3>1, <3>3
      <4> QED BY <1>2, <1>3, <2>1, <3>1, <4>1
    <3> QED BY <3>2, <3>3
  <2>3. Len(d) = Len(b)
    BY <1>1, <1>2, <1>3, <2>1
  <2> QED BY <1>3, <2>1, <2>2, <2>3, SeqEqual DEF d
<1>6. Around(S, s, a, e, z)
  BY <1>1, <1>2, <1>3, <1>5 DEF Around
<1>7. Len(z) = Len(s) - i /\ \A k \in 1..Len(s) - i : z[k] = s[i + k]
  <2>1. /\ Len(s) - (i + 1) + 1 = Len(s) - i
        /\ \A k \in 1..Len(s) - i : (i + 1) - 1 + k = i + k
    BY <1>1
  <2> QED BY <1>3, <2>1
<1> QED BY <1>2, <1>6, <1>7 DEF CutAt, a, e, z

(* What inserting behind that element, and removing it, comes to.          *)
AroundMade(S, s, a, e, z) ==
  /\ \A d \in S : InsertAt(s, Len(a) + 2, d) = ((a \o <<e>>) \o <<d>>) \o z
  /\ RemoveAt(s, Len(a) + 1) = a \o z

LEMMA AroundChanges ==
  ASSUME NEW S, NEW s, NEW a, NEW e, NEW z, Around(S, s, a, e, z)
  PROVE  AroundMade(S, s, a, e, z)
<1> DEFINE b == a \o <<e>>
<1>1. a \in Seq(S) /\ z \in Seq(S) /\ e \in S /\ s = b \o z /\ Len(a) \in Nat
  BY LenProperties DEF Around
<1>2. <<e>> \in Seq(S) /\ Len(<<e>>) = 1
  BY <1>1
<1>3. b \in Seq(S) /\ Len(b) = Len(a) + 1 /\ Len(b) + 1 = Len(a) + 2
  BY <1>1, <1>2, ConcatProperties
<1>4. RemoveAt(s, Len(a) + 1) = a \o z
  BY <1>1, RemoveConcat
<1> HIDE DEF b
<1>5. ASSUME NEW d \in S PROVE InsertAt(b \o z, Len(b) + 1, d) = (b \o <<d>>) \o z
  BY <1>1, <1>3, InsertConcat
<1> QED BY <1>1, <1>3, <1>4, <1>5 DEF b, AroundMade

(* One more element.                                                       *)
LEMMA InsertAtShape ==
  ASSUME NEW S, NEW s \in Seq(S), NEW i \in 1..Len(s) + 1, NEW e \in S
  PROVE  /\ InsertAt(s, i, e) \in Seq(S) /\ Len(InsertAt(s, i, e)) = Len(s) + 1
         /\ \A j \in 1..Len(s) + 1 :
              InsertAt(s, i, e)[j] = IF j < i THEN s[j] ELSE IF j = i THEN e ELSE s[j - 1]
<1> DEFINE a == SubSeq(s, 1, i - 1)
           z == SubSeq(s, i, Len(s))
           b == a \o <<e>>
           t == b \o z
<1>1. /\ a \in Seq(S) /\ z \in Seq(S) /\ Len(a) = i - 1 /\ Len(z) = Len(s) - i + 1
      /\ \A k \in 1..i - 1 : a[k] = s[k]
      /\ \A k \in 1..Len(s) - i + 1 : z[k] = s[i - 1 + k]
  BY CutFacts
<1>2. Len(s) \in Nat /\ i \in Nat /\ InsertAt(s, i, e) = t
  BY LenProperties DEF InsertAt
<1> HIDE DEF a, z
<1>3. <<e>> \in Seq(S) /\ Len(<<e>>) = 1 /\ <<e>>[1] = e
  OBVIOUS
<1>4. /\ b \in Seq(S) /\ Len(b) = Len(a) + 1
      /\ \A k \in 1..Len(a) + 1 : b[k] = IF k <= Len(a) THEN a[k] ELSE <<e>>[k - Len(a)]
  BY <1>1, <1>3, ConcatProperties
<1> HIDE DEF b
<1>5. /\ t \in Seq(S) /\ Len(t) = Len(b) + Len(z)
      /\ \A k \in 1..Len(b) + Len(z) : t[k] = IF k <= Len(b) THEN b[k] ELSE z[k - Len(b)]
  BY <1>1, <1>4, ConcatProperties
<1> HIDE DEF t
<1>6. Len(b) = i /\ Len(t) = Len(s) + 1 /\ Len(b) + Len(z) = Len(s) + 1
  BY <1>1, <1>2, <1>4, <1>5
<1>7. ASSUME NEW j \in 1..Len(s) + 1
      PROVE  t[j] = IF j < i THEN s[j] ELSE IF j = i THEN e ELSE s[j - 1]
  <2>1. CASE j < i
    <3>1. j <= Len(a) /\ j \in 1..i - 1 /\ j \in 1..Len(a) + 1 /\ j <= Len(b)
      BY <1>1, <1>2, <1>6, <2>1
    <3> QED BY <1>1, <1>4, <1>5, <1>6, <2>1, <3>1
  <2>2. CASE j = i
    <3>1. ~(j <= Len(a)) /\ j - Len(a) = 1 /\ j \in 1..Len(a) + 1 /\ j <= Len(b) /\ ~(j < i)
      BY <1>1, <1>2, <1>6, <2>2
    <3> QED BY <1>3, <1>4, <1>5, <1>6, <2>2, <3>1
  <2>3. CASE j > i
    <3>1. /\ ~(j <= Len(b)) /\ j - i \in 1..Len(s) - i + 1 /\ i - 1 + (j - i) = j - 1
          /\ ~(j < i) /\ j # i
      BY <1>2, <1>6, <2>3
    <3>2. z[j - i] = s[j - 1]
      BY <1>1, <3>1
    <3> QED BY <1>5, <1>6, <3>1, <3>2
  <2> QED BY <1>2, <2>1, <2>2, <2>3
<1> QED BY <1>2, <1>5, <1>6, <1>7

(* The same, behind the i-th.                                              *)
GrownBehind(S, s, i, e, t) ==
  /\ t \in Seq(S) /\ Len(t) = Len(s) + 1 /\ DOMAIN t = 1..Len(s) + 1
  /\ \A j \in 1..i : t[j] = s[j]
  /\ t[i + 1] = e
  /\ \A j \in i + 2..Len(s) + 1 : t[j] = s[j - 1]

LEMMA GrowsBehind ==
  ASSUME NEW S, NEW s \in Seq(S), NEW i \in 1..Len(s), NEW e \in S
  PROVE  GrownBehind(S, s, i, e, InsertAt(s, i + 1, e))
<1> DEFINE k == i + 1
           t == InsertAt(s, k, e)
<1>1. Len(s) \in Nat /\ i \in Nat /\ k \in 1..Len(s) + 1
  BY LenProperties
<1> HIDE DEF k
<1>2. /\ t \in Seq(S) /\ Len(t) = Len(s) + 1
      /\ \A j \in 1..Len(s) + 1 : t[j] = IF j < k THEN s[j] ELSE IF j = k THEN e ELSE s[j - 1]
  <2> SUFFICES ASSUME NEW h \in 1..Len(s) + 1
               PROVE  LET u == InsertAt(s, h, e)
                      IN /\ u \in Seq(S) /\ Len(u) = Len(s) + 1
                         /\ \A j \in 1..Len(s) + 1 :
                              u[j] = IF j < h THEN s[j] ELSE IF j = h THEN e ELSE s[j - 1]
    BY <1>1
  <2> QED BY InsertAtShape
<1> HIDE DEF t
<1>3. DOMAIN t = 1..Len(s) + 1
  BY <1>2, LenProperties
<1>4. ASSUME NEW j \in 1..i PROVE t[j] = s[j]
  <2>1. j < k /\ j \in 1..Len(s) + 1
    BY <1>1 DEF k
  <2> QED BY <1>2, <2>1
<1>5. t[k] = e
  BY <1>1, <1>2
<1>6. ASSUME NEW j \in i + 2..Len(s) + 1 PROVE t[j] = s[j - 1]
  <2>1. ~(j < k) /\ j # k /\ j \in 1..Len(s) + 1
    BY <1>1 DEF k
  <2> QED BY <1>2, <2>1
<1> QED BY <1>2, <1>3, <1>4, <1>5, <1>6 DEF GrownBehind, t, k

(* One element less.                                                       *)
ShrunkAt(S, s, i, t) ==
  /\ t \in Seq(S) /\ Len(t) = Len(s) - 1 /\ DOMAIN t = 1..Len(s) - 1
  /\ \A j \in 1..i - 1 : t[j] = s[j]
  /\ \A j \in i..Len(s) - 1 : t[j] = s[j + 1]

LEMMA RemoveShrinks ==
  ASSUME NEW S, NEW s \in Seq(S), NEW i \in 1..Len(s)
  PROVE  ShrunkAt(S, s, i, RemoveAt(s, i))
<1> DEFINE a == SubSeq(s, 1, i - 1)
           z == SubSeq(s, i + 1, Len(s))
           t == a \o z
<1>1. Len(s) \in Nat /\ i \in Nat /\ i \in DOMAIN s
  BY LenProperties
<1>2. CutAt(S, s, i, a, z)
  BY <1>1, CutOne
<1>3. RemoveAt(s, i) = t
  BY DEF RemoveAt
<1> HIDE DEF a, z
<1>4. /\ a \in Seq(S) /\ z \in Seq(S) /\ Len(a) = i - 1 /\ Len(z) = Len(s) - i
      /\ \A k \in 1..i - 1 : a[k] = s[k]
      /\ \A k \in 1..Len(s) - i : z[k] = s[i + k]
  BY <1>2 DEF CutAt, Around
<1>5. /\ t \in Seq(S) /\ Len(t) = Len(a) + Len(z)
      /\ \A k \in 1..Len(a) + Len(z) : t[k] = IF k <= Len(a) THEN a[k] ELSE z[k - Len(a)]
  BY <1>4, ConcatProperties
<1> HIDE DEF t
<1>6. Len(t) = Len(s) - 1 /\ DOMAIN t = 1..Len(s) - 1
  <2>1. Len(t) = Len(s) - 1
    BY <1>1, <1>4, <1>5
  <2> QED BY <1>5, <2>1, LenProperties
<1>7. ASSUME NEW j \in 1..i - 1 PROVE t[j] = s[j]
  <2>1. j \in 1..Len(a) + Len(z) /\ j <= Len(a)
    BY <1>1, <1>4
  <2> QED BY <1>4, <1>5, <2>1
<1>8. ASSUME NEW j \in i..Len(s) - 1 PROVE t[j] = s[j + 1]
  <2>1. /\ j \in 1..Len(a) + Len(z) /\ ~(j <= Len(a))
        /\ j - Len(a) \in 1..Len(s) - i /\ i + (j - Len(a)) = j + 1
    <3>1. Len(a) = i - 1 /\ Len(z) = Len(s) - i
      BY <1>4
    <3>2. j \in Int /\ i <= j /\ j <= Len(s) - 1
      BY <1>1
    <3> HIDE DEF a, z
    <3> QED BY <1>1, <3>1, <3>2
  <2>2. z[j - Len(a)] = s[i + (j - Len(a))]
    BY <1>4, <2>1
  <2> QED BY <1>5, <2>1, <2>2
<1> QED BY <1>3, <1>5, <1>6, <1>7, <1>8 DEF ShrunkAt

LEMMA InsertFirst ==
  ASSUME NEW e
  PROVE  InsertAt(<<>>, 1, e) = <<e>> /\ Len(<<e>>) = 1
<1> DEFINE S == {e}
<1>1. <<>> \in Seq(S) /\ <<e>> \in Seq(S) /\ Len(<<>>) + 1 = 1
  OBVIOUS
<1>2. InsertAt(<<>> \o <<>>, Len(<<>>) + 1, e) = (<<>> \o <<e>>) \o <<>>
  BY <1>1, InsertConcat
<1>3. <<>> \o <<>> = <<>> /\ (<<>> \o <<e>>) \o <<>> = <<e>>
  BY <1>1, ConcatEmptySeq
<1> QED BY <1>1, <1>2, <1>3

(* A list changed between two others.                                      *)
MiddleMade(S, a, l, z) ==
  /\ \A p \in 1..Len(l) + 1, e \in S :
       InsertAt((a \o l) \o z, Len(a) + p, e) = (a \o InsertAt(l, p, e)) \o z
  /\ \A p \in 1..Len(l) :
       RemoveAt((a \o l) \o z, Len(a) + p) = (a \o RemoveAt(l, p)) \o z

LEMMA MiddleChanges ==
  ASSUME NEW S, NEW a \in Seq(S), NEW l \in Seq(S), NEW z \in Seq(S)
  PROVE  MiddleMade(S, a, l, z)
<1>0. \A u, v, w \in Seq(S) : (u \o v) \o w = u \o (v \o w)
  BY ConcatAssociative, SMTT(40)
<1>1. ASSUME NEW p \in 1..Len(l) + 1, NEW e \in S
      PROVE  InsertAt((a \o l) \o z, Len(a) + p, e) = (a \o InsertAt(l, p, e)) \o z
  <2> DEFINE b == SubSeq(l, 1, p - 1)
             c == SubSeq(l, p, Len(l))
  <2>1. b \in Seq(S) /\ c \in Seq(S) /\ Len(b) = p - 1 /\ l = b \o c
    BY CutFacts
  <2>2. InsertAt(l, p, e) = (b \o <<e>>) \o c
    BY DEF InsertAt
  <2> HIDE DEF b, c
  <2>3. <<e>> \in Seq(S) /\ Len(a) \in Nat /\ p \in Nat
    BY LenProperties
  <2>4. /\ a \o b \in Seq(S) /\ c \o z \in Seq(S) /\ b \o <<e>> \in Seq(S)
        /\ Len(a \o b) = Len(a) + Len(b)
    BY <2>1, <2>3, ConcatProperties
  <2>parts. c \in Seq(S) /\ a \o b \in Seq(S) /\ b \o <<e>> \in Seq(S)
    BY <2>1, <2>4
  <2>5. (a \o l) \o z = (a \o b) \o (c \o z)
    <3>1. a \o (b \o c) = (a \o b) \o c
      BY <1>0, <2>1, ZenonT(40)
    <3>2. ((a \o b) \o c) \o z = (a \o b) \o (c \o z)
      BY <1>0, <2>parts, ZenonT(40)
    <3> QED BY <2>1, <3>1, <3>2
  <2>6. InsertAt((a \o b) \o (c \o z), Len(a \o b) + 1, e) = ((a \o b) \o <<e>>) \o (c \o z)
    BY <2>4, InsertConcat
  <2>7. Len(a \o b) + 1 = Len(a) + p
    BY <2>1, <2>3, <2>4
  <2>8. ((a \o b) \o <<e>>) \o (c \o z) = (a \o ((b \o <<e>>) \o c)) \o z
    <3>1. (a \o b) \o <<e>> = a \o (b \o <<e>>)
      BY <1>0, <2>1, <2>3, ZenonT(40)
    <3>2. a \o (b \o <<e>>) \in Seq(S)
      BY <2>4, ConcatProperties
    <3>3. (a \o (b \o <<e>>)) \o (c \o z) = ((a \o (b \o <<e>>)) \o c) \o z
      BY <1>0, <2>1, <3>2, ZenonT(40)
    <3>4. (a \o (b \o <<e>>)) \o c = a \o ((b \o <<e>>) \o c)
      BY <1>0, <2>parts, ZenonT(40)
    <3> QED BY <3>1, <3>3, <3>4
  <2> QED BY <2>2, <2>5, <2>6, <2>7, <2>8
<1>2. ASSUME NEW p \in 1..Len(l)
      PROVE  RemoveAt((a \o l) \o z, Len(a) + p) = (a \o RemoveAt(l, p)) \o z
  <2>1. p \in DOMAIN l
    BY LenProperties
  <2>2. PICK b, c : Around(S, l, b, l[p], c) /\ Len(b) = p - 1
    BY <2>1, CutOne, ZenonT(40) DEF CutAt
  <2> DEFINE e == l[p]
  <2>3. b \in Seq(S) /\ c \in Seq(S) /\ e \in S /\ l = (b \o <<e>>) \o c
    BY <2>2 DEF Around
  <2>4. RemoveAt(l, p) = b \o c
    <3>1. Len(b) + 1 = p
      BY <2>1, <2>2, LenProperties
    <3> HIDE DEF e
    <3>2. RemoveAt((b \o <<e>>) \o c, Len(b) + 1) = b \o c
      BY <2>3, RemoveConcat
    <3> QED BY <2>3, <3>1, <3>2
  <2> HIDE DEF e
  <2>5. <<e>> \in Seq(S) /\ Len(a) \in Nat /\ p \in Nat
    BY <2>3, LenProperties
  <2>6. /\ a \o b \in Seq(S) /\ c \o z \in Seq(S) /\ b \o <<e>> \in Seq(S)
        /\ Len(a \o b) = Len(a) + Len(b)
    BY <2>3, <2>5, ConcatProperties
  <2>parts. c \in Seq(S) /\ a \o b \in Seq(S) /\ b \o <<e>> \in Seq(S)
    BY <2>3, <2>6
  <2>7. (a \o l) \o z = ((a \o b) \o <<e>>) \o (c \o z)
    <3>1. a \o ((b \o <<e>>) \o c) = (a \o (b \o <<e>>)) \o c
      BY <1>0, <2>parts, ZenonT(40)
    <3>2. a \o (b \o <<e>>) = (a \o b) \o <<e>>
      BY <1>0, <2>3, <2>5, ZenonT(40)
    <3>3. (a \o b) \o <<e>> \in Seq(S)
      BY <2>5, <2>6, ConcatProperties
    <3>4. (((a \o b) \o <<e>>) \o c) \o z = ((a \o b) \o <<e>>) \o (c \o z)
      BY <1>0, <2>3, <3>3, ZenonT(40)
    <3> QED BY <2>3, <3>1, <3>2, <3>4
  <2>8. RemoveAt(((a \o b) \o <<e>>) \o (c \o z), Len(a \o b) + 1) = (a \o b) \o (c \o z)
    BY <2>3, <2>6, RemoveConcat
  <2>9. Len(a \o b) + 1 = Len(a) + p
    BY <2>2, <2>5, <2>6
  <2>10. (a \o b) \o (c \o z) = (a \o (b \o c)) \o z
    <3>1. (a \o b) \o (c \o z) = ((a \o b) \o c) \o z
      BY <1>0, <2>parts, ZenonT(40)
    <3>2. (a \o b) \o c = a \o (b \o c)
      BY <1>0, <2>3, ZenonT(40)
    <3> QED BY <3>1, <3>2
  <2> QED BY <2>4, <2>7, <2>8, <2>9, <2>10
<1> QED BY <1>1, <1>2 DEF MiddleMade

-----------------------------------------------------------------------------
(* FoldLeft, with its step given as a function G of the value so far and   *)
(* the place in the sequence: h has the fold of every subset of places.    *)
Folds(h, b, N, G) ==
  \A s \in SUBSET (1..N) :
    h[s] = IF s = {} THEN b ELSE G[Max(s)][h[s \ {Max(s)}]]

LEMMA MaxTop ==
  ASSUME NEW n \in Nat, NEW s \in SUBSET (1..n + 1), n + 1 \in s
  PROVE  Max(s) = n + 1
<1>1. \A y \in s : y \in Int /\ n + 1 >= y
  OBVIOUS
<1>2. \A x \in s : (\A y \in s : x >= y) => x = n + 1
  BY <1>1
<1>3. \E x \in s : \A y \in s : x >= y
  BY <1>1
<1> QED BY <1>2, <1>3 DEF Max

LEMMA MaxExists ==
  ASSUME NEW n \in Nat, NEW s \in SUBSET (1..n), s # {}
  PROVE  Max(s) \in s
<1> DEFINE T == {k \in Nat : \A r \in SUBSET (1..k) : r # {} => \E x \in r : \A y \in r : x >= y}
<1>1. 0 \in T
  <2>1. 1..0 = {}
    OBVIOUS
  <2> QED BY <2>1
<1>2. ASSUME NEW k \in Nat, k \in T PROVE k + 1 \in T
  <2>1. SUFFICES ASSUME NEW r \in SUBSET (1..k + 1), r # {}
                 PROVE  \E x \in r : \A y \in r : x >= y
    OBVIOUS
  <2>2. CASE k + 1 \in r
    BY <2>2
  <2>3. CASE k + 1 \notin r
    <3>1. r \in SUBSET (1..k)
      BY <2>1, <2>3
    <3> QED BY <1>2, <2>1, <3>1
  <2> QED BY <2>2, <2>3
<1> HIDE DEF T
<1>3. n \in T
  BY <1>1, <1>2, NumberInduction
<1>4. \E x \in s : \A y \in s : x >= y
  BY <1>3 DEF T
<1> QED BY <1>4 DEF Max

(* The fold of every set of places exists.                                 *)
LEMMA FoldExists ==
  ASSUME NEW U, NEW b \in U, NEW N \in Nat, NEW G \in [1..N -> [U -> U]]
  PROVE  \E h \in [SUBSET (1..N) -> U] : Folds(h, b, N, G)
<1> DEFINE F(n, h) == \A s \in SUBSET (1..n) :
                        h[s] = IF s = {} THEN b ELSE G[Max(s)][h[s \ {Max(s)}]]
           E(n) == \E h \in [SUBSET (1..n) -> U] : F(n, h)
           T == {n \in Nat : n <= N => E(n)}
<1>1. 0 \in T
  <2> DEFINE h == [s \in SUBSET (1..0) |-> b]
  <2>1. h \in [SUBSET (1..0) -> U]
    OBVIOUS
  <2>2. \A s \in SUBSET (1..0) : s = {} /\ h[s] = b
    OBVIOUS
  <2> HIDE DEF h
  <2>3. E(0)
    BY <2>1, <2>2
  <2> HIDE DEF E
  <2> QED BY <2>3
<1>2. ASSUME NEW n \in Nat, n \in T PROVE n + 1 \in T
  <2> HIDE DEF E
  <2>1. SUFFICES ASSUME n + 1 <= N PROVE E(n + 1)
    OBVIOUS
  <2>ex. E(n)
    BY <1>2, <2>1
  <2>2. PICK g \in [SUBSET (1..n) -> U] : F(n, g)
    BY <2>ex DEF E
  <2> DEFINE h == [s \in SUBSET (1..n + 1) |->
                     IF n + 1 \in s THEN G[n + 1][g[s \ {n + 1}]] ELSE g[s]]
  <2>3. \A s \in SUBSET (1..n + 1) :
          /\ s \ {n + 1} \in SUBSET (1..n)
          /\ n + 1 \notin s => s \in SUBSET (1..n)
    OBVIOUS
  <2>4. n + 1 \in 1..N
    BY <2>1
  <2>5. h \in [SUBSET (1..n + 1) -> U]
    <3>1. ASSUME NEW s \in SUBSET (1..n + 1)
          PROVE  (IF n + 1 \in s THEN G[n + 1][g[s \ {n + 1}]] ELSE g[s]) \in U
      <4>1. g[s \ {n + 1}] \in U
        BY <2>2, <2>3
      <4>2. G[n + 1][g[s \ {n + 1}]] \in U
        BY <2>4, <4>1
      <4> QED BY <2>2, <2>3, <4>2
    <3> QED BY <3>1
  <2>6. ASSUME NEW s \in SUBSET (1..n + 1)
        PROVE  h[s] = IF s = {} THEN b ELSE G[Max(s)][h[s \ {Max(s)}]]
    <3>1. CASE n + 1 \in s
      <4>1. Max(s) = n + 1
        BY <3>1, MaxTop
      <4>2. s \ {n + 1} \in SUBSET (1..n + 1) /\ n + 1 \notin s \ {n + 1}
        OBVIOUS
      <4>3. h[s \ {n + 1}] = g[s \ {n + 1}]
        BY <4>2
      <4>4. h[s] = G[n + 1][g[s \ {n + 1}]] /\ s # {}
        BY <3>1
      <4> QED BY <4>1, <4>3, <4>4, Zenon
    <3>2. CASE n + 1 \notin s
      <4>1. s \in SUBSET (1..n) /\ h[s] = g[s]
        BY <2>3, <3>2
      <4>2. CASE s = {}
        <5>1. g[s] = b
          BY <2>2, <4>1, <4>2
        <5> QED BY <4>1, <4>2, <5>1
      <4>3. CASE s # {}
        <5>1. s \ {Max(s)} \in SUBSET (1..n + 1) /\ n + 1 \notin s \ {Max(s)}
          BY <3>2
        <5>2. h[s \ {Max(s)}] = g[s \ {Max(s)}]
          BY <5>1
        <5>3. g[s] = G[Max(s)][g[s \ {Max(s)}]]
          BY <2>2, <4>1, <4>3
        <5> QED BY <4>1, <4>3, <5>2, <5>3, Zenon
      <4> QED BY <4>2, <4>3
    <3> QED BY <3>1, <3>2
  <2> HIDE DEF h
  <2> QED BY <2>5, <2>6 DEF E
<1> HIDE DEF T, E, F
<1>3. N \in T
  BY <1>1, <1>2, NumberInduction
<1>4. E(N)
  BY <1>3 DEF T
<1>5. PICK h \in [SUBSET (1..N) -> U] : F(N, h)
  BY <1>4 DEF E
<1> QED BY <1>5 DEF F, Folds

(* What a fold h takes from the first n places, for every n.               *)
Runs(f, U, b, N, G) ==
  /\ f \in [0..N -> U] /\ f[0] = b
  /\ \A n \in 1..N : f[n] = G[n][f[n - 1]]

FoldsIn(h, U, b, N, G) ==
  /\ h[{}] = b
  /\ \A s \in SUBSET (1..N) : s # {} /\ h[s \ {Max(s)}] \in U =>
       h[s] = G[Max(s)][h[s \ {Max(s)}]]

LEMMA FoldRuns ==
  ASSUME NEW U, NEW b, NEW N, NEW G, NEW h,
         b \in U, N \in Nat, G \in [1..N -> [U -> U]], FoldsIn(h, U, b, N, G)
  PROVE  \E f : Runs(f, U, b, N, G) /\ f[N] = h[1..N]
<1> DEFINE f == [n \in 0..N |-> h[1..n]]
           T == {n \in Nat : n <= N => f[n] \in U}
<1>1. f[0] = b
  <2>1. 1..0 = {} /\ 0 \in 0..N
    OBVIOUS
  <2> QED BY <2>1 DEF FoldsIn
<1>2. ASSUME NEW n \in 1..N, f[n - 1] \in U PROVE f[n] = G[n][f[n - 1]]
  <2>1. /\ (1..n) \ {n} = 1..n - 1 /\ 1..n \in SUBSET (1..N) /\ 1..n # {}
        /\ n - 1 \in 0..N /\ n \in 0..N
    <3>1. (1..n) \ {n} = 1..n - 1
      OBVIOUS
    <3>2. n \in 1..n /\ 1..n \in SUBSET (1..N)
      OBVIOUS
    <3>3. n - 1 \in 0..N /\ n \in 0..N
      OBVIOUS
    <3> QED BY <3>1, <3>2, <3>3
  <2>2. Max(1..n) = n
    BY DEF Max
  <2>3. f[n - 1] = h[(1..n) \ {n}] /\ f[n] = h[1..n]
    BY <2>1
  <2> HIDE DEF f
  <2> QED BY <1>2, <2>1, <2>2, <2>3 DEF FoldsIn
<1>3. ASSUME NEW n \in Nat, n \in T PROVE n + 1 \in T
  <2>1. SUFFICES ASSUME n + 1 <= N PROVE f[n + 1] \in U
    OBVIOUS
  <2>2. n + 1 \in 1..N /\ (n + 1) - 1 = n /\ f[n] \in U
    BY <1>3, <2>1
  <2> HIDE DEF f, T
  <2>3. G[n + 1][f[n]] \in U
    BY <2>2
  <2>4. f[n + 1] = G[n + 1][f[n]]
    BY <1>2, <2>2
  <2> QED BY <2>3, <2>4
<1>4. 0 \in T
  BY <1>1
<1>5. Nat \subseteq T
  <2> HIDE DEF T
  <2> QED BY <1>3, <1>4, NumberInduction
<1>6. \A n \in 0..N : f[n] \in U
  <2>1. \A n \in 0..N : n \in Nat /\ n <= N
    OBVIOUS
  <2>2. \A n \in T : n <= N => f[n] \in U
    OBVIOUS
  <2> HIDE DEF f, T
  <2> QED BY <1>5, <2>1, <2>2
<1>7. f \in [0..N -> U]
  BY <1>6
<1>8. \A n \in 1..N : f[n] = G[n][f[n - 1]]
  <2>1. \A n \in 1..N : n - 1 \in 0..N
    OBVIOUS
  <2> QED BY <1>2, <1>6, <2>1
<1>9. f[N] = h[1..N]
  OBVIOUS
<1> HIDE DEF f
<1> QED BY <1>1, <1>7, <1>8, <1>9 DEF Runs

-----------------------------------------------------------------------------
(* Cardinality under a name of this module.  Where a module with           *)
(* parameters is instantiated Cardinality is the one of the instance, and  *)
(* the theorems of FiniteSetTheorems do not speak of that.                 *)
CountOf(S) == Cardinality(S)

LEMMA CountDef ==
  \A S : CountOf(S) = LET CS[T \in SUBSET S] == IF T = {} THEN 0
                             ELSE 1 + CS[T \ {CHOOSE x : x \in T}]
                      IN  CS[S]
BY Zenon DEF CountOf, Cardinality

(* The numbers of S that are not above n.                                  *)
UpTo(S, n) == {m \in S : m <= n}

LEMMA CountFacts ==
  ASSUME NEW k \in Nat, NEW S \in SUBSET (1..k)
  PROVE  CountOf(S) \in Nat /\ \A n \in S : CountOf(UpTo(S, n)) \in 1..CountOf(S)
<1>1. \A T \in SUBSET (1..k) : IsFiniteSet(T) /\ Cardinality(T) \in Nat
  <2>1. IsFiniteSet(1..k)
    BY FS_Interval
  <2>2. \A T \in SUBSET (1..k) : IsFiniteSet(T)
    BY <2>1, FS_Subset
  <2> QED BY <2>2, FS_CardinalityType
<1>2. ASSUME NEW n \in S PROVE Cardinality(UpTo(S, n)) \in 1..Cardinality(S)
  <2> DEFINE T == UpTo(S, n)
  <2>1. T \in SUBSET S /\ n \in T
    BY DEF UpTo
  <2> HIDE DEF T
  <2>2. IsFiniteSet(T) /\ Cardinality(T) \in Nat /\ Cardinality(T) <= Cardinality(S)
    BY <1>1, <2>1, FS_Subset
  <2>3. Cardinality(T) # 0
    BY <2>1, <2>2, FS_EmptySet
  <2>4. Cardinality(T) \in 1..Cardinality(S)
    BY <1>1, <2>2, <2>3
  <2> QED BY <2>4 DEF T
<1> QED BY <1>1, <1>2 DEF CountOf

LEMMA CountNone == CountOf({}) = 0
BY FS_EmptySet DEF CountOf

LEMMA CountGrows ==
  ASSUME NEW k \in Nat, NEW S \in SUBSET (1..k)
  PROVE  LET T == S \cup {k + 1}
         IN /\ CountOf(T) = CountOf(S) + 1 /\ UpTo(T, k + 1) = T
            /\ \A n \in S : UpTo(T, n) = UpTo(S, n)
<1> DEFINE T == S \cup {k + 1}
<1>1. IsFiniteSet(S)
  <2>1. IsFiniteSet(1..k)
    BY FS_Interval
  <2> QED BY <2>1, FS_Subset
<1>2. Cardinality(T) = Cardinality(S) + 1
  <2>1. k + 1 \notin S
    OBVIOUS
  <2> QED BY <1>1, <2>1, FS_AddElement
<1>3. UpTo(T, k + 1) = T
  <2>1. \A m \in T : m <= k + 1
    OBVIOUS
  <2> HIDE DEF T
  <2> QED BY <2>1 DEF UpTo
<1>4. \A n \in S : UpTo(T, n) = UpTo(S, n)
  BY DEF UpTo
<1> QED BY <1>2, <1>3, <1>4 DEF CountOf
=============================================================================
