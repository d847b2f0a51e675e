----------------------------- MODULE IndexReads -----------------------------
(***************************************************************************)
(* The calls of index.c that only read, on any open index.  The record of  *)
(* one that holds the pairs l in a file of n blocks is                     *)
(*   Base(s, n, l)  whatever the keys: the cache is sound and whole        *)
(*                  (Live), the blocks that the treeKeys name are linked   *)
(*                  in that order and hold l (Listed);                     *)
(*   Good(s, n, l)  and in the order of their keys: no block is empty, and *)
(*                  each treeKey has the key of the first pair of its      *)
(*                  block (Keyed), the keys of l ascend (SortedBy), and    *)
(*                  numItems counts them.                                  *)
(* Where in l the pairs of each block are (Off), where the cursor is (At)  *)
(* and when it is lost (Drift); the steps of a scan (Stepped), the         *)
(* searches (Exact, Nearest) and the two ends (ReadAt).  A search needs    *)
(* all of Good: that the block the shell finds for a key is that of its    *)
(* first pair, or the one behind it.                                       *)
(***************************************************************************)
EXTENDS Index, BlockContents

-----------------------------------------------------------------------------
(* Where in the pairs of a shell the pairs of its blocks are.              *)

(* The first part of a sequence, cut.                                      *)
CutTwice(S, s, i, j) ==
  /\ SubSeq(s, 1, j) = SubSeq(s, 1, i) \o SubSeq(s, i + 1, j)
  /\ SubSeq(s, 1, i) \in Seq(S) /\ SubSeq(s, i + 1, j) \in Seq(S)
  /\ SubSeq(s, 1, j) \in Seq(S)
  /\ DOMAIN SubSeq(s, i + 1, j) = 1..j - i
  /\ \A k \in 1..j - i : SubSeq(s, i + 1, j)[k] = s[i + k]

LEMMA PrefixJoin ==
  ASSUME NEW S, NEW s \in Seq(S), NEW i \in 0..Len(s), NEW j \in i..Len(s)
  PROVE  CutTwice(S, s, i, j)
<1>1. Len(s) \in Nat
  BY LenProperties
<1>2. SubSeq(s, i + 1, j) \in Seq(S) /\ Len(SubSeq(s, i + 1, j)) = j - i
      /\ \A k \in 1..j - i : SubSeq(s, i + 1, j)[k] = s[i + k]
  <2>1. i + 1 \in 1..Len(s) + 1 /\ j \in (i + 1) - 1..Len(s) /\ j - (i + 1) + 1 = j - i
        /\ (i + 1) - 1 = i
    BY <1>1
  <2> QED BY <2>1, SubSeqFacts
<1>3. 1 \in 1..Len(s) + 1 /\ i \in 1 - 1..Len(s) /\ j \in 1 - 1..Len(s)
  BY <1>1
<1>4. SubSeq(s, 1, i) \in Seq(S) /\ SubSeq(s, 1, j) \in Seq(S)
  BY <1>3, SubSeqFacts
<1>5. SubSeq(s, 1, i) \o SubSeq(s, i + 1, j) = SubSeq(s, 1, j)
  BY <1>3, ConcatAdjacentSubSeq
<1>6. DOMAIN SubSeq(s, i + 1, j) = 1..j - i
  BY <1>2, LenProperties
<1> QED BY <1>2, <1>4, <1>5, <1>6 DEF CutTwice

(* The pairs of the blocks before the j-th.                                *)
Off(x, s, j) == Len(PairsIn(x, SubSeq(s, 1, j - 1)))

(* The number of pairs of block m.                                         *)
Many(x, m) == Len(Logical(x, m).list)

Join(x, s, i, j) ==
  /\ Off(x, s, i) \in Nat /\ Off(x, s, j) \in Nat
  /\ Len(PairsIn(x, SubSeq(s, i, j - 1))) \in Nat
  /\ Off(x, s, j) = Off(x, s, i) + Len(PairsIn(x, SubSeq(s, i, j - 1)))
  /\ PairsIn(x, SubSeq(s, 1, j - 1)) =
       PairsIn(x, SubSeq(s, 1, i - 1)) \o PairsIn(x, SubSeq(s, i, j - 1))
  /\ PairsIn(x, SubSeq(s, 1, i - 1)) \in Seq(Pairs)
  /\ PairsIn(x, SubSeq(s, i, j - 1)) \in Seq(Pairs)

LEMMA OffSplit ==
  ASSUME NEW n, NEW x, Ok(x, n), Sound(x), NEW s \in Seq(1..n - 1),
         NEW j \in 1..Len(s) + 1, NEW i \in 1..j
  PROVE  Join(x, s, i, j)
<1>1. Len(s) \in Nat /\ i - 1 \in 0..Len(s) /\ j - 1 \in i - 1..Len(s)
      /\ (i - 1) + 1 = i
  BY LenProperties
<1> DEFINE a == SubSeq(s, 1, i - 1)
           z == SubSeq(s, i, j - 1)
<1>2. a \in Seq(1..n - 1) /\ z \in Seq(1..n - 1) /\ SubSeq(s, 1, j - 1) = a \o z
  <2>1. CutTwice(1..n - 1, s, i - 1, j - 1)
    BY <1>1, PrefixJoin
  <2> QED BY <1>1, <2>1 DEF CutTwice
<1> HIDE DEF a, z
<1>3. PairsIn(x, a) \in Seq(Pairs) /\ PairsIn(x, z) \in Seq(Pairs)
  BY <1>2, PairsType
<1>4. PairsIn(x, SubSeq(s, 1, j - 1)) = PairsIn(x, a) \o PairsIn(x, z)
  <2>1. PairsIn(x, a \o z) = PairsIn(x, a) \o PairsIn(x, z)
    BY <1>2, PairsConcat
  <2> QED BY <1>2, <2>1
<1>5. Len(PairsIn(x, a) \o PairsIn(x, z)) = Len(PairsIn(x, a)) + Len(PairsIn(x, z))
  BY <1>3, ConcatProperties
<1>6. Len(PairsIn(x, a)) \in Nat /\ Len(PairsIn(x, z)) \in Nat
  BY <1>3, LenProperties
<1>7. Off(x, s, i) = Len(PairsIn(x, a))
      /\ Off(x, s, j) = Len(PairsIn(x, a) \o PairsIn(x, z))
  BY <1>4 DEF Off, a
<1>8. Off(x, s, i) + Len(PairsIn(x, z)) \in Nat
  BY <1>6, <1>7
<1> QED BY <1>3, <1>4, <1>5, <1>6, <1>7, <1>8 DEF a, z, Join

(* The pairs l of the shell s, block by block.                             *)
Spread(x, s, l) ==
  /\ Len(s) \in Nat /\ DOMAIN s = 1..Len(s)
  /\ l \in Seq(Pairs) /\ Len(l) \in Nat /\ DOMAIN l = 1..Len(l)
  /\ \A j \in 1..Len(s) + 1 : Off(x, s, j) \in 0..Len(l)
  /\ Off(x, s, 1) = 0 /\ Off(x, s, Len(s) + 1) = Len(l)
  /\ \A j \in 1..Len(s) : /\ Many(x, s[j]) \in Nat
                          /\ Logical(x, s[j]).list \in Seq(Pairs)
                          /\ Off(x, s, j + 1) = Off(x, s, j) + Many(x, s[j])
  /\ \A j \in 1..Len(s) + 1 : \A i \in 1..j : Off(x, s, i) <= Off(x, s, j)
  /\ \A j \in 1..Len(s) : \A q \in 1..Many(x, s[j]) :
       /\ Off(x, s, j) + q \in 1..Len(l)
       /\ l[Off(x, s, j) + q] = Logical(x, s[j]).list[q]

LEMMA OffFacts ==
  ASSUME NEW n, NEW x, Ok(x, n), Sound(x), NEW s \in Seq(1..n - 1), NEW l,
         PairsIn(x, s) = l
  PROVE  Spread(x, s, l)
<1>1. /\ n \in Nat \ {0} /\ Len(s) \in Nat /\ DOMAIN s = 1..Len(s)
      /\ \A i \in 1..Len(s) : s[i] \in 1..n - 1
  BY ShellFacts
<1>2. l \in Seq(Pairs)
  BY PairsType
<1>3. Len(l) \in Nat /\ DOMAIN l = 1..Len(l)
  BY <1>2, LenProperties
<1>4. Off(x, s, 1) = 0
  <2>1. SubSeq(s, 1, 1 - 1) = <<>>
    BY SubSeqEmpty
  <2> QED BY <2>1, PairsNone, EmptySeq DEF Off
<1>5. Off(x, s, Len(s) + 1) = Len(l)
  <2>1. SubSeq(s, 1, (Len(s) + 1) - 1) = s
    BY <1>1, SubSeqFull
  <2> QED BY <2>1 DEF Off
<1>6. \A j \in 1..Len(s) + 1 : \A i \in 1..j : Off(x, s, i) <= Off(x, s, j)
  <2>1. TAKE j \in 1..Len(s) + 1
  <2>2. TAKE i \in 1..j
  <2>3. /\ Off(x, s, i) \in Nat /\ Len(PairsIn(x, SubSeq(s, i, j - 1))) \in Nat
        /\ Off(x, s, j) = Off(x, s, i) + Len(PairsIn(x, SubSeq(s, i, j - 1)))
    <3>1. Join(x, s, i, j)
      BY OffSplit
    <3> QED BY <3>1 DEF Join
  <2> QED BY <2>3
<1>7. \A j \in 1..Len(s) + 1 : Off(x, s, j) \in 0..Len(l)
  <2>1. TAKE j \in 1..Len(s) + 1
  <2>2. j \in 1..j /\ j \in 1..Len(s) + 1 /\ Len(s) + 1 \in 1..Len(s) + 1
    BY <1>1
  <2>3. Off(x, s, j) \in Nat
    <3>1. Join(x, s, j, j)
      BY <2>2, OffSplit
    <3> QED BY <3>1 DEF Join
  <2>4. Off(x, s, j) <= Off(x, s, Len(s) + 1)
    BY <1>6, <2>2
  <2> QED BY <1>3, <1>5, <2>3, <2>4
<1>8. ASSUME NEW j \in 1..Len(s)
      PROVE  /\ Many(x, s[j]) \in Nat /\ Logical(x, s[j]).list \in Seq(Pairs)
             /\ Off(x, s, j + 1) = Off(x, s, j) + Many(x, s[j])
             /\ \A q \in 1..Many(x, s[j]) :
                  /\ Off(x, s, j) + q \in 1..Len(l)
                  /\ l[Off(x, s, j) + q] = Logical(x, s[j]).list[q]
  <2> DEFINE o == Off(x, s, j)
             w == Logical(x, s[j]).list
  <2>1. j \in 1..j + 1 /\ j + 1 \in 1..Len(s) + 1 /\ (j + 1) - 1 = j
        /\ Len(s) + 1 \in 1..Len(s) + 1 /\ j + 1 \in 1..Len(s) + 1
              /\ (Len(s) + 1) - 1 = Len(s)
    BY <1>1
  <2>2. s[j] \in 1..n - 1 /\ SubSeq(s, j, j) = <<s[j]>>
    <3>1. j \in 1..Len(s) + 1 /\ j \in j - 1..Len(s) /\ j - j + 1 = 1 /\ j - 1 + 1 = j
          /\ 1 \in 1..j - j + 1
      BY <1>1
    <3>6. SubSeq(s, j, j) \in Seq(1..n - 1) /\ Len(SubSeq(s, j, j)) = j - j + 1
          /\ \A k \in 1..j - j + 1 : SubSeq(s, j, j)[k] = s[j - 1 + k]
      BY <3>1, SubSeqFacts
    <3>2. SubSeq(s, j, j) \in Seq(1..n - 1) /\ Len(SubSeq(s, j, j)) = 1
          /\ SubSeq(s, j, j)[1] = s[j]
      BY <3>1, <3>6
    <3>3. s[j] \in 1..n - 1 /\ <<s[j]>> \in Seq(1..n - 1)
      BY <1>1
    <3>4. \A k \in 1..1 : SubSeq(s, j, j)[k] = <<s[j]>>[k]
      BY <3>2
    <3>5. Len(<<s[j]>>) = 1
      OBVIOUS
    <3> QED BY <3>2, <3>3, <3>4, <3>5, SeqEqual
  <2>3. PairsIn(x, <<s[j]>>) = w
    BY <2>2, PairsOne
  <2>4. /\ o \in Nat /\ Len(w) \in Nat /\ Off(x, s, j + 1) = o + Len(w)
        /\ PairsIn(x, SubSeq(s, 1, j)) = PairsIn(x, SubSeq(s, 1, j - 1)) \o w
        /\ PairsIn(x, SubSeq(s, 1, j - 1)) \in Seq(Pairs) /\ w \in Seq(Pairs)
    <3>1. /\ Off(x, s, j) \in Nat /\ Len(PairsIn(x, SubSeq(s, j, (j + 1) - 1))) \in Nat
          /\ Off(x, s, j + 1) = Off(x, s, j) + Len(PairsIn(x, SubSeq(s, j,
                (j + 1) - 1)))
          /\ PairsIn(x, SubSeq(s, 1, (j + 1) - 1)) =
               PairsIn(x, SubSeq(s, 1, j - 1)) \o PairsIn(x, SubSeq(s, j, (j + 1) - 1))
          /\ PairsIn(x, SubSeq(s, 1, j - 1)) \in Seq(Pairs)
          /\ PairsIn(x, SubSeq(s, j, (j + 1) - 1)) \in Seq(Pairs)
      <4>1. Join(x, s, j, j + 1)
        BY <2>1, OffSplit
      <4> QED BY <4>1 DEF Join
    <3> QED BY <2>1, <2>2, <2>3, <3>1
  <2>5. /\ l = PairsIn(x, SubSeq(s, 1, j)) \o PairsIn(x, SubSeq(s, j + 1, Len(s)))
        /\ PairsIn(x, SubSeq(s, 1, j)) \in Seq(Pairs)
        /\ PairsIn(x, SubSeq(s, j + 1, Len(s))) \in Seq(Pairs)
    <3>1. /\ PairsIn(x, SubSeq(s, 1, (Len(s) + 1) - 1)) =
                PairsIn(x, SubSeq(s, 1, (j + 1) - 1))
                      \o PairsIn(x, SubSeq(s, j + 1, (Len(s) + 1) - 1))
          /\ PairsIn(x, SubSeq(s, 1, (j + 1) - 1)) \in Seq(Pairs)
          /\ PairsIn(x, SubSeq(s, j + 1, (Len(s) + 1) - 1)) \in Seq(Pairs)
      <4>1. Len(s) + 1 \in 1..Len(s) + 1 /\ j + 1 \in 1..(Len(s) + 1)
        BY <2>1
      <4>2. Join(x, s, j + 1, Len(s) + 1)
        BY <4>1, OffSplit
      <4> QED BY <4>2 DEF Join
    <3>2. SubSeq(s, 1, Len(s)) = s
      BY SubSeqFull
    <3> QED BY <2>1, <3>1, <3>2
  <2> DEFINE a == PairsIn(x, SubSeq(s, 1, j - 1))
             b == PairsIn(x, SubSeq(s, 1, j))
             z == PairsIn(x, SubSeq(s, j + 1, Len(s)))
  <2>6. Len(a) = o
    BY DEF Off
  <2> HIDE DEF a, b, z, o, w
  <2>7. b \in Seq(Pairs) /\ Len(b) = o + Len(w)
        /\ \A k \in 1..o + Len(w) : b[k] = IF k <= o THEN a[k] ELSE w[k - o]
    BY <2>4, <2>6, ConcatProperties DEF a, b
  <2>8. Len(l) = Len(b) + Len(z) /\ Len(z) \in Nat
        /\ \A k \in 1..Len(b) + Len(z) : l[k]
              = IF k <= Len(b) THEN b[k] ELSE z[k - Len(b)]
    BY <2>5, ConcatProperties, LenProperties DEF b, z
  <2>9. ASSUME NEW q \in 1..Len(w)
        PROVE  o + q \in 1..Len(l) /\ l[o + q] = w[q]
    <3>1. /\ o + q \in 1..o + Len(w) /\ o + q <= o + Len(w) /\ ~(o + q <= o)
          /\ (o + q) - o = q /\ o + q \in 1..Len(l) /\ o + q \in 1..Len(b) + Len(z)
      BY <2>4, <2>7, <2>8
    <3>2. l[o + q] = b[o + q]
      BY <2>7, <2>8, <3>1
    <3>3. b[o + q] = w[(o + q) - o]
      BY <2>7, <3>1
    <3> QED BY <3>1, <3>2, <3>3
  <2> QED BY <2>4, <2>9 DEF Many, o, w
<1> QED BY <1>1, <1>2, <1>3, <1>4, <1>5, <1>6, <1>7, <1>8 DEF Spread

(* Every position is in one of the blocks.                                 *)
LEMMA OffFind ==
  ASSUME NEW x, NEW s, NEW l, Spread(x, s, l), NEW p \in 1..Len(l)
  PROVE  \E j \in 1..Len(s) : \E q \in 1..Many(x, s[j]) : p = Off(x, s, j) + q
<1> DEFINE T == {j \in 1..Len(s) + 1 : p <= Off(x, s, j)}
<1>1. /\ Len(s) \in Nat /\ Len(l) \in Nat /\ p \in Nat
      /\ \A j \in 1..Len(s) + 1 : Off(x, s, j) \in Nat
  BY DEF Spread
<1>2. T \in SUBSET Nat /\ Len(s) + 1 \in T
  BY <1>1 DEF Spread
<1>3. PICK k \in T : \A m \in T : ~(m < k)
  BY <1>2, LeastNumber
<1>4. k \in 1..Len(s) + 1 /\ p <= Off(x, s, k)
  OBVIOUS
<1>5. k # 1
  BY <1>1, <1>4 DEF Spread
<1> DEFINE j == k - 1
<1>6. j \in 1..Len(s) /\ j + 1 = k /\ j \in 1..Len(s) + 1 /\ j < k
  BY <1>1, <1>4, <1>5
<1>7. Off(x, s, j) < p
  <2>1. j \notin T
    BY <1>3, <1>6
  <2> HIDE DEF j
  <2> QED BY <1>1, <1>6, <2>1
<1> HIDE DEF j, T
<1>8. Off(x, s, k) = Off(x, s, j) + Many(x, s[j]) /\ Many(x, s[j]) \in Nat
  BY <1>6 DEF Spread
<1>9. p - Off(x, s, j) \in 1..Many(x, s[j]) /\ p = Off(x, s, j) + (p - Off(x, s, j))
  BY <1>1, <1>4, <1>6, <1>7, <1>8
<1> QED BY <1>6, <1>9

-----------------------------------------------------------------------------
(* As many blocks with as many pairs take up as much room.                 *)
SameRun(x, s, i, y, t, k, d) ==
  Off(x, s, i + d) - Off(x, s, i) = Off(y, t, k + d) - Off(y, t, k)

LEMMA OffRuns ==
  ASSUME NEW x, NEW s, NEW l, Spread(x, s, l), NEW y, NEW t, NEW m, Spread(y, t, m),
         NEW i \in 1..Len(s) + 1, NEW k \in 1..Len(t) + 1, NEW d \in Nat,
         i + d <= Len(s) + 1, k + d <= Len(t) + 1,
         \A e \in 0..d - 1 : Many(y, t[k + e]) = Many(x, s[i + e])
  PROVE  SameRun(x, s, i, y, t, k, d)
<1> DEFINE T == {e \in Nat : e <= d
      => Off(x, s, i + e) - Off(x, s, i) = Off(y, t, k + e) - Off(y, t, k)}
<1>1. /\ Len(s) \in Nat /\ Len(t) \in Nat
      /\ \A j \in 1..Len(s) + 1 : Off(x, s, j) \in Nat
      /\ \A j \in 1..Len(t) + 1 : Off(y, t, j) \in Nat
      /\ \A j \in 1..Len(s) : Many(x, s[j]) \in Nat
            /\ Off(x, s, j + 1) = Off(x, s, j) + Many(x, s[j])
      /\ \A j \in 1..Len(t) : Many(y, t[j]) \in Nat
            /\ Off(y, t, j + 1) = Off(y, t, j) + Many(y, t[j])
  BY DEF Spread
<1>2. 0 \in T
  <2>1. i + 0 = i /\ k + 0 = k
    BY <1>1
  <2> QED BY <1>1, <2>1
<1>3. ASSUME NEW e \in Nat, e \in T PROVE e + 1 \in T
  <2>1. SUFFICES ASSUME e + 1 <= d
                 PROVE  Off(x, s, i + (e + 1)) - Off(x, s, i)
                       = Off(y, t, k + (e + 1)) - Off(y, t, k)
    OBVIOUS
  <2>2. /\ e <= d /\ e \in 0..d - 1 /\ i + e \in 1..Len(s) /\ k + e \in 1..Len(t)
        /\ i + (e + 1) = (i + e) + 1 /\ k + (e + 1) = (k + e) + 1
        /\ i + e \in 1..Len(s) + 1 /\ k + e \in 1..Len(t) + 1
    BY <1>1, <2>1
  <2>3. Off(x, s, i + e) - Off(x, s, i) = Off(y, t, k + e) - Off(y, t, k)
    BY <1>3, <2>2
  <2>4. /\ Off(x, s, (i + e) + 1) = Off(x, s, i + e) + Many(x, s[i + e])
        /\ Off(y, t, (k + e) + 1) = Off(y, t, k + e) + Many(x, s[i + e])
        /\ Many(x, s[i + e]) \in Nat
    BY <1>1, <2>2
  <2>5. /\ Off(x, s, i + e) \in Nat /\ Off(x, s, i) \in Nat
        /\ Off(y, t, k + e) \in Nat /\ Off(y, t, k) \in Nat
    BY <1>1, <2>2
  <2>6. /\ Off(x, s, i + (e + 1)) = Off(x, s, i + e) + Many(x, s[i + e])
        /\ Off(y, t, k + (e + 1)) = Off(y, t, k + e) + Many(x, s[i + e])
    BY <2>2, <2>4
  <2> DEFINE p == Off(x, s, i + e)
             q == Off(y, t, k + e)
             u == Off(x, s, i)
             v == Off(y, t, k)
             w == Many(x, s[i + e])
  <2>7. /\ p \in Nat /\ q \in Nat /\ u \in Nat /\ v \in Nat /\ w \in Nat
        /\ p - u = q - v
        /\ Off(x, s, i + (e + 1)) = p + w /\ Off(y, t, k + (e + 1)) = q + w
    BY <2>3, <2>4, <2>5, <2>6
  <2> HIDE DEF p, q, u, v, w
  <2>8. (p + w) - u = (q + w) - v
    BY <2>7
  <2> QED BY <2>7, <2>8 DEF u, v
<1>4. d \in T
  <2> HIDE DEF T
  <2>1. Nat \subseteq T
    BY <1>2, <1>3, NumberInduction
  <2> QED BY <2>1
<1> QED BY <1>4 DEF SameRun

(* The blocks up to the i-th.                                              *)
LEMMA OffPrefix ==
  ASSUME NEW x, NEW s, NEW l, Spread(x, s, l), NEW y, NEW t, NEW m, Spread(y, t, m),
         NEW i \in 1..Len(s) + 1, i <= Len(t) + 1,
         \A e \in 1..i - 1 : Many(y, t[e]) = Many(x, s[e])
  PROVE  Off(y, t, i) = Off(x, s, i)
<1>1. /\ Len(s) \in Nat /\ Len(t) \in Nat
      /\ \A j \in 1..Len(s) + 1 : Off(x, s, j) \in Nat
      /\ \A j \in 1..Len(t) + 1 : Off(y, t, j) \in Nat
      /\ Off(x, s, 1) = 0 /\ Off(y, t, 1) = 0
  BY DEF Spread
<1> DEFINE d == i - 1
<1>2. /\ d \in Nat /\ 1 + d = i /\ 1 \in 1..Len(s) + 1 /\ 1 \in 1..Len(t) + 1
      /\ 1 + d <= Len(s) + 1 /\ 1 + d <= Len(t) + 1 /\ i \in 1..Len(t) + 1
      /\ \A e \in 0..d - 1 : 1 + e \in 1..i - 1
  BY <1>1
<1>3. \A e \in 0..d - 1 : Many(y, t[1 + e]) = Many(x, s[1 + e])
  BY <1>2
<1> HIDE DEF d
<1>4. Off(x, s, 1 + d) - Off(x, s, 1) = Off(y, t, 1 + d) - Off(y, t, 1)
  <2>1. SameRun(x, s, 1, y, t, 1, d)
    BY <1>2, <1>3, OffRuns
  <2> QED BY <2>1 DEF SameRun
<1>5. Off(x, s, i) - 0 = Off(y, t, i) - 0
  BY <1>1, <1>2, <1>4
<1>6. Off(x, s, i) \in Nat /\ Off(y, t, i) \in Nat
  BY <1>1, <1>2
<1> QED BY <1>5, <1>6

(* The blocks between the i-th and the j-th, which are a places on in t.   *)
ShiftedRun(x, s, y, t, a, i, j) ==
  Off(y, t, j + a) = Off(y, t, i + a) + (Off(x, s, j) - Off(x, s, i))

LEMMA OffSuffix ==
  ASSUME NEW x, NEW s, NEW l, Spread(x, s, l), NEW y, NEW t, NEW m, Spread(y, t, m),
         NEW a \in {0, 1}, Len(t) = Len(s) + a,
         NEW i \in 1..Len(s) + 1, NEW j \in i..Len(s) + 1,
         \A e \in i..j - 1 : Many(y, t[e + a]) = Many(x, s[e])
  PROVE  ShiftedRun(x, s, y, t, a, i, j)
<1>1. /\ Len(s) \in Nat /\ Len(t) \in Nat
      /\ \A k \in 1..Len(s) + 1 : Off(x, s, k) \in Nat
      /\ \A k \in 1..Len(t) + 1 : Off(y, t, k) \in Nat
  BY DEF Spread
<1> DEFINE d == j - i
           k == i + a
<1>2. /\ d \in Nat /\ i + d = j /\ k \in 1..Len(t) + 1 /\ k + d = j + a
      /\ i + d <= Len(s) + 1 /\ k + d <= Len(t) + 1
      /\ \A e \in 0..d - 1 : i + e \in i..j - 1 /\ k + e = (i + e) + a
      /\ j \in 1..Len(s) + 1 /\ j + a \in 1..Len(t) + 1
  BY <1>1
<1>3. \A e \in 0..d - 1 : Many(y, t[k + e]) = Many(x, s[i + e])
  BY <1>2
<1> HIDE DEF d, k
<1>4. Off(x, s, i + d) - Off(x, s, i) = Off(y, t, k + d) - Off(y, t, k)
  <2>1. SameRun(x, s, i, y, t, k, d)
    BY <1>2, <1>3, OffRuns
  <2> QED BY <2>1 DEF SameRun
<1>5. Off(x, s, j) - Off(x, s, i) = Off(y, t, j + a) - Off(y, t, k)
  BY <1>2, <1>4
<1>6. Off(x, s, j) \in Nat /\ Off(x, s, i) \in Nat /\ Off(y, t, j + a) \in Nat
      /\ Off(y, t, k) \in Nat
  BY <1>1, <1>2
<1> QED BY <1>5, <1>6 DEF k, ShiftedRun

-----------------------------------------------------------------------------
(* Where the pairs are after a pair has been put into a block, and after a *)
(* split.                                                                  *)

LEMMA OffSame ==
  ASSUME NEW x, NEW s, NEW l, Spread(x, s, l), NEW y, Spread(y, s, l),
         \A e \in 1..Len(s) : Logical(y, s[e]).list = Logical(x, s[e]).list,
         NEW j \in 1..Len(s) + 1
  PROVE  Off(y, s, j) = Off(x, s, j)
<1>1. Len(s) \in Nat
  BY DEF Spread
<1>2. j <= Len(s) + 1 /\ \A e \in 1..j - 1 : e \in 1..Len(s)
  BY <1>1
<1>3. \A e \in 1..j - 1 : Many(y, s[e]) = Many(x, s[e])
  BY <1>2 DEF Many
<1> QED BY <1>2, <1>3, OffPrefix

(* The i-th block has a pairs more.                                        *)
LEMMA OffAltered ==
  ASSUME NEW x, NEW s, NEW l, Spread(x, s, l), NEW y, NEW m, Spread(y, s, m),
         NEW i \in 1..Len(s), NEW a \in Int,
         \A e \in 1..Len(s) : Many(y, s[e]) = Many(x, s[e]) + (IF e = i THEN a ELSE 0),
         NEW j \in 1..Len(s) + 1
  PROVE  Off(y, s, j) = Off(x, s, j) + (IF j <= i THEN 0 ELSE a)
<1>1. /\ Len(s) \in Nat
      /\ \A k \in 1..Len(s) + 1 : Off(x, s, k) \in Nat /\ Off(y, s, k) \in Nat
      /\ \A k \in 1..Len(s) : /\ Many(x, s[k]) \in Nat /\ Many(y, s[k]) \in Nat
                              /\ Off(x, s, k + 1) = Off(x, s, k) + Many(x, s[k])
                              /\ Off(y, s, k + 1) = Off(y, s, k) + Many(y, s[k])
  BY DEF Spread
<1>2. \A e \in 1..Len(s) : e # i => Many(y, s[e]) = Many(x, s[e])
  <2>1. TAKE e \in 1..Len(s)
  <2>2. HAVE e # i
  <2>3. Many(y, s[e]) = Many(x, s[e]) + 0
    BY <2>2
  <2> QED BY <1>1, <2>3
<1>3. ASSUME NEW k \in 1..Len(s) + 1, k <= i PROVE Off(y, s, k) = Off(x, s, k)
  <2>1. k <= Len(s) + 1 /\ \A e \in 1..k - 1 : e \in 1..Len(s) /\ e # i
    BY <1>1, <1>3
  <2>2. \A e \in 1..k - 1 : Many(y, s[e]) = Many(x, s[e])
    BY <1>2, <2>1
  <2> QED BY <2>1, <2>2, OffPrefix
<1>4. CASE j <= i
  <2>1. Off(y, s, j) = Off(x, s, j)
    BY <1>3, <1>4
  <2>2. Off(x, s, j) + 0 = Off(x, s, j)
    BY <1>1
  <2> QED BY <1>4, <2>1, <2>2
<1>5. CASE ~(j <= i)
  <2>1. /\ i \in 1..Len(s) + 1 /\ i <= i /\ i + 1 \in 1..Len(s) + 1
        /\ j \in i + 1..Len(s) + 1
        /\ \A e \in i + 1..j - 1 : e \in 1..Len(s) /\ e # i /\ e + 0 = e
        /\ j + 0 = j /\ (i + 1) + 0 = i + 1 /\ Len(s) = Len(s) + 0
    BY <1>1, <1>5
  <2>2. \A e \in i + 1..j - 1 : Many(y, s[e + 0]) = Many(x, s[e])
    BY <1>2, <2>1
  <2> DEFINE i2 == i + 1
  <2>3. /\ i2 \in 1..Len(s) + 1 /\ j \in i2..Len(s) + 1 /\ 0 \in {0, 1}
        /\ \A e \in i2..j - 1 : Many(y, s[e + 0]) = Many(x, s[e])
    BY <2>1, <2>2
  <2> HIDE DEF i2
  <2>11. ShiftedRun(x, s, y, s, 0, i2, j)
    BY <2>1, <2>3, OffSuffix
  <2>4. Off(y, s, j + 0) = Off(y, s, i2 + 0) + (Off(x, s, j) - Off(x, s, i2))
    BY <2>11 DEF ShiftedRun
  <2>5. Off(y, s, j) = Off(y, s, i + 1) + (Off(x, s, j) - Off(x, s, i + 1))
    BY <2>1, <2>4 DEF i2
  <2>6. Off(y, s, i) = Off(x, s, i)
    BY <1>3, <2>1
  <2>7. Off(x, s, i + 1) = Off(x, s, i) + Many(x, s[i])
        /\ Off(y, s, i + 1) = Off(y, s, i) + Many(y, s[i])
    BY <1>1
  <2>8. Many(y, s[i]) = Many(x, s[i]) + a
    OBVIOUS
  <2> DEFINE u == Off(x, s, i)
             v == Off(x, s, j)
             w == Many(x, s[i])
             z == Off(y, s, j)
  <2>9. u \in Nat /\ v \in Nat /\ w \in Nat /\ z = (u + (w + a)) + (v - (u + w))
    BY <1>1, <2>1, <2>5, <2>6, <2>7, <2>8
  <2> HIDE DEF u, v, w, z
  <2>10. z = v + a
    BY <2>9
  <2> QED BY <1>5, <2>10 DEF v, z
<1> QED BY <1>4, <1>5

(* From s to t the i-th block has given some pairs to a new one behind it. *)
TwoFromOne(x, s, y, t, i) ==
  /\ i \in 1..Len(s) /\ Len(t) = Len(s) + 1
  /\ \A e \in 1..Len(s) : e < i => Many(y, t[e]) = Many(x, s[e])
  /\ Many(y, t[i]) + Many(y, t[i + 1]) = Many(x, s[i])
  /\ \A e \in 1..Len(s) : e > i => Many(y, t[e + 1]) = Many(x, s[e])

LEMMA OffDivided ==
  ASSUME NEW x, NEW s, NEW l, Spread(x, s, l), NEW y, NEW t, Spread(y, t, l),
         NEW i, TwoFromOne(x, s, y, t, i)
  PROVE  /\ \A j \in 1..i : Off(y, t, j) = Off(x, s, j)
         /\ \A j \in i + 1..Len(s) + 1 : Off(y, t, j + 1) = Off(x, s, j)
<1>0. /\ i \in 1..Len(s) /\ Len(t) = Len(s) + 1
      /\ \A e \in 1..Len(s) : e < i => Many(y, t[e]) = Many(x, s[e])
      /\ Many(y, t[i]) + Many(y, t[i + 1]) = Many(x, s[i])
      /\ \A e \in 1..Len(s) : e > i => Many(y, t[e + 1]) = Many(x, s[e])
  BY DEF TwoFromOne
<1>1. /\ Len(s) \in Nat
      /\ \A k \in 1..Len(s) + 1 : Off(x, s, k) \in Nat
      /\ \A k \in 1..Len(t) + 1 : Off(y, t, k) \in Nat
      /\ \A k \in 1..Len(s) : /\ Many(x, s[k]) \in Nat
                              /\ Off(x, s, k + 1) = Off(x, s, k) + Many(x, s[k])
      /\ \A k \in 1..Len(t) : /\ Many(y, t[k]) \in Nat
                              /\ Off(y, t, k + 1) = Off(y, t, k) + Many(y, t[k])
  <2>1. Len(s) \in Nat /\ \A k \in 1..Len(s) + 1 : Off(x, s, k) \in Nat BY DEF Spread
  <2>2. \A k \in 1..Len(t) + 1 : Off(y, t, k) \in Nat BY DEF Spread
  <2>3. \A k \in 1..Len(s) : /\ Many(x, s[k]) \in Nat
                            /\ Off(x, s, k + 1) = Off(x, s, k) + Many(x, s[k])
    BY DEF Spread
  <2>4. \A k \in 1..Len(t) : /\ Many(y, t[k]) \in Nat
                            /\ Off(y, t, k + 1) = Off(y, t, k) + Many(y, t[k])
    BY DEF Spread
  <2> QED BY <2>1, <2>2, <2>3, <2>4
<1> USE <1>0
<1>2. ASSUME NEW j \in 1..i PROVE Off(y, t, j) = Off(x, s, j)
  <2>1. /\ j \in 1..Len(s) + 1 /\ j <= Len(t) + 1
        /\ \A e \in 1..j - 1 : e \in 1..Len(s) /\ e < i
    BY <1>1
  <2>2. \A e \in 1..j - 1 : Many(y, t[e]) = Many(x, s[e])
    BY <2>1
  <2> QED BY <2>1, <2>2, OffPrefix
<1>3. ASSUME NEW j \in i + 1..Len(s) + 1 PROVE Off(y, t, j + 1) = Off(x, s, j)
  <2> DEFINE i2 == i + 1
  <2>1. /\ i2 \in 1..Len(s) + 1 /\ j \in i2..Len(s) + 1 /\ 1 \in {0, 1}
        /\ \A e \in i2..j - 1 : e \in 1..Len(s) /\ e > i
        /\ i2 + 1 = i + 2 /\ i \in 1..i /\ i \in 1..Len(t) /\ i + 1 \in 1..Len(t)
        /\ (i + 1) + 1 = i + 2 /\ j \in 1..Len(s) + 1 /\ i + 1 \in 1..Len(s) + 1
        /\ i \in 1..Len(s) + 1
    BY <1>1
  <2>2. \A e \in i2..j - 1 : Many(y, t[e + 1]) = Many(x, s[e])
    BY <2>1
  <2> HIDE DEF i2
  <2>8. ShiftedRun(x, s, y, t, 1, i2, j)
    BY <2>1, <2>2, OffSuffix
  <2>3. Off(y, t, j + 1) = Off(y, t, i2 + 1) + (Off(x, s, j) - Off(x, s, i2))
    BY <2>8 DEF ShiftedRun
  <2>4. Off(y, t, j + 1) = Off(y, t, i + 2) + (Off(x, s, j) - Off(x, s, i + 1))
    BY <2>1, <2>3 DEF i2
  <2>5. /\ Off(y, t, i) = Off(x, s, i)
        /\ Off(x, s, i + 1) = Off(x, s, i) + Many(x, s[i])
        /\ Off(y, t, i + 1) = Off(y, t, i) + Many(y, t[i])
        /\ Off(y, t, (i + 1) + 1) = Off(y, t, i + 1) + Many(y, t[i + 1])
    BY <1>1, <1>2, <2>1
  <2> DEFINE u == Off(x, s, i)
             v == Off(x, s, j)
             w == Many(x, s[i])
             z == Off(y, t, j + 1)
             a == Many(y, t[i])
             b == Many(y, t[i + 1])
  <2>6. /\ u \in Nat /\ v \in Nat /\ w \in Nat /\ a \in Nat /\ b \in Nat /\ a + b = w
        /\ z = ((u + a) + b) + (v - (u + w))
    BY <1>1, <2>1, <2>4, <2>5
  <2> HIDE DEF u, v, w, z, a, b
  <2>7. z = v
    BY <2>6
  <2> QED BY <2>7 DEF v, z
<1> QED BY <1>2, <1>3

-----------------------------------------------------------------------------
(* Every buffer is in use or free.                                         *)
LEMMA Whole ==
  ASSUME NEW n, NEW x, Live(x, n), NEW b \in Buffers
  PROVE  b \in InUse(x) \/ b \in InFree(x)
<1> DEFINE N == BLOCK_CACHE_SIZE
           u == Len(x.used)
           v == Len(x.free)
<1>1. /\ Ok(x, n) /\ Sound(x) /\ v + u = N
      /\ x.free \in Seq(Buffers) /\ x.used \in Seq(Buffers) /\ N \in Nat
            /\ Buffers = 1..N
  BY CacheSizeAssumption DEF Live, Ok, BlockFile, Size, Buffers
<1>2. u \in Nat /\ v \in Nat /\ DOMAIN x.used = 1..u /\ DOMAIN x.free = 1..v
  BY <1>1, LenProperties
<1>3. \A i \in 1..u : x.used[i] \in Buffers
  BY <1>1, <1>2
<1>4. \A i \in 1..v : x.free[i] \in Buffers
  BY <1>1, <1>2
<1>0. /\ \A a, d \in 1..v : x.free[a] = x.free[d] => a = d
      /\ \A a, d \in 1..u : x.used[a] = x.used[d] => a = d
      /\ \A a \in 1..v, d \in 1..u : x.free[a] # x.used[d]
  BY <1>1, <1>2 DEF Sound, Distinct, Disjoint
<1>13. InUse(x) = {x.used[i] : i \in 1..u} /\ InFree(x) = {x.free[i] : i \in 1..v}
  BY <1>2 DEF InUse, InFree, Range
<1> HIDE DEF u, v, N
<1>14. /\ \A i \in 1..N : i <= u => i \in 1..u
       /\ \A i \in 1..N : ~(i <= u) => i - u \in 1..v
  BY <1>1, <1>2
<1> DEFINE f == [i \in 1..N |-> IF i <= u THEN x.used[i] ELSE x.free[i - u]]
<1>5. f \in [1..N -> Buffers]
  BY <1>14, <1>3, <1>4
<1>15. \A i \in 1..N : f[i] = IF i <= u THEN x.used[i] ELSE x.free[i - u]
  OBVIOUS
<1> HIDE DEF f
<1>6. ASSUME NEW i \in 1..N, NEW j \in 1..N, f[i] = f[j] PROVE i = j
  <2>1. CASE i <= u /\ j <= u
    BY <1>0, <1>6, <1>14, <1>15, <2>1
  <2>2. CASE i <= u /\ ~(j <= u)
    <3>1. x.used[i] = x.free[j - u] /\ i \in 1..u /\ j - u \in 1..v
      BY <1>6, <1>14, <1>15, <2>2
    <3> QED BY <1>0, <3>1
  <2>3. CASE ~(i <= u) /\ j <= u
    <3>1. x.used[j] = x.free[i - u] /\ j \in 1..u /\ i - u \in 1..v
      BY <1>6, <1>14, <1>15, <2>3
    <3> QED BY <1>0, <3>1
  <2>4. CASE ~(i <= u) /\ ~(j <= u)
    <3>1. x.free[i - u] = x.free[j - u] /\ i - u \in 1..v /\ j - u \in 1..v
      BY <1>6, <1>14, <1>15, <2>4
    <3>2. i - u = j - u
      BY <1>0, <3>1
    <3> QED BY <1>1, <1>2, <3>2
  <2> QED BY <2>1, <2>2, <2>3, <2>4
<1>7. f \in Injection(1..N, 1..N)
  BY <1>1, <1>5, <1>6 DEF Injection, IsInjective
<1>8. IsFiniteSet(1..N)
  BY <1>1, FS_Interval
<1>9. f \in Surjection(1..N, 1..N)
  BY <1>7, <1>8, FS_Injection
<1>10. PICK i \in 1..N : f[i] = b
  BY <1>1, <1>9 DEF Surjection
<1>11. CASE i <= u
  BY <1>10, <1>11, <1>13, <1>14, <1>15
<1>12. CASE ~(i <= u)
  <2>1. i - u \in 1..v /\ b = x.free[i - u]
    BY <1>10, <1>12, <1>14, <1>15
  <2> QED BY <1>13, <2>1
<1> QED BY <1>11, <1>12

(* A buffer with the number of a block has that block.                     *)
LEMMA InPlace ==
  ASSUME NEW n, NEW x, Live(x, n), NEW b \in Buffers, x.buf[b].blockNumber # 0
  PROVE  /\ b \in InUse(x) /\ Logical(x, x.buf[b].blockNumber) = View(x.buf[b])
         /\ Logical(x, x.buf[b].blockNumber).list = x.buf[b].list
         /\ Logical(x, x.buf[b].blockNumber).prevBlock = x.buf[b].img.prevBlock
         /\ Logical(x, x.buf[b].blockNumber).nextBlock = x.buf[b].img.nextBlock
         /\ \A d \in Buffers : x.buf[d].blockNumber = x.buf[b].blockNumber => d = b
<1>1. Ok(x, n) /\ Sound(x) /\ Blank(x)
  BY DEF Live, Alive
<1>2. \A d \in Buffers : x.buf[d].blockNumber # 0 => d \in InUse(x)
  BY <1>1, Whole DEF Blank
<1>3. /\ Logical(x, x.buf[b].blockNumber) = View(x.buf[b])
      /\ \A d \in InUse(x) : x.buf[d].blockNumber = x.buf[b].blockNumber => d = b
  BY <1>1, <1>2, HeldBlock
<1> QED BY <1>2, <1>3 DEF View

-----------------------------------------------------------------------------
(* The first pair with key k of a list, and the pair ki.                   *)
FirstAt(l, p, S) ==
  \/ p = 0 /\ \A q \in 1..Len(l) : l[q] \notin S
  \/ p \in 1..Len(l) /\ l[p] \in S /\ \A q \in 1..Len(l) : l[q] \in S => p <= q

LEMMA KeyPosFacts ==
  ASSUME NEW l \in Seq(Pairs), NEW k
  PROVE  FirstAt(l, KeyPos(l, k), {e \in Pairs : e.key = k})
<1> DEFINE I == {i \in 1..Len(l) : l[i].key = k}
<1>1. KeyPos(l, k) = IF I # {} THEN Min(I) ELSE 0
  BY DEF KeyPos, SelectInSeq
<1>2. Len(l) \in Nat /\ \A q \in 1..Len(l) : l[q] \in Pairs
  BY LenProperties
<1>3. I \in SUBSET Nat
  BY <1>2
<1>4. CASE I = {}
  BY <1>1, <1>2, <1>4 DEF FirstAt
<1>5. CASE I # {}
  <2>1. Min(I) \in I /\ \A y \in I : Min(I) <= y
    <3> HIDE DEF I
    <3> QED BY <1>3, <1>5, MinOfSome
  <2> QED BY <1>1, <1>2, <1>5, <2>1 DEF FirstAt
<1> QED BY <1>4, <1>5

LEMMA PairPosFacts ==
  ASSUME NEW l \in Seq(Pairs), NEW ki
  PROVE  FirstAt(l, PairPos(l, ki), {ki})
<1> DEFINE I == {i \in 1..Len(l) : l[i] = ki}
<1>1. PairPos(l, ki) = IF I # {} THEN Min(I) ELSE 0
  BY DEF PairPos, SelectInSeq
<1>2. Len(l) \in Nat
  BY LenProperties
<1>3. I \in SUBSET Nat
  BY <1>2
<1>4. CASE I = {}
  BY <1>1, <1>2, <1>4 DEF FirstAt
<1>5. CASE I # {}
  <2>1. Min(I) \in I /\ \A y \in I : Min(I) <= y
    <3> HIDE DEF I
    <3> QED BY <1>3, <1>5, MinOfSome
  <2> QED BY <1>1, <1>2, <1>5, <2>1 DEF FirstAt
<1> QED BY <1>4, <1>5

(* Where a number is in a sequence without doubles.                        *)
LEMMA PlaceOf ==
  ASSUME NEW s, Len(s) \in Nat, NEW m
  PROVE  LET i == SelectInSeq(s, LAMBDA n : n = m)
         IN \/ i = 0 /\ \A j \in 1..Len(s) : s[j] # m
            \/ i \in 1..Len(s) /\ s[i] = m
<1> DEFINE I == {i \in 1..Len(s) : s[i] = m}
<1>1. SelectInSeq(s, LAMBDA n : n = m) = IF I # {} THEN Min(I) ELSE 0
  BY DEF SelectInSeq
<1>3. I \in SUBSET Nat
  OBVIOUS
<1>4. CASE I = {}
  BY <1>1, <1>4
<1>5. CASE I # {}
  <2>1. Min(I) \in I
    <3> HIDE DEF I
    <3> QED BY <1>3, <1>5, MinOfSome
  <2> QED BY <1>1, <1>5, <2>1
<1> QED BY <1>4, <1>5

-----------------------------------------------------------------------------
(* An open index.                                                          *)
Flds == {"cache", "isUnique", "shell", "hasShell", "numItems", "idxError", "shlError",
         "current", "isSequential", "bof", "eof", "ret"}
Rec(s) == s = [f \in Flds |-> s[f]]

TreeKeys(n) == [key : Nat, item : 1..n - 1]

(* s is the record of an open index that holds the pairs l in a file of n  *)
(* blocks; nothing is said of the keys.                                    *)
Base(s, n, l) ==
  /\ Rec(s) /\ Live(s.cache, n)
  /\ s.shell \in Seq(TreeKeys(n))
  /\ Listed(s.cache, BlocksOf(s), l)
  /\ s.current \in Buffers \cup {NULL} /\ s.isSequential \in BOOLEAN

(* The pairs of the block of treeKey j, and the number of pairs before it. *)
ListAt(s, j) == Logical(s.cache, s.shell[j].item).list
O(s, j)      == Off(s.cache, BlocksOf(s), j)

(* The treeKeys.                                                           *)
Named(s, n) ==
  /\ Len(s.shell) \in Nat /\ DOMAIN s.shell = 1..Len(s.shell)
  /\ BlocksOf(s) \in Seq(1..n - 1) /\ Len(BlocksOf(s)) = Len(s.shell)
  /\ DOMAIN BlocksOf(s) = 1..Len(s.shell)
  /\ \A j \in 1..Len(s.shell) :
       /\ s.shell[j] \in TreeKeys(n) /\ s.shell[j].key \in Nat
       /\ s.shell[j].item \in 1..n - 1 /\ BlocksOf(s)[j] = s.shell[j].item
       /\ s.shell[j].item # 0 /\ s.shell[j].item \in 0..n - 1

LEMMA NamedFacts ==
  ASSUME NEW n, NEW s, s.shell \in Seq(TreeKeys(n)), n \in Nat \ {0}
  PROVE  Named(s, n)
<1>1. Len(s.shell) \in Nat /\ DOMAIN s.shell = 1..Len(s.shell)
  BY LenProperties
<1>2. \A j \in 1..Len(s.shell) :
        /\ s.shell[j] \in TreeKeys(n) /\ s.shell[j].key \in Nat
        /\ s.shell[j].item \in 1..n - 1 /\ s.shell[j].item # 0
              /\ s.shell[j].item \in 0..n - 1
  <2>1. TAKE j \in 1..Len(s.shell)
  <2>2. s.shell[j] \in TreeKeys(n)
    BY <1>1
  <2>3. s.shell[j].key \in Nat /\ s.shell[j].item \in 1..n - 1
    BY <2>2 DEF TreeKeys
  <2> QED BY <2>2, <2>3
<1> DEFINE t == BlocksOf(s)
<1>3. t = [j \in 1..Len(s.shell) |-> s.shell[j].item]
  BY <1>1 DEF BlocksOf
<1> HIDE DEF t
<1>4. t \in Seq(1..n - 1) /\ Len(t) = Len(s.shell) /\ DOMAIN t = 1..Len(s.shell)
  BY <1>1, <1>2, <1>3
<1>5. \A j \in 1..Len(s.shell) : t[j] = s.shell[j].item
  BY <1>3
<1> QED BY <1>1, <1>2, <1>4, <1>5 DEF Named, t

(* Where the pairs of the index are.                                       *)
Laid(s, l) ==
  /\ l \in Seq(Pairs) /\ Len(l) \in Nat /\ DOMAIN l = 1..Len(l)
  /\ \A j \in 1..Len(s.shell) + 1 : O(s, j) \in 0..Len(l)
  /\ O(s, 1) = 0 /\ O(s, Len(s.shell) + 1) = Len(l)
  /\ \A j \in 1..Len(s.shell) :
       /\ Len(ListAt(s, j)) \in Nat /\ ListAt(s, j) \in Seq(Pairs)
       /\ DOMAIN ListAt(s, j) = 1..Len(ListAt(s, j))
       /\ O(s, j + 1) = O(s, j) + Len(ListAt(s, j))
       /\ \A q \in 1..Len(ListAt(s, j)) :
            O(s, j) + q \in 1..Len(l) /\ l[O(s, j) + q] = ListAt(s, j)[q]
  /\ \A j \in 1..Len(s.shell) + 1 : \A i \in 1..j : O(s, i) <= O(s, j)
  /\ \A p \in 1..Len(l) : \E j \in 1..Len(s.shell) :
       \E q \in 1..Len(ListAt(s, j)) : p = O(s, j) + q
  /\ \A i, j \in 1..Len(s.shell) : s.shell[i].item = s.shell[j].item => i = j

LEMMA BaseFacts ==
  ASSUME NEW s, NEW n, NEW l, Base(s, n, l)
  PROVE  /\ Named(s, n) /\ Laid(s, l) /\ Spread(s.cache, BlocksOf(s), l)
         /\ Ok(s.cache, n) /\ Sound(s.cache) /\ n \in Nat \ {0} /\ Live(s.cache, n)
         /\ Distinct(BlocksOf(s)) /\ PairsOf(s) = l
<1>1. Live(s.cache, n) /\ Ok(s.cache, n) /\ Sound(s.cache)
  BY DEF Base, Live
<1>2. n \in Nat \ {0}
  BY <1>1 DEF Ok
<1>3. Named(s, n)
  BY <1>2, NamedFacts DEF Base
<1>4. Distinct(BlocksOf(s)) /\ PairsIn(s.cache, BlocksOf(s)) = l
  BY DEF Base, Listed
<1> DEFINE b == BlocksOf(s)
<1>5. b \in Seq(1..n - 1) /\ Len(b) = Len(s.shell) /\ Len(b) \in Nat
      /\ DOMAIN b = 1..Len(b)
      /\ \A j \in 1..Len(b) : b[j] = s.shell[j].item
  BY <1>3 DEF Named
<1> DEFINE x == s.cache
<1>6. Spread(x, b, l)
  <2> HIDE DEF b
  <2> QED BY <1>1, <1>4, <1>5, OffFacts DEF b
<1>7. \A p \in 1..Len(l) : \E j \in 1..Len(b) : \E q \in 1..Many(x, b[j]) : p
      = Off(x, b, j) + q
  BY <1>6, OffFind
<1>8. \A i, j \in 1..Len(b) : b[i] = b[j] => i = j
  BY <1>4, <1>5 DEF Distinct
<1>9. \A j \in 1..Len(b) : Many(x, b[j]) = Len(ListAt(s, j))
      /\ Logical(x, b[j]).list = ListAt(s, j)
  BY <1>5 DEF Many, ListAt
<1>10. \A j : O(s, j) = Off(x, b, j)
  BY DEF O
<1>11. \A j \in 1..Len(b) : ListAt(s, j) \in Seq(Pairs) /\ Len(ListAt(s, j)) \in Nat
         /\ DOMAIN ListAt(s, j) = 1..Len(ListAt(s, j))
  <2>1. TAKE j \in 1..Len(b)
  <2>2. ListAt(s, j) \in Seq(Pairs)
    BY <1>6, <1>9 DEF Spread
  <2> QED BY <2>2, LenProperties
<1>12. Laid(s, l)
  <2> HIDE DEF b, x
  <2>1. Len(s.shell) = Len(b)
    BY <1>5
  <2>2. /\ l \in Seq(Pairs) /\ Len(l) \in Nat /\ DOMAIN l = 1..Len(l)
        /\ \A j \in 1..Len(b) + 1 : O(s, j) \in 0..Len(l)
        /\ O(s, 1) = 0 /\ O(s, Len(b) + 1) = Len(l)
        /\ \A j \in 1..Len(b) + 1 : \A i \in 1..j : O(s, i) <= O(s, j)
    BY <1>6, <1>10 DEF Spread
  <2>3. ASSUME NEW j \in 1..Len(b)
        PROVE  /\ O(s, j + 1) = O(s, j) + Len(ListAt(s, j))
               /\ \A q \in 1..Len(ListAt(s, j)) :
                    O(s, j) + q \in 1..Len(l) /\ l[O(s, j) + q] = ListAt(s, j)[q]
    <3>1. /\ Off(x, b, j + 1) = Off(x, b, j) + Many(x, b[j])
          /\ \A q \in 1..Many(x, b[j]) :
               /\ Off(x, b, j) + q \in 1..Len(l)
               /\ l[Off(x, b, j) + q] = Logical(x, b[j]).list[q]
      BY <1>6 DEF Spread
    <3>2. /\ Many(x, b[j]) = Len(ListAt(s, j)) /\ Logical(x, b[j]).list = ListAt(s, j)
          /\ O(s, j + 1) = Off(x, b, j + 1) /\ O(s, j) = Off(x, b, j)
      BY <1>9, <1>10
    <3> QED BY <3>1, <3>2
  <2>4. \A p \in 1..Len(l) : \E j \in 1..Len(b) :
          \E q \in 1..Len(ListAt(s, j)) : p = O(s, j) + q
    BY <1>7, <1>9, <1>10
  <2>5. \A i, j \in 1..Len(b) : s.shell[i].item = s.shell[j].item => i = j
    BY <1>5, <1>8
  <2> QED BY <1>11, <2>1, <2>2, <2>3, <2>4, <2>5 DEF Laid
<1> QED BY <1>1, <1>2, <1>3, <1>4, <1>6, <1>12 DEF PairsOf
-----------------------------------------------------------------------------
(* The cursor.                                                             *)

(* It stands on position q of the block of treeKey j.                      *)
At(s, j, q) ==
  /\ s.isSequential /\ s.current \in Buffers
  /\ j \in 1..Len(s.shell)
  /\ s.cache.buf[s.current].blockNumber = s.shell[j].item
  /\ s.cache.buf[s.current].current = q /\ q \in 1..Len(ListAt(s, j))

LEMMA CursorAt ==
  ASSUME NEW s, NEW n, NEW l, Base(s, n, l), NEW j, NEW q, At(s, j, q)
  PROVE  /\ CursorOf(s) = O(s, j) + q /\ CursorOf(s) \in 1..Len(l)
         /\ l[CursorOf(s)] = ListAt(s, j)[q]
         /\ s.cache.buf[s.current].list = ListAt(s, j)
         /\ s.cache.buf[s.current].img.nextBlock = Behind(BlocksOf(s), j)
         /\ s.cache.buf[s.current].img.prevBlock = Before(BlocksOf(s), j)
         /\ s.current \in InUse(s.cache)
<1> DEFINE b == s.cache.buf[s.current]
           t == BlocksOf(s)
           i == SelectInSeq(t, LAMBDA m : m = b.blockNumber)
<1>1. Named(s, n) /\ Laid(s, l) /\ Live(s.cache, n)
  BY BaseFacts
<1>2. /\ s.isSequential /\ s.current \in Buffers /\ j \in 1..Len(s.shell)
      /\ b.blockNumber = s.shell[j].item /\ b.current = q /\ q \in 1..Len(ListAt(s, j))
  BY DEF At
<1>3. Len(t) \in Nat /\ Len(t) = Len(s.shell)
      /\ \A k \in 1..Len(t) : t[k] = s.shell[k].item
  BY <1>1 DEF Named
<1>4. \/ i = 0 /\ \A k \in 1..Len(t) : t[k] # b.blockNumber
      \/ i \in 1..Len(t) /\ t[i] = b.blockNumber
  <2> HIDE DEF b, t
  <2> QED BY <1>3, PlaceOf
<1>5. i = j
  <2> HIDE DEF i, b, t
  <2>1. i \in 1..Len(t) /\ t[i] = b.blockNumber
    BY <1>2, <1>3, <1>4
  <2> QED BY <1>1, <1>2, <1>3, <2>1 DEF Laid
<1>6. ~NoCursor(s) /\ ~(b.current <= 0 \/ i = 0) /\ b.current = q
  <2>1. s.shell # <<>>
    BY <1>1, <1>2 DEF Named
  <2>2. s.current # NULL
    BY <1>2, CacheNotEmpty
  <2>3. b.current # UNSET /\ ~(b.current <= 0)
    BY <1>1, <1>2 DEF Laid, UNSET
  <2>4. i # 0
    <3> HIDE DEF i
    <3> QED BY <1>2, <1>5
  <2> QED BY <1>2, <2>1, <2>2, <2>3, <2>4 DEF NoCursor
<1>7. CursorOf(s) = Len(PairsIn(s.cache, SubSeq(t, 1, i - 1))) + b.current
  <2>1. i = SelectInSeq(BlocksOf(s), LAMBDA m : m = s.cache.buf[s.current].blockNumber)
    OBVIOUS
  <2> HIDE DEF i
  <2> QED BY <1>2, <1>6, <2>1 DEF CursorOf
<1>8. CursorOf(s) = O(s, j) + q
  <2> HIDE DEF i, b
  <2> QED BY <1>5, <1>6, <1>7 DEF O, Off
<1>9. O(s, j) + q \in 1..Len(l) /\ l[O(s, j) + q] = ListAt(s, j)[q]
  BY <1>1, <1>2 DEF Laid
<1>10. b.blockNumber # 0
  <2> HIDE DEF b
  <2> QED BY <1>1, <1>2 DEF Named
<1>11. /\ s.current \in InUse(s.cache)
       /\ Logical(s.cache, b.blockNumber).list = b.list
       /\ Logical(s.cache, b.blockNumber).prevBlock = b.img.prevBlock
       /\ Logical(s.cache, b.blockNumber).nextBlock = b.img.nextBlock
  BY <1>1, <1>2, <1>10, InPlace
<1>12. Logical(s.cache, t[j]).prevBlock = Before(t, j)
      /\ Logical(s.cache, t[j]).nextBlock = Behind(t, j)
  <2>1. j \in DOMAIN t
    BY <1>1, <1>2 DEF Named
  <2> QED BY <2>1 DEF Base, Listed, Chain
<1>13. t[j] = b.blockNumber /\ b.list = ListAt(s, j)
  BY <1>2, <1>3, <1>11 DEF ListAt
<1> QED BY <1>8, <1>9, <1>11, <1>12, <1>13

LEMMA CursorNowhere ==
  ASSUME NEW s, NEW n, NEW l, Base(s, n, l)
  PROVE  /\ ~s.isSequential => CursorOf(s) = 0
         /\ s.isSequential /\ (\A j, q : ~At(s, j, q)) => CursorOf(s) = -1
<1>1. ~s.isSequential => CursorOf(s) = 0
  BY DEF CursorOf
<1>2. ASSUME s.isSequential, CursorOf(s) # -1 PROVE \E j, q : At(s, j, q)
  <2> DEFINE b == s.cache.buf[s.current]
             t == BlocksOf(s)
             i == SelectInSeq(t, LAMBDA m : m = b.blockNumber)
  <2>1. Named(s, n) /\ Laid(s, l) /\ Live(s.cache, n)
        /\ s.current \in Buffers \cup {NULL}
    BY BaseFacts DEF Base
  <2>2. ~NoCursor(s) /\ ~(b.current <= 0 \/ i = 0)
    <3>1. i = SelectInSeq(BlocksOf(s), LAMBDA m : m
          = s.cache.buf[s.current].blockNumber)
      OBVIOUS
    <3> HIDE DEF i
    <3> QED BY <1>2, <3>1 DEF CursorOf
  <2>3. s.current \in Buffers
    BY <2>1, <2>2 DEF NoCursor
  <2>4. Len(t) \in Nat /\ Len(t) = Len(s.shell)
        /\ \A k \in 1..Len(t) : t[k] = s.shell[k].item
    BY <2>1 DEF Named
  <2>5. \/ i = 0 /\ \A k \in 1..Len(t) : t[k] # b.blockNumber
        \/ i \in 1..Len(t) /\ t[i] = b.blockNumber
    <3> HIDE DEF b, t
    <3> QED BY <2>4, PlaceOf
  <2> HIDE DEF i
  <2>6. i \in 1..Len(s.shell) /\ s.shell[i].item = b.blockNumber
    BY <2>2, <2>4, <2>5
  <2>7. b.blockNumber # 0
    BY <2>1, <2>6 DEF Named
  <2>8. Logical(s.cache, b.blockNumber).list = b.list
    BY <2>1, <2>3, <2>7, InPlace
  <2>9. Within(b)
    BY <2>1, <2>3 DEF Live, Steady
  <2>10. b.current \in 1..Len(b.list)
    <3> HIDE DEF b
    <3>1. Len(b.list) \in Nat
      BY <2>1, <2>6, <2>8 DEF Laid, ListAt
    <3> QED BY <2>2, <2>9, <3>1 DEF Within, HEAD
  <2>11. At(s, i, b.current)
    BY <1>2, <2>3, <2>6, <2>8, <2>10 DEF At, ListAt
  <2> QED BY <2>11
<1> QED BY <1>1, <1>2

-----------------------------------------------------------------------------
(* A cursor is kept or lost.                                               *)
Drift(s, t) == CursorOf(t) = CursorOf(s) \/ (CursorOf(s) # 0 /\ CursorOf(t) = -1)

LEMMA DriftTrans ==
  ASSUME NEW s, NEW t, NEW u, Drift(s, t), Drift(t, u)
  PROVE  Drift(s, u)
BY DEF Drift

LEMMA CursorType ==
  ASSUME NEW s, NEW n, NEW l, Base(s, n, l)
  PROVE  /\ s.isSequential => CursorOf(s) \in 1..Len(l) \cup {-1}
         /\ ~s.isSequential => CursorOf(s) = 0
         /\ CursorOf(s) # 0 <=> s.isSequential
         /\ CursorOf(s) > 0 => \E j, q : At(s, j, q)
         /\ CursorOf(s) = -1 => \A j, q : ~At(s, j, q)
<1>1. Len(l) \in Nat
  BY BaseFacts DEF Laid
<1>2. ASSUME NEW j, NEW q, At(s, j, q) PROVE CursorOf(s) \in 1..Len(l) /\ s.isSequential
  BY <1>2, CursorAt DEF At
<1>3. ~s.isSequential => CursorOf(s) = 0
  BY CursorNowhere
<1>4. s.isSequential /\ (\A j, q : ~At(s, j, q)) => CursorOf(s) = -1
  BY CursorNowhere
<1>5. (\E j, q : At(s, j, q)) => CursorOf(s) \in 1..Len(l) /\ s.isSequential
  BY <1>2
<1>6. CASE \E j, q : At(s, j, q)
  BY <1>1, <1>5, <1>6
<1>7. CASE s.isSequential /\ (\A j, q : ~At(s, j, q))
  BY <1>4, <1>7
<1>8. CASE ~s.isSequential
  BY <1>3, <1>5, <1>8
<1> QED BY <1>6, <1>7, <1>8

LEMMA DriftBy ==
  ASSUME NEW s, NEW n, NEW l, Base(s, n, l), NEW t, NEW m, NEW k, Base(t, m, k),
         t.isSequential = s.isSequential,
         \A j, q : At(t, j, q) => \E i : At(s, i, q) /\ O(t, j) = O(s, i)
  PROVE  Drift(s, t)
<1>1. CASE ~s.isSequential
  BY <1>1, CursorType DEF Drift
<1>2. CASE s.isSequential /\ \A j, q : ~At(t, j, q)
  <2>1. CursorOf(t) = -1
    BY <1>2, CursorNowhere
  <2>2. CursorOf(s) # 0
    BY <1>2, CursorType
  <2> QED BY <2>1, <2>2 DEF Drift
<1>3. CASE \E j, q : At(t, j, q)
  <2>1. PICK j, q : At(t, j, q)
    BY <1>3
  <2>2. PICK i : At(s, i, q) /\ O(t, j) = O(s, i)
    BY <2>1
  <2>3. CursorOf(t) = O(t, j) + q
    BY <2>1, CursorAt
  <2>4. CursorOf(s) = O(s, i) + q
    BY <2>2, CursorAt
  <2> QED BY <2>2, <2>3, <2>4 DEF Drift
<1> QED BY <1>1, <1>2, <1>3

(* The same blocks with the same lists.                                    *)
LEMMA SamePlaces ==
  ASSUME NEW s, NEW n, NEW l, Base(s, n, l), NEW t, Base(t, n, l),
         BlocksOf(t) = BlocksOf(s), Same(s.cache, t.cache, n)
  PROVE  /\ Len(t.shell) = Len(s.shell)
         /\ \A j \in 1..Len(s.shell) : /\ t.shell[j].item = s.shell[j].item
                                       /\ ListAt(t, j) = ListAt(s, j)
         /\ \A j \in 1..Len(s.shell) + 1 : O(t, j) = O(s, j)
<1>1. /\ Named(s, n) /\ Spread(s.cache, BlocksOf(s), l) /\ Named(t, n)
      /\ Spread(t.cache, BlocksOf(s), l)
  BY BaseFacts
<1>2. Len(t.shell) = Len(s.shell) /\ Len(BlocksOf(s)) = Len(s.shell)
  BY <1>1 DEF Named
<1>3. \A j \in 1..Len(s.shell) : t.shell[j].item = s.shell[j].item
      /\ BlocksOf(s)[j] = s.shell[j].item
        /\ s.shell[j].item \in 1..n - 1
  BY <1>1, <1>2 DEF Named
<1>4. \A j \in 1..Len(s.shell) : Logical(t.cache, s.shell[j].item)
      = Logical(s.cache, s.shell[j].item)
  BY <1>3 DEF Same
<1>5. \A j \in 1..Len(s.shell) : ListAt(t, j) = ListAt(s, j)
  BY <1>3, <1>4 DEF ListAt
<1>6. \A j \in 1..Len(s.shell) + 1 : O(t, j) = O(s, j)
  <2>1. TAKE j \in 1..Len(s.shell) + 1
  <2>2. \A e \in 1..Len(BlocksOf(s)) : Logical(t.cache, BlocksOf(s)[e]).list
        = Logical(s.cache, BlocksOf(s)[e]).list
    BY <1>2, <1>3, <1>4
  <2>3. j \in 1..Len(BlocksOf(s)) + 1
    BY <1>2
  <2>4. Off(t.cache, BlocksOf(s), j) = Off(s.cache, BlocksOf(s), j)
    BY <1>1, <2>2, <2>3, OffSame
  <2> QED BY <2>4 DEF O
<1> QED BY <1>2, <1>3, <1>5, <1>6

LEMMA DriftCalm ==
  ASSUME NEW s, NEW n, NEW l, Base(s, n, l), NEW t, Base(t, n, l),
         BlocksOf(t) = BlocksOf(s), Same(s.cache, t.cache, n), Calm(s.cache, t.cache),
         t.isSequential = s.isSequential, t.current = s.current
  PROVE  Drift(s, t)
<1>1. SUFFICES ASSUME NEW j, NEW q, At(t, j, q)
               PROVE  \E i : At(s, i, q) /\ O(t, j) = O(s, i)
  BY DriftBy
<1>2. Named(s, n) /\ Laid(s, l) /\ Laid(t, l) /\ Named(t, n)
  BY BaseFacts
<1>3. /\ t.isSequential /\ t.current \in Buffers /\ j \in 1..Len(t.shell)
      /\ t.cache.buf[t.current].blockNumber = t.shell[j].item
      /\ t.cache.buf[t.current].current = q /\ q \in 1..Len(ListAt(t, j))
  BY <1>1 DEF At
<1>4. /\ j \in 1..Len(s.shell) /\ t.shell[j].item = s.shell[j].item
      /\ ListAt(t, j) = ListAt(s, j) /\ O(t, j) = O(s, j)
  <2>1. Len(t.shell) = Len(s.shell) /\ Len(s.shell) \in Nat
    BY <1>2, SamePlaces DEF Named
  <2>2. j \in 1..Len(s.shell) /\ j \in 1..Len(s.shell) + 1
    BY <1>3, <2>1
  <2> QED BY <2>2, SamePlaces
<1>5. Len(ListAt(t, j)) \in Nat /\ q \in Int /\ ~(q <= 0)
  BY <1>2, <1>3 DEF Laid
<1>6. Stays(s.cache.buf[s.current], t.cache.buf[s.current])
  BY <1>3 DEF Calm, Keeps
<1>7. /\ t.cache.buf[s.current].current = s.cache.buf[s.current].current
      /\ t.cache.buf[s.current].blockNumber = s.cache.buf[s.current].blockNumber
  BY <1>3, <1>5, <1>6 DEF Stays
<1>8. At(s, j, q)
  BY <1>3, <1>4, <1>7 DEF At
<1> QED BY <1>4, <1>8
-----------------------------------------------------------------------------
(* Calls that leave the pairs alone.                                       *)

(* Only the cache differs.                                                 *)
CacheOnly(s, t) == Rec(t) /\ \A f \in Flds \ {"cache"} : t[f] = s[f]

LEMMA CacheOnlyFields ==
  ASSUME NEW s, NEW t, CacheOnly(s, t)
  PROVE  /\ t.isUnique = s.isUnique /\ t.shell = s.shell /\ t.hasShell = s.hasShell
         /\ t.numItems = s.numItems /\ t.idxError = s.idxError
               /\ t.shlError = s.shlError
         /\ t.current = s.current /\ t.isSequential = s.isSequential
         /\ t.bof = s.bof /\ t.eof = s.eof /\ t.ret = s.ret
         /\ BlocksOf(t) = BlocksOf(s)
BY DEF CacheOnly, Flds, BlocksOf

(* t is s after block m has been fetched.                                  *)
Fetch(s, t, m, n, l) ==
  /\ Base(t, n, l) /\ CacheOnly(s, t) /\ Drift(s, t)
  /\ Seen(s.cache, t.cache, m, n)
  /\ \A j \in 1..Len(s.shell) : /\ ListAt(t, j) = ListAt(s, j)
                                /\ m = s.shell[j].item => ItemsOf(t) = ListAt(s, j)
  /\ \A j \in 1..Len(s.shell) + 1 : O(t, j) = O(s, j)

LEMMA FetchFacts ==
  ASSUME NEW s, NEW n, NEW l, Base(s, n, l), NEW m \in 0..n - 1
  PROVE  Fetch(s, [s EXCEPT !.cache = GetIndexBlock(@, m)], m, n, l)
<1> DEFINE x == GetIndexBlock(s.cache, m)
           t == [s EXCEPT !.cache = x]
<1>1. Live(s.cache, n) /\ Rec(s) /\ Named(s, n) /\ Ok(s.cache, n)
  BY BaseFacts DEF Base
<1>2. Seen(s.cache, x, m, n)
  BY <1>1, GetLive
<1> HIDE DEF x
<1>3. Rec(t) /\ t.cache = x /\ \A f \in Flds \ {"cache"} : t[f] = s[f]
  BY <1>1 DEF Rec, Flds
<1>4. [s EXCEPT !.cache = GetIndexBlock(@, m)] = t
  BY DEF x
<1> HIDE DEF t
<1>5. CacheOnly(s, t)
  BY <1>3 DEF CacheOnly
<1>6. t.shell = s.shell /\ t.current = s.current /\ t.isSequential = s.isSequential
      /\ BlocksOf(t) = BlocksOf(s)
  BY <1>5, CacheOnlyFields
<1>7. Live(x, n) /\ Same(s.cache, x, n) /\ Calm(s.cache, x)
  BY <1>2 DEF Seen
<1>8. Base(t, n, l)
  <2>1. BlocksOf(s) \in Seq(1..n - 1) /\ Listed(s.cache, BlocksOf(s), l)
    BY <1>1 DEF Named, Base
  <2>2. Listed(x, BlocksOf(s), l)
    BY <1>1, <1>7, <2>1, ListedSame
  <2> QED BY <1>3, <1>6, <1>7, <2>2 DEF Base
<1>9. Drift(s, t)
  BY <1>3, <1>6, <1>7, <1>8, DriftCalm
<1>10. /\ \A j \in 1..Len(s.shell) : ListAt(t, j) = ListAt(s, j)
       /\ \A j \in 1..Len(s.shell) + 1 : O(t, j) = O(s, j)
  BY <1>3, <1>6, <1>7, <1>8, SamePlaces
<1>11. ASSUME NEW j \in 1..Len(s.shell), m = s.shell[j].item
      PROVE ItemsOf(t) = ListAt(s, j)
  <2>1. ListAt(t, j) = Logical(x, m).list
    BY <1>3, <1>6, <1>11 DEF ListAt
  <2>2. Logical(x, m).list = x.buf[x.blk].list
    BY <1>2 DEF Seen, View
  <2> QED BY <1>3, <1>10, <2>1, <2>2 DEF ItemsOf
<1> QED BY <1>2, <1>3, <1>4, <1>5, <1>8, <1>9, <1>10, <1>11 DEF Fetch

(* The block of treeKey i is visited.                                      *)
LEMMA VisitFacts ==
  ASSUME NEW s, NEW n, NEW l, Base(s, n, l), NEW i \in 1..Len(s.shell)
  PROVE  Fetch(s, Visit(s, i), s.shell[i].item, n, l)
        /\ ItemsOf(Visit(s, i)) = ListAt(s, i)
<1>1. s.shell[i].item \in 0..n - 1
  BY BaseFacts DEF Named
<1>2. Fetch(s, [s EXCEPT !.cache
      = GetIndexBlock(@, s.shell[i].item)], s.shell[i].item, n, l)
  BY <1>1, FetchFacts
<1>3. Fetch(s, Visit(s, i), s.shell[i].item, n, l)
  BY <1>2 DEF Visit
<1> QED BY <1>3 DEF Fetch

-----------------------------------------------------------------------------
(* From s to t the blocks and the cursor stay, or are told anew.           *)
Core(s, t) ==
  Rec(t) /\ t.cache = s.cache /\ t.shell = s.shell /\ t.current = s.current
         /\ t.isSequential = s.isSequential

SameLayout(s, t) ==
  /\ t.shell = s.shell
  /\ \A j \in 1..Len(s.shell) : ListAt(t, j) = ListAt(s, j)
  /\ \A j \in 1..Len(s.shell) + 1 : O(t, j) = O(s, j)

LEMMA SameCore ==
  ASSUME NEW s, NEW n, NEW l, Base(s, n, l), NEW t, Core(s, t)
  PROVE  Base(t, n, l) /\ CursorOf(t) = CursorOf(s) /\ SameLayout(s, t) /\ Drift(s, t)
<1>1. BlocksOf(t) = BlocksOf(s)
  BY DEF BlocksOf, Core
<1>2. Base(t, n, l)
  BY <1>1 DEF Base, Core
<1>3. NoCursor(t) = NoCursor(s)
  BY DEF NoCursor, Core
<1>4. CursorOf(t) = CursorOf(s)
  BY <1>1, <1>3 DEF CursorOf, Core
<1>5. SameLayout(s, t)
  BY <1>1 DEF SameLayout, Core, ListAt, O
<1> QED BY <1>2, <1>4, <1>5 DEF Drift

(* A buffer gets position p.                                               *)
Put(s, t, b, p, n, l) ==
  /\ Base(t, n, l) /\ SameLayout(s, t)
  /\ t.cache.buf[b].current = p
  /\ t.cache.buf[b].blockNumber = s.cache.buf[b].blockNumber

LEMMA PutFacts ==
  ASSUME NEW s, NEW n, NEW l, Base(s, n, l), NEW b \in Buffers,
         NEW p \in HEAD..Len(s.cache.buf[b].list),
         NEW t, Rec(t), t.cache = [s.cache EXCEPT !.buf[b].current = p],
         t.shell = s.shell, t.current \in Buffers \cup {NULL},
               t.isSequential \in BOOLEAN
  PROVE  Put(s, t, b, p, n, l)
<1>1. Live(s.cache, n) /\ Ok(s.cache, n) /\ Named(s, n)
  BY BaseFacts
<1>2. Moves(s.cache, t.cache, b, p, n)
  BY <1>1, MoveLive
<1>3. /\ Live(t.cache, n) /\ Same(s.cache, t.cache, n) /\ t.cache.buf[b].current = p
      /\ t.cache.buf[b].blockNumber = s.cache.buf[b].blockNumber
  BY <1>2 DEF Moves
<1>4. BlocksOf(t) = BlocksOf(s)
  BY DEF BlocksOf
<1>5. Base(t, n, l)
  <2>1. BlocksOf(s) \in Seq(1..n - 1) /\ Listed(s.cache, BlocksOf(s), l)
        /\ s.shell \in Seq(TreeKeys(n))
    BY <1>1 DEF Named, Base
  <2>2. Listed(t.cache, BlocksOf(s), l)
    BY <1>1, <1>3, <2>1, ListedSame
  <2> QED BY <1>3, <1>4, <2>1, <2>2 DEF Base
<1>6. SameLayout(s, t)
  BY <1>3, <1>4, <1>5, SamePlaces DEF SameLayout
<1> QED BY <1>3, <1>5, <1>6 DEF Put

(* The block of treeKey i has just been visited.                           *)
Arrived(v, i, n, l) ==
  /\ Base(v, n, l) /\ i \in 1..Len(v.shell)
  /\ v.cache.blk \in Buffers /\ v.cache.blk \in InUse(v.cache)
  /\ Youngest(v.cache, v.cache.blk)
  /\ v.cache.buf[v.cache.blk].blockNumber = v.shell[i].item
  /\ ItemsOf(v) = ListAt(v, i)

(* What a call that only reads does not change.                            *)
Quiet(s, t) ==
  /\ t.isUnique = s.isUnique /\ t.shell = s.shell /\ t.hasShell = s.hasShell
  /\ t.numItems = s.numItems /\ t.shlError = s.shlError

LEMMA Arrives ==
  ASSUME NEW s, NEW n, NEW l, Base(s, n, l), NEW i \in 1..Len(s.shell)
  PROVE  LET v == Visit(s, i)
         IN /\ Arrived(v, i, n, l) /\ CacheOnly(s, v) /\ Drift(s, v) /\ SameLayout(s, v)
            /\ Quiet(s, v) /\ v.idxError = s.idxError
            /\ v.isSequential = s.isSequential /\ v.current = s.current
<1> DEFINE v == Visit(s, i)
<1>1. Fetch(s, v, s.shell[i].item, n, l) /\ ItemsOf(v) = ListAt(s, i)
  BY VisitFacts
<1> HIDE DEF v
<1>2. CacheOnly(s, v) /\ Drift(s, v) /\ Base(v, n, l)
      /\ Seen(s.cache, v.cache, s.shell[i].item, n)
  BY <1>1 DEF Fetch
<1>3. Quiet(s, v) /\ v.shell = s.shell /\ v.idxError = s.idxError
      /\ v.isSequential = s.isSequential /\ v.current = s.current
  BY <1>2, CacheOnlyFields DEF Quiet
<1>4. SameLayout(s, v)
  BY <1>1, <1>3 DEF Fetch, SameLayout
<1>5. Arrived(v, i, n, l)
  BY <1>1, <1>2, <1>3, <1>4 DEF Arrived, Seen, SameLayout
<1> QED BY <1>2, <1>3, <1>4, <1>5 DEF v

(* A position in the block visited becomes the cursor's.                   *)
Landed(v, t, i, p, n, l) ==
  /\ Base(t, n, l) /\ SameLayout(v, t) /\ t.isSequential
  /\ CursorOf(t) = O(v, i) + p /\ t.ret = l[O(v, i) + p] /\ Quiet(v, t)
  /\ O(v, i) + p \in 1..Len(l)

LEMMA LandsOn ==
  ASSUME NEW v, NEW n, NEW l, NEW i, Arrived(v, i, n, l), NEW p \in 1..Len(ListAt(v,
        i)),
         NEW t, Rec(t), t.cache = [v.cache EXCEPT !.buf[v.cache.blk].current = p],
         Quiet(v, t), t.current = v.cache.blk, t.isSequential = TRUE,
         t.ret = ItemsOf(v)[p]
  PROVE  Landed(v, t, i, p, n, l)
<1> DEFINE b == v.cache.blk
<1>1. Base(v, n, l) /\ Laid(v, l) /\ i \in 1..Len(v.shell) /\ b \in Buffers
      /\ v.cache.buf[b].blockNumber = v.shell[i].item
            /\ v.cache.buf[b].list = ListAt(v, i)
      /\ t.shell = v.shell
  BY BaseFacts DEF Arrived, ItemsOf, Quiet
<1>2. p \in HEAD..Len(v.cache.buf[b].list) /\ Len(ListAt(v, i)) \in Nat
  <2>1. Len(ListAt(v, i)) \in Nat
    BY <1>1 DEF Laid
  <2> QED BY <1>1, <2>1 DEF HEAD
<1>3. /\ Base(t, n, l) /\ SameLayout(v, t)
      /\ t.cache.buf[b].current = p
      /\ t.cache.buf[b].blockNumber = v.cache.buf[b].blockNumber
  <2>1. /\ t.cache = [v.cache EXCEPT !.buf[b].current = p]
        /\ t.current \in Buffers \cup {NULL} /\ t.isSequential \in BOOLEAN
    BY <1>1
  <2> HIDE DEF b
  <2>2. Put(v, t, b, p, n, l)
    BY <1>1, <1>2, <2>1, PutFacts
  <2> QED BY <2>2 DEF Put
<1>4. i \in 1..Len(v.shell) + 1
  BY <1>1, BaseFacts DEF Named
<1>5. At(t, i, p)
  BY <1>1, <1>3 DEF At, SameLayout
<1>6. CursorOf(t) = O(t, i) + p
  BY <1>3, <1>5, CursorAt
<1>7. O(t, i) = O(v, i)
  BY <1>3, <1>4 DEF SameLayout
<1>8. O(v, i) + p \in 1..Len(l) /\ l[O(v, i) + p] = ListAt(v, i)[p]
  BY <1>1 DEF Laid
<1> QED BY <1>1, <1>3, <1>6, <1>7, <1>8 DEF Landed, ItemsOf

LEMMA SeekLands ==
  ASSUME NEW v, NEW n, NEW l, NEW i, Arrived(v, i, n, l), NEW p \in 1..Len(ListAt(v, i))
  PROVE  Landed(v, Seek(v, p), i, p, n, l) /\ Seek(v, p).idxError = v.idxError
<1> DEFINE t == Seek(v, p)
<1>1. Rec(v)
  BY DEF Arrived, Base
<1>2. /\ Rec(t) /\ t.cache = [v.cache EXCEPT !.buf[v.cache.blk].current = p]
      /\ t.current = v.cache.blk /\ t.isSequential = TRUE /\ t.ret = ItemsOf(v)[p]
      /\ t.idxError = v.idxError
  BY <1>1 DEF Rec, Flds, Seek
<1>3. Quiet(v, t)
  BY <1>1 DEF Rec, Flds, Seek, Quiet
<1> HIDE DEF t
<1> QED BY <1>2, <1>3, LandsOn DEF t

-----------------------------------------------------------------------------
(* nextIndexItem and prevIndexItem.                                        *)

(* From s to t the index has only been read.                               *)
Reads(s, t, n, l) == Base(t, n, l) /\ SameLayout(s, t) /\ Quiet(s, t)

LEMMA LayoutTrans ==
  ASSUME NEW s, NEW t, NEW u, SameLayout(s, t), SameLayout(t, u)
  PROVE  SameLayout(s, u)
BY DEF SameLayout

LEMMA ReadsTrans ==
  ASSUME NEW s, NEW t, NEW u, NEW n, NEW l, Reads(s, t, n, l), Reads(t, u, n, l)
  PROVE  Reads(s, u, n, l)
BY LayoutTrans DEF Reads, Quiet

LEMMA CoreReads ==
  ASSUME NEW s, NEW n, NEW l, Base(s, n, l), NEW t, Core(s, t), Quiet(s, t)
  PROVE  Reads(s, t, n, l) /\ CursorOf(t) = CursorOf(s)
BY SameCore DEF Reads

(* The cursor goes to link p of the buffer it is in.                       *)
MovedWithin(s, t, p, n, l) ==
  /\ Reads(s, t, n, l) /\ t.isSequential /\ t.idxError = s.idxError /\ t.ret \in Pairs
  /\ \A j, q : At(s, j, q) =>
       CursorOf(t) = O(s, j) + p /\ t.ret = l[O(s, j) + p] /\ O(s, j) + p \in 1..Len(l)

LEMMA StepWithin ==
  ASSUME NEW s, NEW n, NEW l, Base(s, n, l), s.isSequential, s.current \in Buffers,
         NEW p \in 1..Len(s.cache.buf[s.current].list)
  PROVE  LET b == s.current
         IN MovedWithin(s, [s EXCEPT !.cache.buf[b].current = p, !.ret
               = s.cache.buf[b].list[p]],
                    p, n, l)
<1> DEFINE b == s.current
           t == [s EXCEPT !.cache.buf[b].current = p, !.ret = s.cache.buf[b].list[p]]
<1>1. Rec(s) /\ Live(s.cache, n) /\ Ok(s.cache, n) /\ Named(s, n) /\ Laid(s, l)
  BY BaseFacts DEF Base
<1>2. /\ Rec(t) /\ t.cache = [s.cache EXCEPT !.buf[b].current = p] /\ t.shell = s.shell
      /\ t.current = s.current /\ t.isSequential = s.isSequential
      /\ t.idxError = s.idxError /\ t.ret = s.cache.buf[b].list[p] /\ Quiet(s, t)
  BY <1>1 DEF Rec, Flds, Quiet
<1>3. s.cache.buf[b].list \in Items /\ Len(s.cache.buf[b].list) \in Nat
  <2>1. s.cache.buf[b] \in Buffer(n)
    BY <1>1 DEF Ok, BlockFile
  <2> QED BY <2>1, BufferFacts
<1>4. p \in HEAD..Len(s.cache.buf[b].list)
  <2> HIDE DEF t
  <2> QED BY <1>3 DEF HEAD
<1>5. t.ret \in Pairs
  <2> HIDE DEF t
  <2> QED BY <1>2, <1>3 DEF Items, Pairs
<1> HIDE DEF t
<1>6. Put(s, t, b, p, n, l)
  BY <1>2, <1>4, PutFacts
<1>7. ASSUME NEW j, NEW q, At(s, j, q)
      PROVE  CursorOf(t) = O(s, j) + p /\ t.ret = l[O(s, j) + p]
            /\ O(s, j) + p \in 1..Len(l)
  <2>1. s.cache.buf[b].list = ListAt(s, j)
    BY <1>7, CursorAt
  <2>2. j \in 1..Len(s.shell) /\ s.cache.buf[b].blockNumber = s.shell[j].item
    BY <1>7 DEF At
  <2>3. At(t, j, p)
    BY <1>2, <1>6, <2>1, <2>2 DEF At, Put, SameLayout
  <2>4. CursorOf(t) = O(t, j) + p
    BY <1>6, <2>3, CursorAt DEF Put
  <2>5. j \in 1..Len(s.shell) + 1
    BY <1>1, <2>2 DEF Named
  <2>6. O(t, j) = O(s, j)
    BY <1>6, <2>5 DEF Put, SameLayout
  <2>7. O(s, j) + p \in 1..Len(l) /\ l[O(s, j) + p] = ListAt(s, j)[p]
    BY <1>1, <2>1, <2>2 DEF Laid
  <2> QED BY <1>2, <2>1, <2>4, <2>6, <2>7
<1> QED BY <1>2, <1>5, <1>6, <1>7 DEF MovedWithin, Reads, Put, t

(* There is no link to go to.                                              *)
Stayed(s, t, p, n, l) ==
  /\ Reads(s, t, n, l) /\ t.isSequential /\ t.idxError = s.idxError /\ t.ret = Zeros
        /\ t.eof
  /\ \A j : At(s, j, p) => CursorOf(t) = CursorOf(s)

LEMMA StepStays ==
  ASSUME NEW s, NEW n, NEW l, Base(s, n, l), s.isSequential, s.current \in Buffers,
         NEW p \in HEAD..Len(s.cache.buf[s.current].list)
  PROVE  LET b == s.current
         IN Stayed(s, [NoPair(s) EXCEPT !.cache.buf[b].current = p, !.eof
               = TRUE], p, n, l)
<1> DEFINE b == s.current
           t == [NoPair(s) EXCEPT !.cache.buf[b].current = p, !.eof = TRUE]
<1>1. Rec(s) /\ Named(s, n) /\ Laid(s, l)
  BY BaseFacts DEF Base
<1>2. /\ Rec(t) /\ t.cache = [s.cache EXCEPT !.buf[b].current = p] /\ t.shell = s.shell
      /\ t.current = s.current /\ t.isSequential = s.isSequential
      /\ t.idxError = s.idxError /\ t.ret = Zeros /\ t.eof /\ Quiet(s, t)
  BY <1>1 DEF Rec, Flds, Quiet, NoPair
<1> HIDE DEF t
<1>3. Put(s, t, b, p, n, l)
  BY <1>2, PutFacts
<1>4. ASSUME NEW j, At(s, j, p) PROVE CursorOf(t) = CursorOf(s)
  <2>1. j \in 1..Len(s.shell) /\ s.cache.buf[b].blockNumber = s.shell[j].item
        /\ p \in 1..Len(ListAt(s, j))
    BY <1>4 DEF At
  <2>2. At(t, j, p)
    BY <1>2, <1>3, <2>1 DEF At, Put, SameLayout
  <2>3. CursorOf(t) = O(t, j) + p /\ CursorOf(s) = O(s, j) + p
    BY <1>3, <1>4, <2>2, CursorAt DEF Put
  <2>4. j \in 1..Len(s.shell) + 1
    BY <1>1, <2>1 DEF Named
  <2>5. O(t, j) = O(s, j)
    BY <1>3, <2>4 DEF Put, SameLayout
  <2> QED BY <2>3, <2>5
<1> QED BY <1>2, <1>3, <1>4 DEF Stayed, Reads, Put, t

(* The cursor goes on in block m.                                          *)
Entered(s, t, m, p, n, l) ==
  /\ Reads(s, t, n, l) /\ t.isSequential /\ t.ret \in Pairs
  /\ t.idxError \in {s.idxError, "IDX_UNSTABLE"}
  /\ \A i \in 1..Len(s.shell) : m = s.shell[i].item /\ p \in 1..Len(ListAt(s, i)) =>
       /\ CursorOf(t) = O(s, i) + p /\ t.ret = l[O(s, i) + p]
             /\ O(s, i) + p \in 1..Len(l)
       /\ t.idxError = s.idxError

LEMMA StepEnters ==
  ASSUME NEW s, NEW n, NEW l, Base(s, n, l), s.isSequential, NEW m \in 0..n - 1, NEW p,
         LET a == [s EXCEPT !.cache = GetIndexBlock(@, m)]
         IN ItemsOf(a) # <<>> => p \in 1..Len(ItemsOf(a))
  PROVE  Entered(s, Enter([s EXCEPT !.cache = GetIndexBlock(@, m)], p), m, p, n, l)
<1> DEFINE a == [s EXCEPT !.cache = GetIndexBlock(@, m)]
           b == a.cache.blk
           t == Enter(a, p)
<1>1. Fetch(s, a, m, n, l)
  BY FetchFacts
<1>2. ItemsOf(a) # <<>> => p \in 1..Len(ItemsOf(a))
  OBVIOUS
<1> HIDE DEF a
<1>3. CacheOnly(s, a) /\ Seen(s.cache, a.cache, m, n) /\ Base(a, n, l) /\ Rec(a)
  BY <1>1 DEF Fetch, Base
<1>4. /\ a.isUnique = s.isUnique /\ a.shell = s.shell /\ a.hasShell = s.hasShell
      /\ a.numItems = s.numItems /\ a.idxError = s.idxError /\ a.shlError = s.shlError
      /\ a.isSequential = s.isSequential
  BY <1>3, CacheOnlyFields
<1>5. Reads(s, a, n, l)
  BY <1>1, <1>3, <1>4 DEF Fetch, Reads, SameLayout, Quiet
<1>6. /\ b \in Buffers /\ b \in InUse(a.cache) /\ Youngest(a.cache, b)
      /\ a.cache.buf[b].blockNumber = m
      /\ ItemsOf(a) = a.cache.buf[b].list
  BY <1>3 DEF Seen, ItemsOf
<1>7. a.cache.buf[b] \in Buffer(n)
  <2>1. Ok(a.cache, n)
    BY <1>3, BaseFacts
  <2> QED BY <1>6, <2>1 DEF Ok, BlockFile
<1>8. ItemsOf(a) \in Items /\ Len(ItemsOf(a)) \in Nat
  BY <1>6, <1>7, BufferFacts
<1> DEFINE u == [a EXCEPT !.current = b]
<1>9. /\ ItemsOf(u) = ItemsOf(a)
      /\ t = IF ItemsOf(a) = <<>> THEN Fail(u, "IDX_UNSTABLE")
             ELSE [u EXCEPT !.cache.buf[b].current = p, !.ret = ItemsOf(a)[p]]
  <2>1. u.cache = a.cache
    BY <1>3 DEF Rec, Flds
  <2>2. ItemsOf(u) = ItemsOf(a)
    BY <2>1 DEF ItemsOf
  <2>3. t = IF ItemsOf(u) = <<>> THEN Fail(u, "IDX_UNSTABLE")
             ELSE [u EXCEPT !.cache.buf[u.cache.blk].current = p, !.ret = ItemsOf(u)[p]]
    BY DEF Enter
  <2> QED BY <2>1, <2>2, <2>3
<1>10. CASE ItemsOf(a) = <<>>
  <2>1. t = Fail(u, "IDX_UNSTABLE")
    BY <1>9, <1>10
  <2>2. /\ Rec(t) /\ t.cache = a.cache /\ t.shell = a.shell
        /\ t.isSequential = a.isSequential
        /\ t.current = b /\ t.ret = Zeros /\ t.idxError = "IDX_UNSTABLE" /\ Quiet(a, t)
    BY <1>3, <2>1 DEF Rec, Flds, Quiet, Fail
  <2> HIDE DEF t, b, u
  <2>3. BlocksOf(t) = BlocksOf(a)
    BY <2>2 DEF BlocksOf
  <2>4. Base(t, n, l)
    BY <1>3, <1>6, <2>2, <2>3 DEF Base
  <2>5. SameLayout(a, t)
    BY <2>2, <2>3 DEF SameLayout, ListAt, O
  <2>6. Reads(s, t, n, l)
    BY <1>5, <2>2, <2>4, <2>5, ReadsTrans DEF Reads
  <2>7. ASSUME NEW i \in 1..Len(s.shell), m
        = s.shell[i].item, p \in 1..Len(ListAt(s, i))
        PROVE  FALSE
    <3>1. ItemsOf(a) = ListAt(s, i)
      BY <1>1, <2>7 DEF Fetch
    <3> QED BY <1>10, <2>7, <3>1
  <2> QED BY <1>4, <2>2, <2>6, <2>7 DEF Entered, Pairs, t, a
<1>11. CASE ItemsOf(a) # <<>>
  <2>0. p \in 1..Len(ItemsOf(a))
    BY <1>2, <1>11
  <2>1. t = [u EXCEPT !.cache.buf[b].current = p, !.ret = ItemsOf(a)[p]]
    BY <1>9, <1>11
  <2>2. /\ Rec(t) /\ t.cache = [a.cache EXCEPT !.buf[b].current = p]
        /\ t.shell = a.shell
        /\ t.isSequential = a.isSequential /\ t.current = b
        /\ t.ret = ItemsOf(a)[p] /\ t.idxError = a.idxError /\ Quiet(a, t)
    BY <1>3, <2>1 DEF Rec, Flds, Quiet
  <2> HIDE DEF t, u
  <2>3. p \in HEAD..Len(a.cache.buf[b].list)
    <3>1. p \in 1..Len(a.cache.buf[b].list) /\ Len(a.cache.buf[b].list) \in Nat
      BY <1>6, <1>8, <2>0
    <3> QED BY <3>1 DEF HEAD
  <2>4. Put(a, t, b, p, n, l)
    <3> HIDE DEF b
    <3>1. t.current \in Buffers \cup {NULL} /\ t.isSequential \in BOOLEAN
      BY <1>3, <1>6, <2>2 DEF Base
    <3> QED BY <1>3, <1>6, <2>2, <2>3, <3>1, PutFacts
  <2>5. Reads(s, t, n, l)
    <3>1. Reads(a, t, n, l)
      BY <2>2, <2>4 DEF Reads, Put
    <3> QED BY <1>5, <3>1, ReadsTrans
  <2>6. t.ret \in Pairs
    BY <1>8, <2>0, <2>2 DEF Items, Pairs
  <2>7. ASSUME NEW i \in 1..Len(s.shell), m
        = s.shell[i].item, p \in 1..Len(ListAt(s, i))
        PROVE  /\ CursorOf(t) = O(s, i) + p /\ t.ret = l[O(s, i) + p]
               /\ O(s, i) + p \in 1..Len(l)
    <3>1. /\ ItemsOf(a) = ListAt(s, i) /\ ListAt(a, i) = ListAt(s, i)
          /\ i \in 1..Len(s.shell) + 1 => O(a, i) = O(s, i)
      BY <1>1, <2>7 DEF Fetch
    <3>2. i \in 1..Len(s.shell) + 1
      BY BaseFacts DEF Named
    <3>3. Arrived(a, i, n, l)
      BY <1>3, <1>4, <1>6, <2>7, <3>1 DEF Arrived
    <3>4. Landed(a, t, i, p, n, l)
      BY <1>4, <2>2, <2>7, <3>1, <3>3, LandsOn
    <3> QED BY <3>1, <3>2, <3>4 DEF Landed
  <2>8. t.isSequential
    BY <1>4, <2>2
  <2> QED BY <1>4, <2>2, <2>5, <2>6, <2>7, <2>8 DEF Entered, t, a
<1> QED BY <1>10, <1>11 DEF a

-----------------------------------------------------------------------------
(* No block is empty.                                                      *)
Full(s) == \A j \in 1..Len(s.shell) : ListAt(s, j) # <<>>

(* The neighbours of block j.                                              *)
LEMMA NeighbourFacts ==
  ASSUME NEW s, NEW n, NEW l, Base(s, n, l), NEW j \in 1..Len(s.shell)
  PROVE  /\ Behind(BlocksOf(s), j) = 0 => j = Len(s.shell)
         /\ Behind(BlocksOf(s), j) # 0 =>
              j + 1 \in 1..Len(s.shell) /\ Behind(BlocksOf(s), j) = s.shell[j + 1].item
         /\ Before(BlocksOf(s), j) = 0 => j = 1
         /\ Before(BlocksOf(s), j) # 0 =>
              j - 1 \in 1..Len(s.shell) /\ Before(BlocksOf(s), j) = s.shell[j - 1].item
<1>1. Named(s, n) /\ Len(s.shell) \in Nat /\ Len(BlocksOf(s)) = Len(s.shell)
  BY BaseFacts DEF Named
<1>5. Behind(BlocksOf(s), j) # 0 =>
        j + 1 \in 1..Len(s.shell) /\ Behind(BlocksOf(s), j) = s.shell[j + 1].item
  <2>1. j = Len(s.shell) => Behind(BlocksOf(s), j) = 0
    BY <1>1 DEF Behind
  <2>2. j # Len(s.shell) => j + 1 \in 1..Len(s.shell)
    BY <1>1
  <2>3. j # Len(s.shell) => Behind(BlocksOf(s), j) = s.shell[j + 1].item
    BY <1>1, <2>2 DEF Behind, Named
  <2> QED BY <2>1, <2>2, <2>3
<1>6. j = 1 => Before(BlocksOf(s), j) = 0
  BY DEF Before
<1>7. j # 1 => /\ j - 1 \in 1..Len(s.shell)
               /\ Before(BlocksOf(s), j) = s.shell[j - 1].item
                     /\ s.shell[j - 1].item # 0
  <2>1. j # 1 => j - 1 \in 1..Len(s.shell)
    BY <1>1
  <2> QED BY <1>1, <2>1 DEF Before, Named
<1>8. j # Len(s.shell) => Behind(BlocksOf(s), j) # 0
  <2>1. j # Len(s.shell) => j + 1 \in 1..Len(s.shell)
    BY <1>1
  <2> QED BY <1>1, <2>1 DEF Behind, Named
<1> QED BY <1>5, <1>6, <1>7, <1>8

(* The link a cursor may be at that is known.                              *)
LEMMA LinkFacts ==
  ASSUME NEW s, NEW n, NEW l, Base(s, n, l), s.isSequential, ~NoCursor(s), ~Dangling(s)
  PROVE  LET c == s.cache.buf[s.current]
         IN /\ s.current \in Buffers /\ c \in Buffer(n)
            /\ c.list \in Items /\ Len(c.list) \in Nat
            /\ c.current \in Int
                  /\ (c.current \in {HEAD, TAIL} \/ c.current \in 1..Len(c.list))
            /\ c.img.prevBlock \in 0..n - 1 /\ c.img.nextBlock \in 0..n - 1
<1> DEFINE c == s.cache.buf[s.current]
<1>1. s.current \in Buffers
  BY DEF Base, NoCursor
<1>2. Live(s.cache, n) /\ Ok(s.cache, n)
  BY BaseFacts
<1>3. c \in Buffer(n) /\ Within(c)
  BY <1>1, <1>2 DEF Ok, BlockFile, Live, Steady
<1>4. c.current # UNSET /\ c.current # GONE
  BY DEF NoCursor, Dangling
<1> HIDE DEF c
<1>5. c.list \in Items /\ Len(c.list) \in Nat /\ c.current \in Int
      /\ c.img.prevBlock \in 0..n - 1 /\ c.img.nextBlock \in 0..n - 1
  BY <1>3, BufferFacts
<1>6. c.current \in {HEAD, TAIL} \/ c.current \in 1..Len(c.list)
  BY <1>3, <1>4, <1>5 DEF Within, HEAD, TAIL, UNSET, GONE
<1> QED BY <1>1, <1>3, <1>5, <1>6 DEF c

LEMMA AtLink ==
  ASSUME NEW s, NEW n, NEW l, Base(s, n, l), NEW j, NEW q, At(s, j, q)
  PROVE  s.isSequential /\ ~NoCursor(s) /\ ~Dangling(s)
<1>1. Laid(s, l) /\ Named(s, n)
  BY BaseFacts
<1>2. q = s.cache.buf[s.current].current /\ j \in 1..Len(s.shell)
      /\ q \in 1..Len(ListAt(s, j)) /\ s.isSequential /\ s.current \in Buffers
  BY DEF At
<1>3. Len(ListAt(s, j)) \in Nat
  BY <1>1, <1>2 DEF Laid
<1>4. q # UNSET /\ q # GONE
  BY <1>2, <1>3 DEF UNSET, GONE
<1>5. s.shell # <<>> /\ s.current # NULL
  BY <1>1, <1>2, CacheNotEmpty DEF Named
<1> QED BY <1>2, <1>4, <1>5 DEF NoCursor, Dangling

(* What a step of a scan returns in t, dir 1 for the next pair and -1 for  *)
(* the previous one.                                                       *)
Stepped(s, t, dir, n, l) ==
  /\ Reads(s, t, n, l) /\ t.isSequential = s.isSequential
  /\ ~s.isSequential => t.ret = Zeros /\ t.idxError = "IDX_SEQUENCE"
  /\ s.isSequential => t.ret \in Pairs /\ t.idxError \in {s.idxError, "IDX_UNSTABLE"}
  /\ CursorOf(s) > 0 =>
       /\ t.idxError = s.idxError
       /\ CursorOf(s) + dir \in 1..Len(l) =>
            CursorOf(t) = CursorOf(s) + dir /\ t.ret = l[CursorOf(s) + dir]
       /\ CursorOf(s) + dir \notin 1..Len(l) =>
            CursorOf(t) = CursorOf(s) /\ t.ret = Zeros /\ t.eof

(* When there is no cursor to go on from.                                  *)
LEMMA NotStepped ==
  ASSUME NEW s, NEW n, NEW l, Base(s, n, l), NEW dir
  PROVE  /\ ~s.isSequential => Stepped(s, Fail(s, "IDX_SEQUENCE"), dir, n, l)
         /\ s.isSequential /\ NoCursor(s) => Stepped(s, NoPair(s), dir, n, l)
<1>1. Rec(s)
  BY DEF Base
<1>2. ASSUME ~s.isSequential PROVE Stepped(s, Fail(s, "IDX_SEQUENCE"), dir, n, l)
  <2> DEFINE t == Fail(s, "IDX_SEQUENCE")
  <2>1. Core(s, t) /\ Quiet(s, t) /\ t.ret = Zeros /\ t.idxError = "IDX_SEQUENCE"
    BY <1>1 DEF Rec, Flds, Fail, Core, Quiet
  <2> HIDE DEF t
  <2>2. Reads(s, t, n, l)
    BY <2>1, CoreReads
  <2>3. ~(CursorOf(s) > 0) /\ t.isSequential = s.isSequential
    BY <1>2, <2>1, CursorType DEF Core
  <2> QED BY <1>2, <2>1, <2>2, <2>3 DEF Stepped, t
<1>3. ASSUME s.isSequential, NoCursor(s) PROVE Stepped(s, NoPair(s), dir, n, l)
  <2> DEFINE t == NoPair(s)
  <2>1. Core(s, t) /\ Quiet(s, t) /\ t.ret = Zeros /\ t.idxError = s.idxError
    BY <1>1 DEF Rec, Flds, NoPair, Core, Quiet
  <2> HIDE DEF t
  <2>2. Reads(s, t, n, l)
    BY <2>1, CoreReads
  <2>3. CursorOf(s) = -1
    BY <1>3 DEF CursorOf
  <2>4. ~(CursorOf(s) > 0)
    BY <2>3
  <2> QED BY <1>3, <2>1, <2>2, <2>4 DEF Stepped, Core, Pairs, t
<1> QED BY <1>2, <1>3

LEMMA NextFacts ==
  ASSUME NEW s, NEW n, NEW l, Base(s, n, l), Full(s), ~Dangling(s)
  PROVE  Stepped(s, NextIndexItem(s), 1, n, l)
<1> DEFINE t == NextIndexItem(s)
           b == s.current
           w == s.cache.buf[b].list
           c == s.cache.buf[b].current
           p == IF c = HEAD THEN FirstLink(w)
                ELSE IF c = TAIL \/ c = Len(w) THEN TAIL
                ELSE c + 1
           m == s.cache.buf[b].img.nextBlock
           a == [s EXCEPT !.cache = GetIndexBlock(@, m)]
<1>1. t = IF ~s.isSequential THEN Fail(s, "IDX_SEQUENCE")
          ELSE IF NoCursor(s) THEN NoPair(s)
          ELSE IF p # TAIL THEN [s EXCEPT !.cache.buf[b].current = p, !.ret = w[p]]
          ELSE IF m = 0
            THEN [NoPair(s) EXCEPT !.cache.buf[b].current = LastLink(w), !.eof = TRUE]
          ELSE Enter(a, 1)
  BY DEF NextIndexItem
<1> HIDE DEF t
<1>2. CASE ~s.isSequential \/ NoCursor(s)
  BY <1>1, <1>2, NotStepped DEF t
<1>3. CASE s.isSequential /\ ~NoCursor(s)
  <2>1. /\ b \in Buffers /\ w \in Items /\ Len(w) \in Nat
        /\ c \in Int /\ (c \in {HEAD, TAIL} \/ c \in 1..Len(w)) /\ m \in 0..n - 1
    BY <1>3, LinkFacts
  <2>2. Laid(s, l) /\ Named(s, n)
    BY BaseFacts
  <2>3. ASSUME CursorOf(s) > 0
        PROVE  \E j, q : /\ At(s, j, q) /\ CursorOf(s) = O(s, j) + q /\ q = c
                         /\ w = ListAt(s, j) /\ m = Behind(BlocksOf(s), j)
                         /\ j \in 1..Len(s.shell) /\ q \in 1..Len(w)
                         /\ CursorOf(s) \in 1..Len(l)
    <3>1. PICK j, q : At(s, j, q)
      BY <2>3, CursorType
    <3>2. /\ CursorOf(s) = O(s, j) + q /\ w = ListAt(s, j) /\ m = Behind(BlocksOf(s), j)
          /\ CursorOf(s) \in 1..Len(l)
      BY <3>1, CursorAt
    <3>3. q = c /\ j \in 1..Len(s.shell) /\ q \in 1..Len(ListAt(s, j))
      BY <3>1 DEF At
    <3> QED BY <3>1, <3>2, <3>3
  <2> HIDE DEF w, c, m
  <2>4. CASE p # TAIL
    <3>1. p \in 1..Len(w) /\ (c \in 1..Len(w) => p = c + 1)
      <4>1. w # <<>> => Len(w) > 0
        BY <2>1, EmptySeq DEF Items
      <4> QED BY <2>1, <2>4, <4>1 DEF FirstLink, HEAD, TAIL
    <3> HIDE DEF p
    <3>2. t = [s EXCEPT !.cache.buf[b].current = p, !.ret = s.cache.buf[b].list[p]]
      BY <1>1, <1>3, <2>4 DEF w
    <3>3. MovedWithin(s, t, p, n, l)
      BY <1>3, <2>1, <3>1, <3>2, StepWithin DEF w
    <3>4. ASSUME CursorOf(s) > 0
          PROVE  CursorOf(t) = CursorOf(s) + 1 /\ t.ret = l[CursorOf(s) + 1]
                 /\ CursorOf(s) + 1 \in 1..Len(l)
      <4>1. PICK j, q : /\ At(s, j, q) /\ CursorOf(s) = O(s, j) + q /\ q = c
                        /\ j \in 1..Len(s.shell) /\ q \in 1..Len(w)
        BY <2>3, <3>4
      <4>2. CursorOf(t) = O(s, j) + p /\ t.ret = l[O(s, j) + p]
            /\ O(s, j) + p \in 1..Len(l)
        BY <3>3, <4>1 DEF MovedWithin
      <4>3. O(s, j) + p = CursorOf(s) + 1
        <5>1. p = q + 1 /\ q \in Int
          BY <3>1, <4>1
        <5>2. O(s, j) \in Nat
          BY <2>2, <4>1 DEF Laid, Named
        <5> QED BY <4>1, <5>1, <5>2
      <4> QED BY <4>2, <4>3
    <3> QED BY <1>3, <3>3, <3>4 DEF MovedWithin, Stepped, t
  <2>5. CASE p = TAIL
    <3>1. ASSUME NEW q \in 1..Len(w), q = c PROVE q = Len(w)
      BY <2>1, <2>5, <3>1 DEF FirstLink, HEAD, TAIL
    <3>2. CASE m = 0
      <4> DEFINE e == LastLink(w)
      <4>1. e \in HEAD..Len(w) /\ (w # <<>> => e = Len(w))
        BY <2>1 DEF LastLink, HEAD
      <4> HIDE DEF e, p
      <4>2. t = [NoPair(s) EXCEPT !.cache.buf[b].current = e, !.eof = TRUE]
        BY <1>1, <1>3, <2>5, <3>2 DEF e
      <4>3. Stayed(s, t, e, n, l)
        BY <1>3, <2>1, <4>1, <4>2, StepStays DEF w
      <4>4. ASSUME CursorOf(s) > 0
            PROVE  CursorOf(t) = CursorOf(s) /\ CursorOf(s) + 1 \notin 1..Len(l)
        <5>1. PICK j, q : /\ At(s, j, q) /\ CursorOf(s) = O(s, j) + q /\ q = c
                          /\ w = ListAt(s, j) /\ m = Behind(BlocksOf(s), j)
                          /\ j \in 1..Len(s.shell) /\ q \in 1..Len(w)
          BY <2>3, <4>4
        <5>2. q = Len(w)
          BY <3>1, <5>1
        <5>3. j = Len(s.shell)
          BY <3>2, <5>1, NeighbourFacts
        <5>4. O(s, j + 1) = O(s, j) + Len(ListAt(s, j))
              /\ O(s, Len(s.shell) + 1) = Len(l)
              /\ Len(l) \in Nat
          BY <2>2, <5>1 DEF Laid
        <5>5. CursorOf(s) = Len(l)
          BY <5>1, <5>2, <5>3, <5>4
        <5>6. w # <<>>
          BY <5>1
        <5>7. At(s, j, e)
          BY <4>1, <5>1, <5>2, <5>6
        <5>8. CursorOf(t) = CursorOf(s)
          BY <4>3, <5>7 DEF Stayed
        <5> QED BY <5>4, <5>5, <5>8
      <4> QED BY <1>3, <4>3, <4>4 DEF Stayed, Stepped, Pairs, t
    <3>3. CASE m # 0
      <4> HIDE DEF p
      <4>1. t = Enter([s EXCEPT !.cache = GetIndexBlock(@, m)], 1)
        BY <1>1, <1>3, <2>5, <3>3
      <4>2. LET d == [s EXCEPT !.cache = GetIndexBlock(@, m)]
            IN ItemsOf(d) # <<>> => 1 \in 1..Len(ItemsOf(d))
        <5> DEFINE d == [s EXCEPT !.cache = GetIndexBlock(@, m)]
        <5>1. Fetch(s, d, m, n, l)
          BY <2>1, FetchFacts
        <5> HIDE DEF d
        <5>2. Live(d.cache, n) /\ d.cache.blk \in Buffers
          BY <5>1 DEF Fetch, Seen
        <5>3. ItemsOf(d) \in Seq(Pairs)
          <6>1. d.cache.buf[d.cache.blk] \in Buffer(n)
            BY <5>2 DEF Live, Ok, BlockFile
          <6> QED BY <6>1, BufferFacts DEF ItemsOf, Items, Pairs
        <5>4. ItemsOf(d) # <<>> => Len(ItemsOf(d)) \in Nat /\ Len(ItemsOf(d)) > 0
          BY <5>3, EmptySeq, LenProperties
        <5> QED BY <5>4 DEF d
      <4>3. Entered(s, t, m, 1, n, l)
        BY <1>3, <2>1, <4>1, <4>2, StepEnters
      <4>4. ASSUME CursorOf(s) > 0
            PROVE  /\ CursorOf(t) = CursorOf(s) + 1 /\ t.ret = l[CursorOf(s) + 1]
                   /\ CursorOf(s) + 1 \in 1..Len(l) /\ t.idxError = s.idxError
        <5>1. PICK j, q : /\ At(s, j, q) /\ CursorOf(s) = O(s, j) + q /\ q = c
                          /\ w = ListAt(s, j) /\ m = Behind(BlocksOf(s), j)
                          /\ j \in 1..Len(s.shell) /\ q \in 1..Len(w)
          BY <2>3, <4>4
        <5>2. q = Len(w)
          BY <3>1, <5>1
        <5>3. j + 1 \in 1..Len(s.shell) /\ m = s.shell[j + 1].item
          BY <3>3, <5>1, NeighbourFacts
        <5>4. 1 \in 1..Len(ListAt(s, j + 1))
          <6>1. ListAt(s, j + 1) # <<>> /\ ListAt(s, j + 1) \in Seq(Pairs)
                /\ Len(ListAt(s, j + 1)) \in Nat
            BY <2>2, <5>3 DEF Full, Laid
          <6> QED BY <6>1, EmptySeq
        <5>5. /\ CursorOf(t) = O(s, j + 1) + 1 /\ t.ret = l[O(s, j + 1) + 1]
              /\ O(s, j + 1) + 1 \in 1..Len(l) /\ t.idxError = s.idxError
          BY <4>3, <5>3, <5>4 DEF Entered
        <5>6. O(s, j + 1) = O(s, j) + Len(ListAt(s, j))
          BY <2>2, <5>1 DEF Laid
        <5>7. O(s, j + 1) = CursorOf(s)
          BY <5>1, <5>2, <5>6
        <5> QED BY <5>5, <5>7
      <4> QED BY <1>3, <4>3, <4>4 DEF Entered, Stepped, t
    <3> QED BY <3>2, <3>3
  <2> QED BY <2>4, <2>5
<1> QED BY <1>2, <1>3
LEMMA PrevFacts ==
  ASSUME NEW s, NEW n, NEW l, Base(s, n, l), Full(s), ~Dangling(s)
  PROVE  Stepped(s, PrevIndexItem(s), -1, n, l)
<1> DEFINE t == PrevIndexItem(s)
           b == s.current
           w == s.cache.buf[b].list
           c == s.cache.buf[b].current
           p == IF c = TAIL THEN LastLink(w)
                ELSE IF c = HEAD \/ c = 1 THEN HEAD
                ELSE c - 1
           m == s.cache.buf[b].img.prevBlock
           a == [s EXCEPT !.cache = GetIndexBlock(@, m)]
<1>1. t = IF ~s.isSequential THEN Fail(s, "IDX_SEQUENCE")
          ELSE IF NoCursor(s) THEN NoPair(s)
          ELSE IF p # HEAD THEN [s EXCEPT !.cache.buf[b].current = p, !.ret = w[p]]
          ELSE IF m = 0
            THEN [NoPair(s) EXCEPT !.cache.buf[b].current = FirstLink(w), !.eof = TRUE]
          ELSE Enter(a, Len(ItemsOf(a)))
  BY DEF PrevIndexItem
<1> HIDE DEF t
<1>2. CASE ~s.isSequential \/ NoCursor(s)
  BY <1>1, <1>2, NotStepped DEF t
<1>3. CASE s.isSequential /\ ~NoCursor(s)
  <2>1. /\ b \in Buffers /\ w \in Items /\ Len(w) \in Nat
        /\ c \in Int /\ (c \in {HEAD, TAIL} \/ c \in 1..Len(w)) /\ m \in 0..n - 1
    BY <1>3, LinkFacts
  <2>2. Laid(s, l) /\ Named(s, n)
    BY BaseFacts
  <2>3. ASSUME CursorOf(s) > 0
        PROVE  \E j, q : /\ At(s, j, q) /\ CursorOf(s) = O(s, j) + q /\ q = c
                         /\ w = ListAt(s, j) /\ m = Before(BlocksOf(s), j)
                         /\ j \in 1..Len(s.shell) /\ q \in 1..Len(w)
                         /\ CursorOf(s) \in 1..Len(l)
    <3>1. PICK j, q : At(s, j, q)
      BY <2>3, CursorType
    <3>2. /\ CursorOf(s) = O(s, j) + q /\ w = ListAt(s, j) /\ m = Before(BlocksOf(s), j)
          /\ CursorOf(s) \in 1..Len(l)
      BY <3>1, CursorAt
    <3>3. q = c /\ j \in 1..Len(s.shell) /\ q \in 1..Len(ListAt(s, j))
      BY <3>1 DEF At
    <3> QED BY <3>1, <3>2, <3>3
  <2> HIDE DEF w, c, m
  <2>4. CASE p # HEAD
    <3>1. p \in 1..Len(w) /\ (c \in 1..Len(w) => p = c - 1)
      <4>1. w # <<>> => Len(w) > 0
        BY <2>1, EmptySeq DEF Items
      <4> QED BY <2>1, <2>4, <4>1 DEF LastLink, HEAD, TAIL
    <3> HIDE DEF p
    <3>2. t = [s EXCEPT !.cache.buf[b].current = p, !.ret = s.cache.buf[b].list[p]]
      BY <1>1, <1>3, <2>4 DEF w
    <3>3. MovedWithin(s, t, p, n, l)
      BY <1>3, <2>1, <3>1, <3>2, StepWithin DEF w
    <3>4. ASSUME CursorOf(s) > 0
          PROVE  CursorOf(t) = CursorOf(s) - 1 /\ t.ret = l[CursorOf(s) - 1]
                 /\ CursorOf(s) - 1 \in 1..Len(l)
      <4>1. PICK j, q : /\ At(s, j, q) /\ CursorOf(s) = O(s, j) + q /\ q = c
                        /\ j \in 1..Len(s.shell) /\ q \in 1..Len(w)
        BY <2>3, <3>4
      <4>2. CursorOf(t) = O(s, j) + p /\ t.ret = l[O(s, j) + p]
            /\ O(s, j) + p \in 1..Len(l)
        BY <3>3, <4>1 DEF MovedWithin
      <4>3. O(s, j) + p = CursorOf(s) - 1
        <5>1. p = q - 1 /\ q \in Int
          BY <3>1, <4>1
        <5>2. O(s, j) \in Nat
          BY <2>2, <4>1 DEF Laid, Named
        <5> QED BY <4>1, <5>1, <5>2
      <4> QED BY <4>2, <4>3
    <3> QED BY <1>3, <3>3, <3>4 DEF MovedWithin, Stepped, t
  <2>5. CASE p = HEAD
    <3>1. ASSUME NEW q \in 1..Len(w), q = c PROVE q = 1
      BY <2>1, <2>5, <3>1 DEF LastLink, HEAD, TAIL
    <3>2. CASE m = 0
      <4> DEFINE e == FirstLink(w)
      <4>1. e \in HEAD..Len(w) /\ (w # <<>> => e = 1)
        <5>1. w # <<>> => Len(w) > 0
          BY <2>1, EmptySeq DEF Items
        <5> QED BY <2>1, <5>1 DEF FirstLink, HEAD, TAIL
      <4> HIDE DEF e, p
      <4>2. t = [NoPair(s) EXCEPT !.cache.buf[b].current = e, !.eof = TRUE]
        BY <1>1, <1>3, <2>5, <3>2 DEF e
      <4>3. Stayed(s, t, e, n, l)
        BY <1>3, <2>1, <4>1, <4>2, StepStays DEF w
      <4>4. ASSUME CursorOf(s) > 0
            PROVE  CursorOf(t) = CursorOf(s) /\ CursorOf(s) - 1 \notin 1..Len(l)
        <5>1. PICK j, q : /\ At(s, j, q) /\ CursorOf(s) = O(s, j) + q /\ q = c
                          /\ w = ListAt(s, j) /\ m = Before(BlocksOf(s), j)
                          /\ j \in 1..Len(s.shell) /\ q \in 1..Len(w)
          BY <2>3, <4>4
        <5>2. q = 1
          BY <3>1, <5>1
        <5>3. j = 1
          BY <3>2, <5>1, NeighbourFacts
        <5>4. O(s, 1) = 0 /\ Len(l) \in Nat
          BY <2>2 DEF Laid
        <5>5. CursorOf(s) = 1
          BY <5>1, <5>2, <5>3, <5>4
        <5>6. w # <<>>
          BY <5>1
        <5>7. At(s, j, e)
          BY <4>1, <5>1, <5>2, <5>6
        <5>8. CursorOf(t) = CursorOf(s)
          BY <4>3, <5>7 DEF Stayed
        <5> QED BY <5>4, <5>5, <5>8
      <4> QED BY <1>3, <4>3, <4>4 DEF Stayed, Stepped, Pairs, t
    <3>3. CASE m # 0
      <4> HIDE DEF p
      <4> DEFINE P == Len(ItemsOf(a))
      <4>1. t = Enter([s EXCEPT !.cache = GetIndexBlock(@, m)], P)
        BY <1>1, <1>3, <2>5, <3>3
      <4>2. LET d == [s EXCEPT !.cache = GetIndexBlock(@, m)]
            IN ItemsOf(d) # <<>> => P \in 1..Len(ItemsOf(d))
        <5> DEFINE d == [s EXCEPT !.cache = GetIndexBlock(@, m)]
        <5>1. Fetch(s, d, m, n, l)
          BY <2>1, FetchFacts
        <5> HIDE DEF d
        <5>2. Live(d.cache, n) /\ d.cache.blk \in Buffers
          BY <5>1 DEF Fetch, Seen
        <5>3. ItemsOf(d) \in Seq(Pairs)
          <6>1. d.cache.buf[d.cache.blk] \in Buffer(n)
            BY <5>2 DEF Live, Ok, BlockFile
          <6> QED BY <6>1, BufferFacts DEF ItemsOf, Items, Pairs
        <5>4. ItemsOf(d) # <<>> => Len(ItemsOf(d)) \in Nat /\ Len(ItemsOf(d)) > 0
          BY <5>3, EmptySeq, LenProperties
        <5> QED BY <5>4 DEF d, P, a
      <4>6. Fetch(s, a, m, n, l)
        <5>1. Fetch(s, [s EXCEPT !.cache = GetIndexBlock(@, m)], m, n, l)
          BY <2>1, FetchFacts
        <5> QED BY <5>1 DEF a
      <4>7. P = Len(ItemsOf(a))
        BY DEF P
      <4> HIDE DEF P
      <4>3. Entered(s, t, m, P, n, l)
        BY <1>3, <2>1, <4>1, <4>2, StepEnters
      <4>4. ASSUME CursorOf(s) > 0
            PROVE  /\ CursorOf(t) = CursorOf(s) - 1 /\ t.ret = l[CursorOf(s) - 1]
                   /\ CursorOf(s) - 1 \in 1..Len(l) /\ t.idxError = s.idxError
        <5>1. PICK j, q : /\ At(s, j, q) /\ CursorOf(s) = O(s, j) + q /\ q = c
                          /\ w = ListAt(s, j) /\ m = Before(BlocksOf(s), j)
                          /\ j \in 1..Len(s.shell) /\ q \in 1..Len(w)
          BY <2>3, <4>4
        <5>2. q = 1
          BY <3>1, <5>1
        <5>3. j - 1 \in 1..Len(s.shell) /\ m = s.shell[j - 1].item
          BY <3>3, <5>1, NeighbourFacts
        <5>4. P = Len(ListAt(s, j - 1))
          BY <4>6, <4>7, <5>3 DEF Fetch
        <5>9. P \in 1..Len(ListAt(s, j - 1))
          <6>1. ListAt(s, j - 1) # <<>> /\ ListAt(s, j - 1) \in Seq(Pairs)
                /\ Len(ListAt(s, j - 1)) \in Nat
            BY <2>2, <5>3 DEF Full, Laid
          <6> QED BY <5>4, <6>1, EmptySeq
        <5>5. /\ CursorOf(t) = O(s, j - 1) + P /\ t.ret = l[O(s, j - 1) + P]
              /\ O(s, j - 1) + P \in 1..Len(l) /\ t.idxError = s.idxError
          BY <4>3, <5>3, <5>9 DEF Entered
        <5>6. O(s, (j - 1) + 1) = O(s, j - 1) + Len(ListAt(s, j - 1))
          BY <2>2, <5>3 DEF Laid
        <5>8. (j - 1) + 1 = j
          BY <5>1
        <5>7. O(s, j - 1) + P = CursorOf(s) - 1
          <6>1. O(s, j - 1) + P = O(s, j)
            BY <5>4, <5>6, <5>8
          <6>2. O(s, j) \in Nat
            BY <2>2, <5>1 DEF Laid, Named
          <6> QED BY <5>1, <5>2, <6>1, <6>2
        <5> QED BY <5>5, <5>7
      <4> QED BY <1>3, <4>3, <4>4 DEF Entered, Stepped, t
    <3> QED BY <3>2, <3>3
  <2> QED BY <2>4, <2>5
<1> QED BY <1>2, <1>3

-----------------------------------------------------------------------------
(* An open index whose keys are in order.                                  *)

(* The pairs l are in the order of their keys, each key once if unique.    *)
SortedBy(u, l) ==
  \A p, q \in 1..Len(l) : p < q => l[p].key <= l[q].key /\ (u => l[p].key # l[q].key)

(* Each treeKey has the key of the first pair of its block.                *)
Keyed(s) ==
  \A j \in 1..Len(s.shell) : ListAt(s, j) # <<>> /\ ListAt(s, j)[1].key = s.shell[j].key

(* s is the record of an open index that holds the pairs l in a file of n  *)
(* blocks.                                                                 *)
Good(s, n, l) ==
  /\ Base(s, n, l) /\ Keyed(s)
  /\ s.isUnique \in DOMAIN Uses /\ l \in Seq(Uses[s.isUnique].pairs)
  /\ SortedBy(s.isUnique, l)
  /\ s.numItems = Len(l) /\ n <= MaxBlocks + 1

(* Keys can be compared.                                                   *)
Comparable(s, l) ==
  /\ s.isUnique \in BOOLEAN /\ l \in Seq(KeyItem)
  /\ \A p \in 1..Len(l) : l[p] \in KeyItem /\ l[p].key \in Nat
  /\ Full(s)
  /\ \A j \in 1..Len(s.shell) :
       /\ 1 \in 1..Len(ListAt(s, j)) /\ O(s, j) + 1 \in 1..Len(l)
       /\ l[O(s, j) + 1].key = s.shell[j].key

LEMMA GoodFacts ==
  ASSUME NEW s, NEW n, NEW l, Good(s, n, l)
  PROVE  /\ Base(s, n, l) /\ Named(s, n) /\ Laid(s, l) /\ Comparable(s, l)
         /\ SortedBy(s.isUnique, l)
<1>1. Base(s, n, l) /\ Keyed(s) BY DEF Good
<1>2. Named(s, n) /\ Laid(s, l) BY <1>1, BaseFacts
<1>3. s.isUnique \in BOOLEAN /\ l \in Seq(KeyItem) BY UsesAssumption DEF Good
<1>4. \A p \in 1..Len(l) : l[p] \in KeyItem /\ l[p].key \in Nat
  BY <1>3, UsesAssumption
<1>5. Full(s) BY <1>1 DEF Full, Keyed
<1>6. ASSUME NEW j \in 1..Len(s.shell)
      PROVE  /\ 1 \in 1..Len(ListAt(s, j)) /\ O(s, j) + 1 \in 1..Len(l)
             /\ l[O(s, j) + 1].key = s.shell[j].key
  <2>1. ListAt(s, j) # <<>> /\ ListAt(s, j)[1].key = s.shell[j].key BY <1>1 DEF Keyed
  <2>2. ListAt(s, j) \in Seq(Pairs) BY <1>2 DEF Laid
  <2> DEFINE L == ListAt(s, j)
  <2>3. L # <<>> /\ L \in Seq(Pairs) BY <2>1, <2>2
  <2> HIDE DEF L
  <2>4. 1 \in 1..Len(L) BY <2>3
  <2>5. 1 \in 1..Len(ListAt(s, j)) BY <2>4 DEF L
  <2> QED BY <2>1, <2>5, <1>2 DEF Laid
<1> QED BY <1>1, <1>2, <1>3, <1>4, <1>5, <1>6 DEF Good, Comparable

(* The positions of the pairs with key k.                                  *)
Has(l, k) == {p \in 1..Len(l) : l[p].key = k}

(* The pairs before position o have smaller keys than k.                   *)
Under(l, o, k) == \A p \in 1..o : l[p].key < k

(* The treeKey i that the shell finds for key k.                           *)
Queried(s, i, k, l) ==
  /\ i \in 1..Len(s.shell)
  /\ \A p \in 1..Len(l) : p > O(s, i + 1) =>
       k <= l[p].key /\ (s.shell[i].key # k => k < l[p].key)
  /\ ~BlockBefore(s, i, k) => Under(l, O(s, i), k)
  /\ BlockBefore(s, i, k) =>
       /\ i - 1 \in 1..Len(s.shell) /\ i > 1 /\ s.shell[i].key = k
       /\ Under(l, O(s, i - 1), k)
  /\ s.shell[i].key <= k \/ (i = 1 /\ k < s.shell[1].key)
  /\ k = s.shell[1].key => i = 1

(* What the search of the shell compares.                                  *)
Chosen(s, i, k) ==
  /\ i \in 1..Len(s.shell)
  /\ \A j \in 1..Len(s.shell) : j < i => s.shell[j].key < k
  /\ \A j \in 1..Len(s.shell) : j > i =>
       k <= s.shell[j].key
  /\ \/ s.shell[i].key = k
     \/ i = 1 /\ k < s.shell[1].key
     \/ /\ s.shell[i].key < k
        /\ i = Len(s.shell) \/ (i + 1 \in 1..Len(s.shell) /\ k < s.shell[i + 1].key)

LEMMA QueryChooses ==
  ASSUME NEW s, NEW n, Named(s, n), s.shell # <<>>, NEW k \in Nat,
         s.shell \in Seq(TreeKeys(n)),
         \A i, j \in 1..Len(s.shell) : i <= j => s.shell[i].key <= s.shell[j].key
  PROVE  Chosen(s, Query(s, k), k)
<1> DEFINE N == {i \in DOMAIN s.shell : k <= s.shell[i].key}
           i == Min(N)
           K(j) == s.shell[j].key
           m == Len(s.shell)
<1>1. m \in Nat /\ DOMAIN s.shell = 1..m /\ \A j \in 1..m : K(j) \in Nat BY DEF Named
<1>2. m >= 1
  <2>1. m # 0 BY DEF TreeKeys
  <2> QED BY <2>1, <1>1
<1>3. Query(s, k) = IF N = {} THEN m ELSE IF k = K(i) \/ i = 1 THEN i ELSE i - 1
  BY DEF Query
<1>4. \A a, b \in 1..m : a <= b => K(a) <= K(b) OBVIOUS
<1>5. N = {j \in 1..m : k <= K(j)} BY <1>1
<1>6. N # {} => i \in N /\ \A j \in N : i <= j
  <2>1. N \in SUBSET Nat BY <1>5
  <2> QED BY <2>1, MinOfSome
<1>7. \A j \in 1..m : K(j) < k \/ k <= K(j) BY <1>1
<1> DEFINE r == Query(s, k)
<1> HIDE DEF r, i
<1>8. CASE N = {}
  <2>1. r = m BY <1>8, <1>3 DEF r
  <2>2. \A j \in 1..m : K(j) < k BY <1>8, <1>5, <1>7
  <2>3. m \in 1..m BY <1>1, <1>2
  <2> QED BY <2>1, <2>2, <2>3, <1>1 DEF Chosen, r
<1>9. CASE N # {}
  <2>1. i \in 1..m /\ k <= K(i) /\ \A j \in 1..m : k <= K(j) => i <= j
    BY <1>9, <1>6, <1>5
  <2>2. \A j \in 1..m : j < i => K(j) < k
    <3>1. ASSUME NEW j \in 1..m, j < i PROVE K(j) < k
      <4>1. ~(i <= j) BY <3>1, <2>1, <1>1
      <4> QED BY <4>1, <2>1, <1>7
    <3> QED BY <3>1
  <2>3. \A j \in 1..m : j >= i => k <= K(j)
    <3>1. ASSUME NEW j \in 1..m, i <= j PROVE k <= K(j)
      <4>1. K(i) <= K(j) BY <3>1, <2>1, <1>4
      <4> QED BY <4>1, <2>1, <1>1
    <3> QED BY <3>1, <2>1
  <2>4. CASE k = K(i) \/ i = 1
    <3>1. r = i BY <2>4, <1>9, <1>3 DEF r
    <3>2. k = K(i) \/ (i = 1 /\ k < K(1)) BY <2>4, <2>1, <1>1
    <3> QED BY <3>1, <3>2, <2>1, <2>2, <2>3 DEF Chosen, r
  <2>5. CASE ~(k = K(i) \/ i = 1)
    <3>1. r = i - 1 BY <2>5, <1>9, <1>3 DEF r
    <3>2. k < K(i) /\ i > 1 BY <2>5, <2>1, <1>1
    <3>3. r \in 1..m /\ r + 1 = i /\ r < i BY <3>1, <3>2, <2>1, <1>1
    <3>4. K(r) < k BY <3>3, <2>2
    <3>5. \A j \in 1..m : j < r => K(j) < k BY <3>3, <2>2, <2>1
    <3>6. \A j \in 1..m : j > r => k <= K(j) BY <3>3, <2>3, <2>1
    <3> QED BY <3>2, <3>3, <3>4, <3>5, <3>6, <2>1 DEF Chosen, r
  <2> QED BY <2>4, <2>5
<1> QED BY <1>8, <1>9

-----------------------------------------------------------------------------
(* What the searches of an index find.                                     *)

(* The first keys of the blocks are in order.                              *)
LEMMA KeysRise ==
  ASSUME NEW s, NEW n, NEW l, Good(s, n, l),
         NEW i \in 1..Len(s.shell), NEW j \in 1..Len(s.shell), i <= j
  PROVE  /\ s.shell[i].key <= s.shell[j].key
         /\ s.isUnique /\ i # j => s.shell[i].key < s.shell[j].key
<1> DEFINE a == O(s, i) + 1
           b == O(s, j) + 1
           K(e) == s.shell[e].key
<1>1. Laid(s, l) /\ Comparable(s, l) /\ SortedBy(s.isUnique, l) /\ Named(s, n)
  BY GoodFacts
<1>2. a \in 1..Len(l) /\ b \in 1..Len(l) /\ l[a].key = K(i) /\ l[b].key = K(j)
  BY <1>1 DEF Comparable
<1>3. K(i) \in Nat /\ K(j) \in Nat /\ Len(l) \in Nat BY <1>1 DEF Named, Laid
<1>4. CASE i = j BY <1>4, <1>3
<1>5. CASE i # j
  <2>1. i + 1 \in 1..Len(s.shell) + 1 /\ i + 1 \in 1..j /\ j \in 1..Len(s.shell) + 1
    BY <1>5, <1>1 DEF Named
  <2>2. O(s, i + 1) <= O(s, j) BY <2>1, <1>1 DEF Laid
  <2>3. O(s, i + 1) = O(s, i) + Len(ListAt(s, i)) /\ Len(ListAt(s, i)) \in Nat
    BY <1>1 DEF Laid
  <2>4. Len(ListAt(s, i)) >= 1 BY <1>1, <2>3 DEF Comparable
  <2>5. O(s, i) \in Nat /\ O(s, j) \in Nat
    <3>1. i \in 1..Len(s.shell) + 1 BY <1>1 DEF Named
    <3> QED BY <2>1, <3>1, <1>1 DEF Laid
  <2>6. a < b BY <2>2, <2>3, <2>4, <2>5
  <2> HIDE DEF a, b
  <2>7. l[a].key <= l[b].key /\ (s.isUnique => l[a].key # l[b].key)
    BY <2>6, <1>2, <1>1 DEF SortedBy
  <2> QED BY <2>7, <1>2, <1>3
<1> QED BY <1>4, <1>5

(* A pair before the j-th block has at most its first key, and any other   *)
(* pair at least that.                                                     *)
LEMMA AroundBlock ==
  ASSUME NEW s, NEW n, NEW l, Good(s, n, l), NEW j \in 1..Len(s.shell),
         NEW p \in 1..Len(l)
  PROVE  /\ p <= O(s, j) => l[p].key <= s.shell[j].key
         /\ p <= O(s, j) /\ s.isUnique => l[p].key < s.shell[j].key
         /\ p > O(s, j) => s.shell[j].key <= l[p].key
<1> DEFINE b == O(s, j) + 1
           K(e) == s.shell[e].key
<1>1. Laid(s, l) /\ Comparable(s, l) /\ SortedBy(s.isUnique, l) /\ Named(s, n)
  BY GoodFacts
<1>2. b \in 1..Len(l) /\ l[b].key = K(j) BY <1>1 DEF Comparable
<1>3. K(j) \in Nat /\ Len(l) \in Nat /\ l[p].key \in Nat
  BY <1>1 DEF Named, Laid, Comparable
<1>4. O(s, j) \in Nat
  <2>1. j \in 1..Len(s.shell) + 1 BY <1>1 DEF Named
  <2> QED BY <2>1, <1>1 DEF Laid
<1>5. p <= O(s, j) => p < b BY <1>4
<1>6. p > O(s, j) => p = b \/ b < p BY <1>4
<1> HIDE DEF b
<1>7. p < b => l[p].key <= l[b].key /\ (s.isUnique => l[p].key # l[b].key)
  BY <1>2, <1>1 DEF SortedBy
<1>8. b < p => l[b].key <= l[p].key
  BY <1>2, <1>1 DEF SortedBy
<1> QED BY <1>2, <1>3, <1>5, <1>6, <1>7, <1>8

LEMMA QueryFacts ==
  ASSUME NEW s, NEW n, NEW l, Good(s, n, l), s.shell # <<>>, NEW k \in Nat
  PROVE  Queried(s, Query(s, k), k, l)
<1> DEFINE i == Query(s, k)
           K(e) == s.shell[e].key
           m == Len(s.shell)
<1>1. Laid(s, l) /\ Comparable(s, l) /\ SortedBy(s.isUnique, l) /\ Named(s, n)
      /\ Base(s, n, l)
  BY GoodFacts
<1>2. s.shell \in Seq(TreeKeys(n)) BY <1>1 DEF Base
<1>3. \A a, b \in 1..m : a <= b => K(a) <= K(b) BY KeysRise
<1>4. Chosen(s, i, k) BY <1>1, <1>2, <1>3, QueryChooses
<1> HIDE DEF i
<1>5. i \in 1..m /\ m \in Nat /\ \A e \in 1..m : K(e) \in Nat
  BY <1>4, <1>1 DEF Chosen, Named
<1>6. \A p \in 1..Len(l) : l[p].key \in Nat BY <1>1 DEF Comparable
<1>7. Len(l) \in Nat /\ (i \in 1..m + 1 => O(s, i) \in 0..Len(l))
      /\ O(s, m + 1) = Len(l)
  BY <1>1 DEF Laid
<1>8. ASSUME NEW p \in 1..Len(l), p > O(s, i + 1)
      PROVE  k <= l[p].key /\ (K(i) # k => k < l[p].key)
  <2>1. i # m BY <1>8, <1>7
  <2>2. i + 1 \in 1..m /\ i + 1 > i BY <2>1, <1>5
  <2>3. K(i + 1) <= l[p].key BY <2>2, <1>8, AroundBlock
  <2>4. k <= K(i + 1) BY <2>2, <1>4 DEF Chosen
  <2>5. k <= l[p].key BY <2>2, <2>3, <2>4, <1>5, <1>6
  <2>6. K(i) # k => k < K(i + 1)
    <3>1. CASE i = 1 /\ k < K(1)
      \* the second treeKey is not below the first
      <4>1. K(i) <= K(i + 1) BY <1>3, <1>5, <2>2
      <4> QED BY <4>1, <3>1, <2>2, <1>5
    <3>2. CASE K(i) < k
      <4>1. ~(K(i) = k) /\ ~(i = 1 /\ k < K(1))
        <5>1. i = 1 => K(1) = K(i) OBVIOUS
        <5> QED BY <3>2, <5>1, <1>5
      <4>2. k < s.shell[i + 1].key BY <4>1, <2>1, <1>4 DEF Chosen
      <4> QED BY <4>2
    <3>3. K(i) = k \/ (i = 1 /\ k < K(1)) \/ K(i) < k BY <1>4 DEF Chosen
    <3> QED BY <3>1, <3>2, <3>3
  <2> QED BY <2>2, <2>3, <2>5, <2>6, <1>5, <1>6
<1>9. ~BlockBefore(s, i, k) => Under(l, O(s, i), k)
  <2> SUFFICES ASSUME ~BlockBefore(s, i, k), NEW p \in 1..O(s, i)
               PROVE  l[p].key < k
    BY DEF Under
  <2>1. i \in 1..m + 1 BY <1>5
  <2>2. p \in 1..Len(l) /\ p <= O(s, i) BY <2>1, <1>7
  <2>3. l[p].key <= K(i) /\ (s.isUnique => l[p].key < K(i)) BY <2>2, <1>5, AroundBlock
  <2>4. i # 1 BY <1>1 DEF Laid
  <2>5. K(i) = k => s.isUnique BY <2>4, <1>5 DEF BlockBefore
  <2>6. K(i) <= k BY <2>4, <1>4, <1>5 DEF Chosen
  <2> QED BY <2>2, <2>3, <2>5, <2>6, <1>5, <1>6
<1>10. BlockBefore(s, i, k) =>
         i - 1 \in 1..m /\ i > 1 /\ K(i) = k /\ Under(l, O(s, i - 1), k)
  <2> SUFFICES ASSUME BlockBefore(s, i, k)
               PROVE  i - 1 \in 1..m /\ i > 1 /\ K(i) = k /\ Under(l, O(s, i - 1), k)
    OBVIOUS
  <2>1. i > 1 /\ K(i) = k /\ i - 1 \in 1..m /\ i - 1 \in 1..m + 1 /\ i - 1 < i
    BY <1>5 DEF BlockBefore
  <2>2. K(i - 1) < k BY <2>1, <1>4 DEF Chosen
  <2>3. O(s, i - 1) \in 0..Len(l) BY <2>1, <1>1 DEF Laid
  <2>4. ASSUME NEW p \in 1..O(s, i - 1) PROVE l[p].key < k
    <3>1. p \in 1..Len(l) /\ p <= O(s, i - 1) BY <2>3, <1>7
    <3>2. l[p].key <= K(i - 1) BY <2>1, <3>1, AroundBlock
    <3>3. l[p].key \in Nat /\ K(i - 1) \in Nat /\ k \in Nat
      BY <3>1, <2>1, <1>5, <1>6
    <3> HIDE DEF K
    <3> QED BY <3>2, <3>3, <2>2
  <2> QED BY <2>1, <2>4 DEF Under
<1>11. K(i) <= k \/ (i = 1 /\ k < K(1)) BY <1>4, <1>5 DEF Chosen
<1>12. k = K(1) => i = 1
  <2>1. 1 \in 1..m BY <1>5
  <2> QED BY <2>1, <1>4, <1>5 DEF Chosen
<1> QED BY <1>5, <1>8, <1>9, <1>10, <1>11, <1>12 DEF Queried, i

(* A block that is looked at, with smaller keys before it.                 *)
BlockRead(s, j, k, l) ==
  LET p == KeyPos(ListAt(s, j), k)
  IN /\ p # 0 => /\ p \in 1..Len(ListAt(s, j)) /\ Has(l, k) # {}
                 /\ O(s, j) + p = Min(Has(l, k))
     /\ p = 0 => /\ \A e \in 1..O(s, j + 1) : l[e].key # k
                 /\ \A q \in 1..Len(ListAt(s, j)) : ListAt(s, j)[q].key # k

LEMMA BlockReads ==
  ASSUME NEW s, NEW l, Laid(s, l), \A p \in 1..Len(l) : l[p].key \in Nat,
         NEW j \in 1..Len(s.shell), Len(s.shell) \in Nat,
         NEW k \in Nat, Under(l, O(s, j), k)
  PROVE  BlockRead(s, j, k, l)
<1> DEFINE L == ListAt(s, j)
           o == O(s, j)
           p == KeyPos(L, k)
<1>1. L \in Seq(Pairs) /\ Len(L) \in Nat /\ O(s, j + 1) = o + Len(L)
  BY DEF Laid
<1>2. \A q \in 1..Len(L) : o + q \in 1..Len(l) /\ l[o + q] = L[q] BY DEF Laid
<1>3. o \in 0..Len(l) /\ Len(l) \in Nat
  <2>1. j \in 1..Len(s.shell) + 1 OBVIOUS
  <2> QED BY <2>1 DEF Laid
<1>4. FirstAt(L, p, {e \in Pairs : e.key = k}) BY <1>1, KeyPosFacts
<1>5. \A q \in 1..Len(L) : L[q] \in Pairs BY <1>1
<1>6. \A e \in 1..o : l[e].key < k BY DEF Under
<1>7. O(s, j) = o /\ O(s, j + 1) = o + Len(L) BY <1>1
<1> HIDE DEF L, o, p
<1>8. CASE p = 0
  <2>1. \A q \in 1..Len(L) : L[q].key # k BY <1>8, <1>4, <1>5 DEF FirstAt
  <2>2. ASSUME NEW e \in 1..o + Len(L) PROVE l[e].key # k
    <3>1. CASE e <= o
      <4>1. e \in 1..o BY <3>1, <1>3
      <4>2. l[e].key < k /\ e \in 1..Len(l) BY <4>1, <1>6, <1>3
      <4> QED BY <4>2
    <3>2. CASE ~(e <= o)
      <4>1. PICK q \in 1..Len(L) : e = o + q
        <5>1. e - o \in 1..Len(L) /\ e = o + (e - o) BY <3>2, <1>1, <1>3
        <5> QED BY <5>1
      <4> QED BY <4>1, <1>2, <2>1
    <3> QED BY <3>1, <3>2
  <2> QED BY <1>8, <2>1, <2>2, <1>7 DEF BlockRead, L, p
<1>9. CASE p # 0
  <2>1. p \in 1..Len(L) /\ L[p].key = k
        /\ \A q \in 1..Len(L) : L[q].key = k => p <= q
    BY <1>9, <1>4, <1>5 DEF FirstAt
  <2> DEFINE H == Has(l, k)
  <2>2. H = {e \in 1..Len(l) : l[e].key = k} BY DEF Has
  <2>3. o + p \in H BY <2>1, <2>2, <1>2
  <2>4. ASSUME NEW e \in H PROVE o + p <= e
    <3>1. e \in 1..Len(l) /\ l[e].key = k BY <2>2
    <3>2. ~(e <= o)
      <4>1. SUFFICES ASSUME e <= o PROVE FALSE OBVIOUS
      <4>2. e \in 1..o BY <4>1, <3>1, <1>3
      <4>3. l[e].key < k BY <4>2, <1>6
      <4> QED BY <4>3, <3>1
    <3>3. CASE e > o + Len(L) BY <3>3, <3>1, <2>1, <1>1, <1>3
    <3>4. CASE ~(e > o + Len(L))
      <4>1. PICK q \in 1..Len(L) : e = o + q
        <5>1. e - o \in 1..Len(L) /\ e = o + (e - o) BY <3>2, <3>4, <3>1, <1>1, <1>3
        <5> QED BY <5>1
      <4>2. p <= q BY <4>1, <1>2, <3>1, <2>1
      <4> QED BY <4>1, <4>2, <2>1, <1>3, <1>1
    <3> QED BY <3>3, <3>4
  <2>5. H \in SUBSET Int BY <2>2, <1>3
  <2>6. Min(H) = o + p
    <3> HIDE DEF H
    <3> QED BY <2>3, <2>4, <2>5, MinIs
  <2> QED BY <1>9, <2>1, <2>3, <2>6, <1>7 DEF BlockRead, L, p, H
<1> QED BY <1>8, <1>9

-----------------------------------------------------------------------------
(* The two searches, with the block that is looked at first written out.   *)

LEMMA ExactIs ==
  ASSUME NEW s, NEW k
  PROVE  SearchExactIndexItem(s, k) =
    LET i == Query(s, k)
        a == Visit(s, i - 1)
        v == Visit(s, i)
        w == Visit(a, i)
    IN IF s.shell = <<>> THEN EmptyShell(s)
       ELSE IF BlockBefore(s, i, k)
         THEN IF KeyPos(ItemsOf(a), k) # 0 THEN Seek(a, KeyPos(ItemsOf(a), k))
              ELSE IF KeyPos(ItemsOf(w), k) # 0 THEN Seek(w, KeyPos(ItemsOf(w), k))
              ELSE NoPair(w)
       ELSE IF KeyPos(ItemsOf(v), k) # 0 THEN Seek(v, KeyPos(ItemsOf(v), k))
       ELSE NoPair(v)
PROOF BY DEF SearchExactIndexItem

LEMMA SearchIs ==
  ASSUME NEW s, NEW k
  PROVE  SearchIndexItem(s, k) =
    LET i == Query(s, k)
        a == Visit(s, i - 1)
        v == Visit(s, i)
        w == Visit(a, i)
        Best(b) == Seek(b, Max({1} \cup {p \in DOMAIN ItemsOf(b) :
              ItemsOf(b)[p].key < k}))
    IN IF s.shell = <<>> THEN EmptyShell(s)
       ELSE IF BlockBefore(s, i, k)
         THEN IF ItemsOf(a) = <<>> THEN NoPair(a)
              ELSE IF KeyPos(ItemsOf(a), k) # 0 THEN Seek(a, KeyPos(ItemsOf(a), k))
              ELSE IF ItemsOf(w) = <<>> THEN NoPair(w)
              ELSE IF KeyPos(ItemsOf(w), k) # 0 THEN Seek(w, KeyPos(ItemsOf(w), k))
              ELSE Best(w)
       ELSE IF ItemsOf(v) = <<>> THEN NoPair(v)
       ELSE IF KeyPos(ItemsOf(v), k) # 0 THEN Seek(v, KeyPos(ItemsOf(v), k))
       ELSE Best(v)
PROOF BY DEF SearchIndexItem

(* Numbers that are keys.                                                  *)
NumKeys(l) == \A p \in 1..Len(l) : l[p].key \in Nat

(* The call has found the first pair with key k.                           *)
FoundKey(s, t, k, n, l) ==
  /\ Reads(s, t, n, l) /\ t.idxError = s.idxError /\ t.isSequential
  /\ Has(l, k) # {} /\ Min(Has(l, k)) \in 1..Len(l)
  /\ CursorOf(t) = Min(Has(l, k)) /\ t.ret = l[Min(Has(l, k))]

(* It has been in the i-th block, and found none there.                    *)
Missed(s, v, i, k, n, l) ==
  /\ Reads(s, v, n, l) /\ CacheOnly(s, v) /\ Drift(s, v) /\ Arrived(v, i, n, l)
  /\ v.idxError = s.idxError /\ ItemsOf(v) = ListAt(s, i)
  /\ \A e \in 1..O(s, i + 1) : l[e].key # k
  /\ \A q \in 1..Len(ListAt(s, i)) : ListAt(s, i)[q].key # k

Looked(s, v, i, k, n, l) ==
  LET p == KeyPos(ItemsOf(v), k)
  IN /\ p # 0 => FoundKey(s, Seek(v, p), k, n, l)
     /\ p = 0 => Missed(s, v, i, k, n, l)

LEMMA LookFinds ==
  ASSUME NEW s, NEW n, NEW l, Base(s, n, l), NumKeys(l), NEW i \in 1..Len(s.shell),
         NEW k \in Nat, Under(l, O(s, i), k)
  PROVE  Looked(s, Visit(s, i), i, k, n, l)
<1> DEFINE v == Visit(s, i)
           p == KeyPos(ItemsOf(v), k)
<1>1. /\ Arrived(v, i, n, l) /\ CacheOnly(s, v) /\ Drift(s, v) /\ SameLayout(s, v)
      /\ Quiet(s, v) /\ v.idxError = s.idxError
  BY Arrives
<1>2. Laid(s, l) /\ Named(s, n) BY BaseFacts
<1>3. Len(s.shell) \in Nat BY <1>2 DEF Named
<1>4. BlockRead(s, i, k, l) BY <1>2, <1>3, BlockReads DEF NumKeys
<1>5. ItemsOf(v) = ListAt(v, i) /\ Base(v, n, l) BY <1>1 DEF Arrived
<1>6. ListAt(v, i) = ListAt(s, i) /\ O(v, i) = O(s, i)
  <2>1. i \in 1..Len(s.shell) + 1 BY <1>3
  <2> QED BY <2>1, <1>1 DEF SameLayout
<1>7. p = KeyPos(ListAt(s, i), k) BY <1>5, <1>6
<1>8. Reads(s, v, n, l) BY <1>1, <1>5 DEF Reads
<1> HIDE DEF v, p
<1>9. CASE p # 0
  <2>1. p \in 1..Len(ListAt(s, i)) /\ Has(l, k) # {} /\ O(s, i) + p = Min(Has(l, k))
    BY <1>4, <1>7, <1>9 DEF BlockRead
  <2>2. p \in 1..Len(ListAt(v, i)) BY <2>1, <1>6
  <2> DEFINE t == Seek(v, p)
  <2>3. Landed(v, t, i, p, n, l) /\ t.idxError = v.idxError BY <2>2, <1>1, SeekLands
  <2>4. Reads(v, t, n, l) /\ t.isSequential BY <2>3 DEF Landed, Reads
  <2>5. CursorOf(t) = O(v, i) + p /\ t.ret = l[O(v, i) + p] /\ O(v, i) + p \in 1..Len(l)
    BY <2>3 DEF Landed
  <2> HIDE DEF t
  <2>6. Reads(s, t, n, l) BY <2>4, <1>8, ReadsTrans
  <2>7. FoundKey(s, t, k, n, l) BY <2>1, <2>3, <2>4, <2>5, <2>6, <1>1, <1>6 DEF FoundKey
  <2> QED BY <2>7, <1>9 DEF Looked, t, v, p
<1>10. CASE p = 0
  <2>1. /\ \A e \in 1..O(s, i + 1) : l[e].key # k
        /\ \A q \in 1..Len(ListAt(s, i)) : ListAt(s, i)[q].key # k
    BY <1>4, <1>7, <1>10 DEF BlockRead
  <2>2. Missed(s, v, i, k, n, l) BY <2>1, <1>1, <1>5, <1>6, <1>8 DEF Missed
  <2> QED BY <2>2, <1>10 DEF Looked, v, p
<1> QED BY <1>9, <1>10

(* After a call that only read, the same is known of the index.            *)
LEMMA UnderSame ==
  ASSUME NEW s, NEW t, NEW n, NEW l, Reads(s, t, n, l), Named(s, n),
         NEW i \in 1..Len(s.shell), NEW k
  PROVE  /\ Under(l, O(s, i), k) => Under(l, O(t, i), k)
         /\ i \in 1..Len(t.shell) /\ O(t, i) = O(s, i) /\ O(t, i + 1) = O(s, i + 1)
         /\ ListAt(t, i) = ListAt(s, i)
<1>1. SameLayout(s, t) BY DEF Reads
<1>2. i \in 1..Len(s.shell) + 1 /\ i + 1 \in 1..Len(s.shell) + 1 BY DEF Named
<1> QED BY <1>1, <1>2 DEF SameLayout, Under

(* Either block: the one before that of treeKey i, which may end with k.   *)
LEMMA MissedBefore ==
  ASSUME NEW s, NEW n, NEW l, Good(s, n, l), NEW i, NEW k \in Nat, Queried(s, i, k, l),
         BlockBefore(s, i, k), NEW v, Missed(s, v, i - 1, k, n, l)
  PROVE  Under(l, O(s, i), k)
<1>1. i \in 1..Len(s.shell) /\ i > 1 /\ s.shell[i].key = k BY DEF Queried
<1>2. i \in Int BY <1>1
<1>3. \A e \in 1..O(s, i) : l[e].key # k
  <2>1. (i - 1) + 1 = i BY <1>2
  <2>2. O(s, (i - 1) + 1) = O(s, i) BY <2>1
  <2>3. \A e \in 1..O(s, (i - 1) + 1) : l[e].key # k BY DEF Missed
  <2> QED BY <2>2, <2>3
<1>4. O(s, i) \in 0..Len(l) /\ Len(l) \in Nat /\ NumKeys(l)
  <2>1. Laid(s, l) /\ Comparable(s, l) /\ Named(s, n) BY GoodFacts
  <2>2. i \in 1..Len(s.shell) + 1 BY <1>1, <2>1 DEF Named
  <2> QED BY <2>1, <2>2 DEF Laid, Comparable, NumKeys
<1>5. ASSUME NEW e \in 1..O(s, i) PROVE l[e].key < k
  <2>1. e \in 1..Len(l) /\ e <= O(s, i) BY <1>4
  <2>2. l[e].key <= k BY <2>1, <1>1, AroundBlock
  <2> QED BY <2>1, <2>2, <1>3, <1>4 DEF NumKeys
<1> QED BY <1>5 DEF Under

-----------------------------------------------------------------------------
(* searchExactIndexItem and searchIndexItem.                               *)

(* From s to t the key k has been looked for.                              *)
Exact(s, t, k, n, l) ==
  /\ Reads(s, t, n, l) /\ t.idxError = s.idxError
  /\ Has(l, k) # {} => FoundKey(s, t, k, n, l)
  /\ Has(l, k) = {} => t.ret = Zeros /\ Drift(s, t)

(* With no key k in the block of treeKey i there is none.                  *)
LEMMA NotThere ==
  ASSUME NEW s, NEW n, NEW l, Good(s, n, l), NEW i, NEW k \in Nat, Queried(s, i, k, l),
         \A e \in 1..O(s, i + 1) : l[e].key # k,
         \A q \in 1..Len(ListAt(s, i)) : ListAt(s, i)[q].key # k
  PROVE  /\ Has(l, k) = {} /\ s.shell[i].key # k
         /\ \A p \in 1..Len(l) : p > O(s, i + 1) => k < l[p].key
<1>1. i \in 1..Len(s.shell) BY DEF Queried
<1>2. Keyed(s) /\ Comparable(s, l) /\ Laid(s, l) /\ Named(s, n) BY GoodFacts DEF Good
<1>3. 1 \in 1..Len(ListAt(s, i)) /\ ListAt(s, i)[1].key = s.shell[i].key
  BY <1>1, <1>2 DEF Keyed, Comparable
<1>4. s.shell[i].key # k BY <1>3
<1>5. \A p \in 1..Len(l) : p > O(s, i + 1) => k < l[p].key
  BY <1>4 DEF Queried
<1>6. O(s, i + 1) \in 0..Len(l) /\ Len(l) \in Nat /\ NumKeys(l)
  <2>1. i + 1 \in 1..Len(s.shell) + 1 BY <1>1, <1>2 DEF Named
  <2> QED BY <2>1, <1>2 DEF Laid, Comparable, NumKeys
<1>7. ASSUME NEW p \in 1..Len(l) PROVE l[p].key # k
  <2>1. CASE p > O(s, i + 1)
    <3>1. k < l[p].key BY <2>1, <1>5
    <3> QED BY <3>1
  <2>2. CASE ~(p > O(s, i + 1))
    <3>1. p \in 1..O(s, i + 1) BY <2>2, <1>6
    <3> QED BY <3>1
  <2> QED BY <2>1, <2>2
<1> QED BY <1>4, <1>5, <1>7 DEF Has

(* Nothing is known of the pair but that none is returned.                 *)
LEMMA NoPairReads ==
  ASSUME NEW s, NEW v, NEW n, NEW l, Reads(s, v, n, l), v.idxError = s.idxError,
         Drift(s, v)
  PROVE  LET t == NoPair(v)
         IN Reads(s, t, n, l) /\ t.idxError = s.idxError /\ t.ret = Zeros /\ Drift(s, t)
<1> DEFINE t == NoPair(v)
<1>1. Base(v, n, l) /\ Rec(v) BY DEF Reads, Base
<1>2. Core(v, t) /\ Quiet(v, t) /\ t.idxError = v.idxError /\ t.ret = Zeros
  BY <1>1 DEF Core, Quiet, NoPair, Rec, Flds
<1> HIDE DEF t
<1>3. Reads(v, t, n, l) /\ CursorOf(t) = CursorOf(v) BY <1>1, <1>2, CoreReads
<1>4. Reads(s, t, n, l) BY <1>3, ReadsTrans
<1>5. Drift(s, t) BY <1>3 DEF Drift
<1> QED BY <1>2, <1>4, <1>5 DEF t

LEMMA ExactFacts ==
  ASSUME NEW s, NEW n, NEW l, Good(s, n, l), s.shell # <<>>, NEW k \in Nat
  PROVE  Exact(s, SearchExactIndexItem(s, k), k, n, l)
<1> DEFINE i == Query(s, k)
           a == Visit(s, i - 1)
           v == Visit(s, i)
           w == Visit(a, i)
           t == SearchExactIndexItem(s, k)
<1> SUFFICES Exact(s, t, k, n, l) OBVIOUS
<1>1. Base(s, n, l) /\ Laid(s, l) /\ Named(s, n) /\ NumKeys(l)
  BY GoodFacts DEF Comparable, NumKeys
<1>2. Queried(s, i, k, l) BY QueryFacts
<1>3. t = IF BlockBefore(s, i, k)
            THEN IF KeyPos(ItemsOf(a), k) # 0 THEN Seek(a, KeyPos(ItemsOf(a), k))
                 ELSE IF KeyPos(ItemsOf(w), k) # 0 THEN Seek(w, KeyPos(ItemsOf(w), k))
                 ELSE NoPair(w)
          ELSE IF KeyPos(ItemsOf(v), k) # 0 THEN Seek(v, KeyPos(ItemsOf(v), k))
          ELSE NoPair(v)
  BY ExactIs
<1> HIDE DEF i, t
<1>4. i \in 1..Len(s.shell) BY <1>2 DEF Queried
<1>5. \A u : FoundKey(s, u, k, n, l) => Exact(s, u, k, n, l)
  BY DEF FoundKey, Exact
<1>6. CASE ~BlockBefore(s, i, k)
  <2>1. Under(l, O(s, i), k) BY <1>6, <1>2 DEF Queried
  <2>2. Looked(s, v, i, k, n, l) BY <2>1, <1>1, <1>4, LookFinds
  <2>3. t = IF KeyPos(ItemsOf(v), k) # 0 THEN Seek(v, KeyPos(ItemsOf(v),
        k)) ELSE NoPair(v)
    BY <1>3, <1>6
  <2> HIDE DEF v
  <2>4. CASE KeyPos(ItemsOf(v), k) # 0 BY <2>2, <2>3, <2>4, <1>5 DEF Looked
  <2>5. CASE KeyPos(ItemsOf(v), k) = 0
    <3>1. Missed(s, v, i, k, n, l) BY <2>2, <2>5 DEF Looked
    <3>2. Has(l, k) = {} BY <3>1, <1>2, NotThere DEF Missed
    <3>3. Reads(s, v, n, l) /\ v.idxError = s.idxError /\ Drift(s, v) BY <3>1 DEF Missed
    <3>4. t = NoPair(v) BY <2>3, <2>5
    <3>5. Reads(s, t, n, l) /\ t.idxError = s.idxError /\ t.ret = Zeros /\ Drift(s, t)
      BY <3>3, <3>4, NoPairReads
    <3> QED BY <3>2, <3>5 DEF Exact
  <2> QED BY <2>4, <2>5
<1>7. CASE BlockBefore(s, i, k)
  <2>1. /\ i - 1 \in 1..Len(s.shell) /\ s.shell[i].key = k /\ Under(l, O(s, i - 1), k)
    BY <1>7, <1>2 DEF Queried
  <2>2. Looked(s, a, i - 1, k, n, l) BY <2>1, <1>1, LookFinds
  <2>3. t = IF KeyPos(ItemsOf(a), k) # 0 THEN Seek(a, KeyPos(ItemsOf(a), k))
            ELSE IF KeyPos(ItemsOf(w), k) # 0 THEN Seek(w, KeyPos(ItemsOf(w), k))
            ELSE NoPair(w)
    BY <1>3, <1>7
  <2> HIDE DEF a
  <2>4. CASE KeyPos(ItemsOf(a), k) # 0 BY <2>2, <2>3, <2>4, <1>5 DEF Looked
  <2>5. CASE KeyPos(ItemsOf(a), k) = 0
    <3>1. Missed(s, a, i - 1, k, n, l) BY <2>2, <2>5 DEF Looked
    <3>2. Under(l, O(s, i), k) BY <3>1, <1>2, <1>7, MissedBefore
    <3>3. Reads(s, a, n, l) /\ a.idxError = s.idxError BY <3>1 DEF Missed
    <3>4. Under(l, O(a, i), k) /\ i \in 1..Len(a.shell) /\ ListAt(a, i) = ListAt(s, i)
          /\ O(a, i + 1) = O(s, i + 1)
      BY <3>2, <3>3, <1>1, <1>4, UnderSame
    <3>5. Base(a, n, l) BY <3>3 DEF Reads
    <3>6. Looked(a, w, i, k, n, l) BY <3>4, <3>5, <1>1, LookFinds
    <3>7. t = IF KeyPos(ItemsOf(w), k) # 0 THEN Seek(w, KeyPos(ItemsOf(w), k))
              ELSE NoPair(w)
      BY <2>3, <2>5
    <3> HIDE DEF w
    <3>8. KeyPos(ItemsOf(w), k) # 0
      <4>1. SUFFICES ASSUME KeyPos(ItemsOf(w), k) = 0 PROVE FALSE OBVIOUS
      <4>2. Missed(a, w, i, k, n, l) BY <3>6, <4>1 DEF Looked
      <4>3. /\ \A e \in 1..O(a, i + 1) : l[e].key # k
            /\ \A q \in 1..Len(ListAt(a, i)) : ListAt(a, i)[q].key # k
        BY <4>2 DEF Missed
      <4>4. s.shell[i].key # k BY <4>3, <3>4, <1>2, NotThere
      <4> QED BY <4>4, <2>1
    <3>9. FoundKey(a, t, k, n, l) BY <3>6, <3>7, <3>8 DEF Looked
    <3>10. FoundKey(s, t, k, n, l)
      <4>1. Reads(s, t, n, l) BY <3>3, <3>9, ReadsTrans DEF FoundKey
      <4> QED BY <4>1, <3>3, <3>9 DEF FoundKey
    <3> QED BY <3>10, <1>5
  <2> QED BY <2>4, <2>5
<1> QED BY <1>6, <1>7

(* A set of numbers with a bound has a greatest one.                       *)
LEMMA GreatestNumber ==
  ASSUME NEW n \in Nat, NEW S \in SUBSET (1..n), S # {}
  PROVE  \E m \in S : \A y \in S : y <= m
<1> DEFINE T == {n - y : y \in S}
<1>1. T \in SUBSET Nat /\ T # {}
  <2>1. \A y \in S : n - y \in Nat /\ n - y \in T OBVIOUS
  <2>2. PICK y \in S : TRUE OBVIOUS
  <2>3. T # {} BY <2>1, <2>2
  <2>4. T \in SUBSET Nat BY <2>1
  <2> QED BY <2>3, <2>4
<1>2. PICK x \in T : \A y \in T : ~(y < x)
  <2> HIDE DEF T
  <2> QED BY <1>1, LeastNumber
<1>3. PICK m \in S : x = n - m OBVIOUS
<1>4. ASSUME NEW y \in S PROVE y <= m
  <2>1. n - y \in T OBVIOUS
  <2>2. ~(n - y < n - m) BY <2>1, <1>2, <1>3
  <2> QED BY <2>2
<1> QED BY <1>4

(* The positions of the pairs with smaller keys.                           *)
Lesser(l, k) == {p \in 1..Len(l) : l[p].key < k}

(* The pair searchIndexItem settles for.                                   *)
BestOf(L, k) == Max({1} \cup {p \in DOMAIN L : L[p].key < k})

LEMMA BestFacts ==
  ASSUME NEW s, NEW n, NEW l, Good(s, n, l), NEW i, NEW k \in Nat, Queried(s, i, k, l),
         \A e \in 1..O(s, i + 1) : l[e].key # k,
         \A q \in 1..Len(ListAt(s, i)) : ListAt(s, i)[q].key # k,
         Under(l, O(s, i), k)
  PROVE  /\ BestOf(ListAt(s, i), k) \in 1..Len(ListAt(s, i))
         /\ O(s, i) + BestOf(ListAt(s, i), k) = Max({1} \cup Lesser(l, k))
<1> DEFINE L == ListAt(s, i)
           o == O(s, i)
           B == {1} \cup {p \in DOMAIN L : L[p].key < k}
           A == {1} \cup Lesser(l, k)
<1>1. i \in 1..Len(s.shell) BY DEF Queried
<1>2. /\ Keyed(s) /\ Comparable(s, l) /\ Laid(s, l) /\ Named(s, n)
      /\ SortedBy(s.isUnique, l)
  BY GoodFacts DEF Good
<1>3. s.shell[i].key # k /\ \A p \in 1..Len(l) : p > O(s, i + 1) => k < l[p].key
  BY NotThere
<1>4. 1 \in 1..Len(L) /\ L[1].key = s.shell[i].key BY <1>1, <1>2 DEF Keyed, Comparable
<1>5. /\ DOMAIN L = 1..Len(L) /\ Len(L) \in Nat /\ O(s, i + 1) = o + Len(L)
      /\ \A q \in 1..Len(L) : o + q \in 1..Len(l) /\ l[o + q] = L[q]
  BY <1>1, <1>2 DEF Laid
<1>6. Len(l) \in Nat /\ o \in 0..Len(l) /\ O(s, 1) = 0
  <2>1. i \in 1..Len(s.shell) + 1 BY <1>1, <1>2 DEF Named
  <2> QED BY <2>1, <1>2 DEF Laid
<1>7. \A p \in 1..Len(l) : l[p].key \in Nat BY <1>2 DEF Comparable
<1>8. \A p \in 1..o : l[p].key < k BY DEF Under
<1>9. s.shell[i].key < k \/ (i = 1 /\ k < s.shell[1].key)
  <2>1. s.shell[i].key <= k \/ (i = 1 /\ k < s.shell[1].key) BY DEF Queried
  <2>2. s.shell[i].key \in Nat BY <1>1, <1>2 DEF Named
  <2> QED BY <2>1, <2>2, <1>3
<1>10. B = {1} \cup {p \in 1..Len(L) : L[p].key < k} BY <1>5
<1>11. A = {1} \cup {p \in 1..Len(l) : l[p].key < k} BY DEF Lesser
<1>12. BestOf(L, k) = Max(B) BY DEF BestOf
<1>13. B \in SUBSET Int /\ A \in SUBSET Int BY <1>10, <1>11
<1>14. i = 1 => o = 0 BY <1>6
<1>15. \A p \in 1..Len(l) : o < p /\ p <= o + Len(L) => \E q \in 1..Len(L) : p = o + q
  <2>1. ASSUME NEW p \in 1..Len(l), o < p, p <= o + Len(L)
        PROVE  \E q \in 1..Len(L) : p = o + q
    <3>1. p - o \in 1..Len(L) /\ p = o + (p - o) BY <2>1, <1>5, <1>6
    <3> QED BY <3>1
  <2> QED BY <2>1
<1>16. L[1].key \in Nat /\ \A q \in 1..Len(L) : L[q].key \in Nat
  <2>1. ASSUME NEW q \in 1..Len(L) PROVE L[q].key \in Nat
    <3>1. o + q \in 1..Len(l) /\ l[o + q] = L[q] BY <1>5
    <3> QED BY <3>1, <1>7
  <2> QED BY <2>1, <1>4
<1>17. CASE i = 1 /\ k < s.shell[1].key
  <2>1. ASSUME NEW p \in 1..Len(l) PROVE ~(l[p].key < k)
    <3>1. s.shell[1].key <= l[p].key
      <4>1. p > O(s, 1) /\ 1 \in 1..Len(s.shell) BY <1>6, <1>1, <1>17
      <4> QED BY <4>1, AroundBlock
    <3>2. s.shell[1].key \in Nat BY <1>1, <1>17, <1>2 DEF Named
    <3> QED BY <3>1, <3>2, <1>17, <1>7
  <2>2. A = {1} BY <2>1, <1>11
  <2>3. ASSUME NEW q \in 1..Len(L) PROVE ~(L[q].key < k)
    <3>1. o + q \in 1..Len(l) /\ l[o + q] = L[q] BY <1>5
    <3> QED BY <3>1, <2>1
  <2>4. B = {1} BY <2>3, <1>10
  <2>5. Max({1}) = 1
    <3> DEFINE Z == {1}
    <3>1. Z \in SUBSET Int /\ 1 \in Z /\ \A y \in Z : y <= 1 OBVIOUS
    <3> HIDE DEF Z
    <3>2. Max(Z) = 1 BY <3>1, MaxIs
    <3> QED BY <3>2 DEF Z
  <2>6. o = 0 BY <1>14, <1>17
  <2>7. Max(B) = 1 /\ Max(A) = 1 BY <2>2, <2>4, <2>5
  <2> HIDE DEF A, B, o, L
  <2>8. BestOf(L, k) = 1 /\ o + 1 = Max(A) BY <2>6, <2>7, <1>12
  <2> QED BY <2>8, <1>4 DEF A, o, L
<1>18. CASE s.shell[i].key < k
  <2> HIDE DEF A, B, o, L
  <2>1. L[1].key < k BY <1>4, <1>18
  <2>2. B = {p \in 1..Len(L) : L[p].key < k} BY <2>1, <1>4, <1>10
  <2>3. B # {} /\ B \in SUBSET (1..Len(L)) BY <2>1, <2>2, <1>4
  <2>4. PICK m \in B : \A y \in B : y <= m BY <2>3, <1>5, GreatestNumber
  <2>5. Max(B) = m BY <2>4, <1>13, MaxIs
  <2>6. m \in 1..Len(L) /\ L[m].key < k BY <2>4, <2>2
  <2>7. o + m \in 1..Len(l) /\ l[o + m].key < k
    <3>1. o + m \in 1..Len(l) /\ l[o + m] = L[m] BY <2>6, <1>5
    <3> QED BY <3>1, <2>6
  <2>8. o + m \in A BY <2>7, <1>11
  <2>9. ASSUME NEW p \in A PROVE p <= o + m
    <3>1. CASE p = 1 BY <3>1, <2>6, <1>6
    <3>2. CASE p # 1
      <4>1. p \in 1..Len(l) /\ l[p].key < k BY <3>2, <1>11
      <4>2. ~(p > o + Len(L))
        <5>1. SUFFICES ASSUME p > o + Len(L) PROVE FALSE OBVIOUS
        <5>2. k < l[p].key BY <5>1, <4>1, <1>3, <1>5
        <5> QED BY <5>2, <4>1, <1>7
      <4>3. CASE p <= o BY <4>3, <4>1, <2>6, <1>6
      <4>4. CASE ~(p <= o)
        <5>1. o < p /\ p <= o + Len(L) BY <4>1, <4>2, <4>4, <1>5, <1>6
        <5>2. PICK q \in 1..Len(L) : p = o + q BY <5>1, <4>1, <1>15
        <5>3. L[q].key < k BY <5>2, <4>1, <1>5
        <5>4. q <= m BY <5>3, <2>2, <2>4
        <5> QED BY <5>2, <5>4, <2>6, <1>6
      <4> QED BY <4>3, <4>4
    <3> QED BY <3>1, <3>2
  <2>10. Max(A) = o + m BY <2>8, <2>9, <1>13, MaxIs
  <2>11. BestOf(L, k) = m /\ o + m = Max(A) BY <2>5, <2>10, <1>12
  <2> QED BY <2>11, <2>6 DEF A, o, L
<1> QED BY <1>9, <1>17, <1>18

(* searchIndexItem: the first pair with the key, or the best there is.     *)
BestPlace(l, k) == IF Has(l, k) # {} THEN Min(Has(l, k)) ELSE Max({1} \cup Lesser(l, k))

Nearest(s, t, k, n, l) ==
  /\ Reads(s, t, n, l) /\ t.idxError = s.idxError
  /\ CursorOf(t) = BestPlace(l, k) /\ t.ret = l[BestPlace(l, k)]
  /\ BestPlace(l, k) \in 1..Len(l)

Best(b, k) == Seek(b, BestOf(ItemsOf(b), k))

(* The block is not empty, and a pair of it is settled for.                *)
LEMMA BestLands ==
  ASSUME NEW s, NEW n, NEW l, Good(s, n, l), NEW i, NEW k \in Nat, Queried(s, i, k, l),
         Under(l, O(s, i), k), NEW v, Missed(s, v, i, k, n, l)
  PROVE  Nearest(s, Best(v, k), k, n, l)
<1> DEFINE m == BestOf(ListAt(s, i), k)
           t == Seek(v, m)
<1>1. /\ \A e \in 1..O(s, i + 1) : l[e].key # k
      /\ \A q \in 1..Len(ListAt(s, i)) : ListAt(s, i)[q].key # k
      /\ Reads(s, v, n, l) /\ Arrived(v, i, n, l) /\ v.idxError = s.idxError
      /\ ItemsOf(v) = ListAt(s, i)
  BY DEF Missed
<1>2. Has(l, k) = {} BY <1>1, NotThere
<1>3. m \in 1..Len(ListAt(s, i)) /\ O(s, i) + m = Max({1} \cup Lesser(l, k))
  BY <1>1, BestFacts
<1>4. O(s, i) + m = BestPlace(l, k) BY <1>2, <1>3 DEF BestPlace
<1>5. Named(s, n) /\ i \in 1..Len(s.shell) BY GoodFacts DEF Queried
<1>6. ListAt(v, i) = ListAt(s, i) /\ O(v, i) = O(s, i) BY <1>1, <1>5, UnderSame
<1>7. Best(v, k) = t BY <1>1 DEF Best
<1> HIDE DEF m
<1>8. Landed(v, t, i, m, n, l) /\ t.idxError = v.idxError
  <2>1. m \in 1..Len(ListAt(v, i)) BY <1>3, <1>6
  <2> QED BY <2>1, <1>1, SeekLands
<1> HIDE DEF t
<1>9. Reads(v, t, n, l) BY <1>8 DEF Landed, Reads
<1>10. Reads(s, t, n, l) BY <1>9, <1>1, ReadsTrans
<1>11. /\ CursorOf(t) = O(s, i) + m /\ t.ret = l[O(s, i) + m]
      /\ O(s, i) + m \in 1..Len(l)
  BY <1>8, <1>6 DEF Landed
<1> QED BY <1>1, <1>4, <1>7, <1>8, <1>10, <1>11 DEF Nearest

LEMMA SearchFacts ==
  ASSUME NEW s, NEW n, NEW l, Good(s, n, l), s.shell # <<>>, NEW k \in Nat
  PROVE  Nearest(s, SearchIndexItem(s, k), k, n, l)
<1> DEFINE i == Query(s, k)
           a == Visit(s, i - 1)
           v == Visit(s, i)
           w == Visit(a, i)
           t == SearchIndexItem(s, k)
<1> SUFFICES Nearest(s, t, k, n, l) OBVIOUS
<1>1. Base(s, n, l) /\ Laid(s, l) /\ Named(s, n) /\ NumKeys(l) /\ Full(s)
  BY GoodFacts DEF Comparable, NumKeys
<1>2. Queried(s, i, k, l) BY QueryFacts
<1>3. t = IF BlockBefore(s, i, k)
            THEN IF ItemsOf(a) = <<>> THEN NoPair(a)
                 ELSE IF KeyPos(ItemsOf(a), k) # 0 THEN Seek(a, KeyPos(ItemsOf(a), k))
                 ELSE IF ItemsOf(w) = <<>> THEN NoPair(w)
                 ELSE IF KeyPos(ItemsOf(w), k) # 0 THEN Seek(w, KeyPos(ItemsOf(w), k))
                 ELSE Best(w, k)
          ELSE IF ItemsOf(v) = <<>> THEN NoPair(v)
          ELSE IF KeyPos(ItemsOf(v), k) # 0 THEN Seek(v, KeyPos(ItemsOf(v), k))
          ELSE Best(v, k)
  BY SearchIs DEF Best, BestOf
<1> HIDE DEF i, t
<1>4. i \in 1..Len(s.shell) BY <1>2 DEF Queried
<1>5. \A u : FoundKey(s, u, k, n, l) => Nearest(s, u, k, n, l)
  BY DEF FoundKey, Nearest, BestPlace
<1>6. CASE ~BlockBefore(s, i, k)
  <2>1. Under(l, O(s, i), k) BY <1>6, <1>2 DEF Queried
  <2>2. Looked(s, v, i, k, n, l) BY <2>1, <1>1, <1>4, LookFinds
  <2>3. ItemsOf(v) # <<>>
    <3>1. ItemsOf(v) = ListAt(s, i) BY <1>1, <1>4, VisitFacts
    <3> QED BY <3>1, <1>1, <1>4 DEF Full
  <2>4. t = IF KeyPos(ItemsOf(v), k) # 0 THEN Seek(v, KeyPos(ItemsOf(v),
        k)) ELSE Best(v, k)
    BY <1>3, <1>6, <2>3
  <2> HIDE DEF v
  <2>5. CASE KeyPos(ItemsOf(v), k) # 0 BY <2>2, <2>4, <2>5, <1>5 DEF Looked
  <2>6. CASE KeyPos(ItemsOf(v), k) = 0
    <3>1. Missed(s, v, i, k, n, l) BY <2>2, <2>6 DEF Looked
    <3> QED BY <3>1, <2>1, <2>4, <2>6, <1>2, BestLands
  <2> QED BY <2>5, <2>6
<1>7. CASE BlockBefore(s, i, k)
  <2>1. /\ i - 1 \in 1..Len(s.shell) /\ s.shell[i].key = k /\ Under(l, O(s, i - 1), k)
    BY <1>7, <1>2 DEF Queried
  <2>2. Looked(s, a, i - 1, k, n, l) BY <2>1, <1>1, LookFinds
  <2>3. ItemsOf(a) # <<>>
    <3>1. ItemsOf(a) = ListAt(s, i - 1) BY <1>1, <2>1, VisitFacts
    <3> QED BY <3>1, <1>1, <2>1 DEF Full
  <2>4. t = IF KeyPos(ItemsOf(a), k) # 0 THEN Seek(a, KeyPos(ItemsOf(a), k))
            ELSE IF ItemsOf(w) = <<>> THEN NoPair(w)
            ELSE IF KeyPos(ItemsOf(w), k) # 0 THEN Seek(w, KeyPos(ItemsOf(w), k))
            ELSE Best(w, k)
    BY <1>3, <1>7, <2>3
  <2> HIDE DEF a
  <2>5. CASE KeyPos(ItemsOf(a), k) # 0 BY <2>2, <2>4, <2>5, <1>5 DEF Looked
  <2>6. CASE KeyPos(ItemsOf(a), k) = 0
    <3>1. Missed(s, a, i - 1, k, n, l) BY <2>2, <2>6 DEF Looked
    <3>2. Under(l, O(s, i), k) BY <3>1, <1>2, <1>7, MissedBefore
    <3>3. Reads(s, a, n, l) /\ a.idxError = s.idxError BY <3>1 DEF Missed
    <3>4. Under(l, O(a, i), k) /\ i \in 1..Len(a.shell) /\ ListAt(a, i) = ListAt(s, i)
          /\ O(a, i + 1) = O(s, i + 1)
      BY <3>2, <3>3, <1>1, <1>4, UnderSame
    <3>5. Base(a, n, l) BY <3>3 DEF Reads
    <3>6. Looked(a, w, i, k, n, l) BY <3>4, <3>5, <1>1, LookFinds
    <3>7. ItemsOf(w) # <<>>
      <4>1. ItemsOf(w) = ListAt(s, i) BY <3>4, <3>5, VisitFacts
      <4> QED BY <4>1, <1>1, <1>4 DEF Full
    <3>8. t = IF KeyPos(ItemsOf(w), k) # 0 THEN Seek(w, KeyPos(ItemsOf(w), k))
              ELSE Best(w, k)
      BY <2>4, <2>6, <3>7
    <3> HIDE DEF w
    <3>9. KeyPos(ItemsOf(w), k) # 0
      <4>1. SUFFICES ASSUME KeyPos(ItemsOf(w), k) = 0 PROVE FALSE OBVIOUS
      <4>2. Missed(a, w, i, k, n, l) BY <3>6, <4>1 DEF Looked
      <4>3. /\ \A e \in 1..O(a, i + 1) : l[e].key # k
            /\ \A q \in 1..Len(ListAt(a, i)) : ListAt(a, i)[q].key # k
        BY <4>2 DEF Missed
      <4>4. s.shell[i].key # k BY <4>3, <3>4, <1>2, NotThere
      <4> QED BY <4>4, <2>1
    <3>10. FoundKey(a, t, k, n, l) BY <3>6, <3>8, <3>9 DEF Looked
    <3>11. FoundKey(s, t, k, n, l)
      <4>1. Reads(s, t, n, l) BY <3>3, <3>10, ReadsTrans DEF FoundKey
      <4> QED BY <4>1, <3>3, <3>10 DEF FoundKey
    <3> QED BY <3>11, <1>5
  <2> QED BY <2>5, <2>6
<1> QED BY <1>6, <1>7

(* What is known of an index that has only been read.                      *)
LEMMA ReadsGood ==
  ASSUME NEW s, NEW t, NEW n, NEW l, Good(s, n, l), Reads(s, t, n, l)
  PROVE  Good(t, n, l)
<1>1. /\ Base(t, n, l) /\ t.isUnique = s.isUnique /\ t.numItems = s.numItems
      /\ t.shell = s.shell /\ SameLayout(s, t)
  BY DEF Reads, Quiet
<1>2. Keyed(s) BY DEF Good
<1>3. Keyed(t) BY <1>1, <1>2 DEF Keyed, SameLayout
<1> QED BY <1>1, <1>3 DEF Good

(* An index without treeKeys is one without pairs.                         *)
LEMMA EmptyFacts ==
  ASSUME NEW s, NEW n, NEW l, Good(s, n, l)
  PROVE  s.shell = <<>> <=> l = <<>>
<1>1. Named(s, n) /\ Laid(s, l) /\ Comparable(s, l) BY GoodFacts
<1>2. Len(s.shell) \in Nat /\ s.shell \in Seq(TreeKeys(n))
  BY <1>1, GoodFacts DEF Named, Base
<1>3. CASE s.shell = <<>>
  <2>1. Len(s.shell) = 0 BY <1>3
  <2>2. O(s, 0 + 1) = 0 /\ O(s, Len(s.shell) + 1) = Len(l) BY <1>1 DEF Laid
  <2>3. Len(l) = 0 BY <2>1, <2>2
  <2>4. l \in Seq(Pairs) BY <1>1 DEF Laid
  <2> QED BY <2>3, <2>4, <1>3
<1>4. CASE s.shell # <<>>
  <2>1. 1 \in 1..Len(s.shell) BY <1>2, <1>4
  <2>2. O(s, 1) + 1 \in 1..Len(l) BY <2>1, <1>1 DEF Comparable
  <2> QED BY <2>2, <1>4
<1> QED BY <1>3, <1>4

(* There are no treeKeys: nothing happens but the error.                   *)
LEMMA NoShellFacts ==
  ASSUME NEW s, NEW n, NEW l, Good(s, n, l)
  PROVE  /\ LET t == EmptyShell(s)
            IN /\ Base(t, n, l) /\ SameLayout(s, t) /\ CursorOf(t) = CursorOf(s)
               /\ t.isUnique = s.isUnique /\ t.numItems = s.numItems
               /\ Good(t, n, l) /\ t.ret = Zeros /\ t.idxError = "IDX_UNSTABLE"
         /\ LET t == NoPair(s)
            IN /\ Reads(s, t, n, l) /\ CursorOf(t) = CursorOf(s)
                  /\ t.idxError = s.idxError
               /\ t.ret = Zeros
<1> DEFINE t == EmptyShell(s)
           u == NoPair(s)
<1>1. Base(s, n, l) /\ Rec(s) /\ Keyed(s) BY DEF Good, Base
<1>2. /\ Core(s, t) /\ t.isUnique = s.isUnique /\ t.numItems = s.numItems
      /\ t.ret = Zeros /\ t.idxError = "IDX_UNSTABLE"
  BY <1>1 DEF Core, EmptyShell, Fail, Rec, Flds
<1>3. Core(s, u) /\ Quiet(s, u) /\ u.idxError = s.idxError /\ u.ret = Zeros
  BY <1>1 DEF Core, Quiet, NoPair, Rec, Flds
<1> HIDE DEF t, u
<1>4. Base(t, n, l) /\ CursorOf(t) = CursorOf(s) /\ SameLayout(s, t)
  BY <1>1, <1>2, SameCore
<1>5. Keyed(t) BY <1>1, <1>4 DEF Keyed, SameLayout
<1>6. Good(t, n, l) BY <1>2, <1>4, <1>5 DEF Good
<1>7. Reads(s, u, n, l) /\ CursorOf(u) = CursorOf(s) BY <1>1, <1>3, CoreReads
<1> QED BY <1>2, <1>3, <1>4, <1>6, <1>7 DEF t, u

(* From s to t the pair at position p has been read.                       *)
ReadAt(s, t, p, n, l) ==
  /\ Reads(s, t, n, l) /\ t.idxError = s.idxError
  /\ CursorOf(t) = p /\ t.ret = l[p] /\ p \in 1..Len(l)

LEMMA EndLands ==
  ASSUME NEW s, NEW n, NEW l, Good(s, n, l), NEW i \in 1..Len(s.shell),
         NEW p \in 1..Len(ListAt(s, i)), NEW t,
         LET v == Visit(s, i)
         IN Core(Seek(v, p), t) /\ Quiet(Seek(v, p), t)
               /\ t.idxError = Seek(v, p).idxError
            /\ t.ret = Seek(v, p).ret
  PROVE  ReadAt(s, t, O(s, i) + p, n, l)
<1> DEFINE v == Visit(s, i)
           w == Seek(v, p)
<1>1. Base(s, n, l) /\ Named(s, n) BY GoodFacts
<1>2. /\ Arrived(v, i, n, l) /\ SameLayout(s, v) /\ Quiet(s, v)
      /\ v.idxError = s.idxError
  BY <1>1, Arrives
<1>3. Reads(s, v, n, l) BY <1>2 DEF Arrived, Reads
<1>4. ListAt(v, i) = ListAt(s, i) /\ O(v, i) = O(s, i) BY <1>1, <1>3, UnderSame
<1>5. Core(w, t) /\ Quiet(w, t) /\ t.idxError = w.idxError /\ t.ret = w.ret OBVIOUS
<1> HIDE DEF v
<1>6. Landed(v, w, i, p, n, l) /\ w.idxError = v.idxError BY <1>2, <1>4, SeekLands
<1> HIDE DEF w
<1>7. Reads(v, w, n, l) /\ Base(w, n, l) BY <1>6 DEF Landed, Reads
<1>8. Reads(w, t, n, l) /\ CursorOf(t) = CursorOf(w) BY <1>5, <1>7, CoreReads
<1>9. Reads(s, t, n, l) BY <1>3, <1>7, <1>8, ReadsTrans
<1>10. /\ CursorOf(w) = O(s, i) + p /\ w.ret = l[O(s, i) + p]
       /\ O(s, i) + p \in 1..Len(l)
  BY <1>6, <1>4 DEF Landed
<1> QED BY <1>2, <1>5, <1>6, <1>8, <1>9, <1>10 DEF ReadAt

LEMMA EndsFacts ==
  ASSUME NEW s, NEW n, NEW l, Good(s, n, l), s.shell # <<>>
  PROVE  /\ ReadAt(s, FirstIndexItem(s), 1, n, l)
         /\ ReadAt(s, LastIndexItem(s), Len(l), n, l)
<1>1. Base(s, n, l) /\ Named(s, n) /\ Comparable(s, l) /\ Laid(s, l) BY GoodFacts
<1>2. Len(s.shell) \in Nat /\ s.shell \in Seq(TreeKeys(n)) BY <1>1 DEF Named, Base
<1> DEFINE z == Len(s.shell)
<1>3. 1 \in 1..z /\ z \in 1..z
  <2>1. z # 0 BY <1>2
  <2> QED BY <2>1, <1>2
<1>4. ASSUME NEW i \in 1..z
      PROVE  /\ ItemsOf(Visit(s, i)) = ListAt(s, i) /\ ListAt(s, i) # <<>>
             /\ 1 \in 1..Len(ListAt(s, i)) /\ Len(ListAt(s, i)) \in 1..Len(ListAt(s, i))
  <2>1. ItemsOf(Visit(s, i)) = ListAt(s, i) BY <1>1, VisitFacts
  <2>2. ListAt(s, i) # <<>> /\ 1 \in 1..Len(ListAt(s, i)) BY <1>1 DEF Comparable, Full
  <2>3. Len(ListAt(s, i)) \in Nat BY <1>1 DEF Laid
  <2> QED BY <2>1, <2>2, <2>3
<1>5. ASSUME NEW i \in 1..z, NEW p \in 1..Len(ListAt(s, i))
      PROVE  /\ LET t == [Seek(Visit(s, i), p) EXCEPT !.bof = TRUE]
                IN ReadAt(s, t, O(s, i) + p, n, l)
             /\ LET t == [Seek(Visit(s, i), p) EXCEPT !.eof = TRUE]
                IN ReadAt(s, t, O(s, i) + p, n, l)
  <2> DEFINE w == Seek(Visit(s, i), p)
             t == [w EXCEPT !.bof = TRUE]
             u == [w EXCEPT !.eof = TRUE]
  <2>1. Rec(w)
    <3>1. Arrived(Visit(s, i), i, n, l) /\ SameLayout(s, Visit(s, i)) BY <1>1, Arrives
    <3>2. ListAt(Visit(s, i), i) = ListAt(s, i) BY <3>1 DEF SameLayout
    <3>3. Landed(Visit(s, i), w, i, p, n, l) BY <3>1, <3>2, SeekLands
    <3> QED BY <3>3 DEF Landed, Base
  <2> HIDE DEF w
  <2>2. Core(w, t) /\ Quiet(w, t) /\ t.idxError = w.idxError /\ t.ret = w.ret
    BY <2>1 DEF Core, Quiet, Rec, Flds
  <2>3. Core(w, u) /\ Quiet(w, u) /\ u.idxError = w.idxError /\ u.ret = w.ret
    BY <2>1 DEF Core, Quiet, Rec, Flds
  <2> HIDE DEF t, u
  <2>4. ReadAt(s, t, O(s, i) + p, n, l) BY <2>2, EndLands DEF w
  <2>5. ReadAt(s, u, O(s, i) + p, n, l) BY <2>3, EndLands DEF w
  <2> QED BY <2>4, <2>5 DEF t, u, w
<1>6. ReadAt(s, FirstIndexItem(s), 1, n, l)
  <2>1. O(s, 1) + 1 = 1 BY <1>1 DEF Laid
  <2>2. FirstIndexItem(s) = [Seek(Visit(s, 1), 1) EXCEPT !.bof = TRUE]
    BY <1>3, <1>4 DEF FirstIndexItem
  <2>3. ReadAt(s, FirstIndexItem(s), O(s, 1) + 1, n, l) BY <1>3, <1>4, <1>5, <2>2
  <2> QED BY <2>1, <2>3
<1>7. ReadAt(s, LastIndexItem(s), Len(l), n, l)
  <2>1. O(s, z) + Len(ListAt(s, z)) = Len(l)
    <3>1. O(s, z + 1) = O(s, z) + Len(ListAt(s, z)) BY <1>1, <1>3 DEF Laid
    <3> QED BY <3>1, <1>1 DEF Laid
  <2>2. LastIndexItem(s) =
          [Seek(Visit(s, z), Len(ItemsOf(Visit(s, z)))) EXCEPT !.eof = TRUE]
    BY <1>3, <1>4 DEF LastIndexItem
  <2>3. ItemsOf(Visit(s, z)) = ListAt(s, z) BY <1>3, <1>4
  <2>4. LastIndexItem(s) = [Seek(Visit(s, z), Len(ListAt(s, z))) EXCEPT !.eof = TRUE]
    BY <2>2, <2>3
  <2>5. ReadAt(s, LastIndexItem(s), O(s, z) + Len(ListAt(s, z)), n, l)
    BY <1>3, <1>4, <1>5, <2>4
  <2> QED BY <2>1, <2>5
<1> QED BY <1>6, <1>7
=============================================================================
