----------------------------- MODULE IndexProofs -----------------------------
(***************************************************************************)
(* Index keeps the pairs of an index as its callers take it for: a sorted  *)
(* list, for every set of keys and items, every cache size and block       *)
(* capacity and every bound, in the uses that stay clear of what index.c   *)
(* gets wrong (WellUsed of module Index).                                  *)
(*                                                                         *)
(* The invariant IdxInv says Good(db, n, pairs) of an open index, for some *)
(* length n of its file (module IndexReads), and of a closed one Shut: the *)
(* same of the file alone.  Every update needs all of Good, because a      *)
(* split, an unlinked block and a key below all others must leave the next *)
(* search and the next step of a scan right.                               *)
(*                                                                         *)
(* First what addIndexItem and deleteIndexItem leave (AddOutcome,          *)
(* DeleteOutcome), and closing and opening; then the actions of Index,     *)
(* each shown to keep IdxInv and to be an action of SortedIndex.           *)
(***************************************************************************)
EXTENDS IndexReads

-----------------------------------------------------------------------------
(* addIndexItem.                                                           *)

(* The place of a key in a list: behind the keys that are not greater.     *)
PlaceIn(L, k) == 1 + Cardinality({q \in DOMAIN L : L[q].key <= k})

Ascends(L) == \A p, q \in 1..Len(L) : p < q => L[p].key <= L[q].key

LEMMA PlaceFacts ==
  ASSUME NEW L \in Seq(Pairs), \A q \in 1..Len(L) : L[q].key \in Nat, Ascends(L),
         NEW k \in Nat
  PROVE  /\ PlaceIn(L, k) \in 1..Len(L) + 1
         /\ \A q \in 1..Len(L) : /\ q < PlaceIn(L, k) => L[q].key <= k
                                 /\ q >= PlaceIn(L, k) => k < L[q].key
<1> DEFINE S == {q \in DOMAIN L : L[q].key <= k}
<1>1. Len(L) \in Nat /\ DOMAIN L = 1..Len(L) OBVIOUS
<1>2. S = {q \in 1..Len(L) : L[q].key <= k} BY <1>1
<1>3. PlaceIn(L, k) = 1 + Cardinality(S) BY DEF PlaceIn
<1>4. \A q \in 1..Len(L) : L[q].key <= k \/ k < L[q].key OBVIOUS
<1> HIDE DEF S
<1>5. PICK c \in 0..Len(L) : S = 1..c
  <2>1. CASE S = {}
    <3>1. 1..0 = {} OBVIOUS
    <3> QED BY <3>1, <2>1, <1>1
  <2>2. CASE S # {}
    <3>1. S \in SUBSET (1..Len(L)) BY <1>2
    <3>2. PICK m \in S : \A y \in S : y <= m BY <2>2, <3>1, <1>1, GreatestNumber
    <3>3. m \in 1..Len(L) /\ L[m].key <= k BY <3>2, <1>2
    <3>4. ASSUME NEW q \in 1..m PROVE q \in S
      <4>1. q \in 1..Len(L) /\ (q = m \/ q < m) BY <3>3, <1>1
      <4>2. q < m => L[q].key <= L[m].key BY <4>1, <3>3 DEF Ascends
      <4>3. L[q].key <= k BY <4>1, <4>2, <3>3
      <4> QED BY <4>1, <4>3, <1>2
    <3>5. \A q \in S : q \in 1..m BY <3>1, <3>2, <3>3
    <3>6. S = 1..m BY <3>4, <3>5
    <3>7. m \in 0..Len(L) BY <3>3, <1>1
    <3> QED BY <3>6, <3>7
  <2> QED BY <2>1, <2>2
<1>6. Cardinality(1..c) = c
  <2>1. c \in Nat /\ 1 \in Int /\ c \in Int BY <1>1
  <2>2. Cardinality(1..c) = IF 1 > c THEN 0 ELSE c - 1 + 1 BY <2>1, FS_Interval
  <2> QED BY <2>1, <2>2
<1>7. PlaceIn(L, k) = 1 + c BY <1>3, <1>5, <1>6
<1>8. ASSUME NEW q \in 1..Len(L)
      PROVE  /\ q < 1 + c => L[q].key <= k
             /\ q >= 1 + c => k < L[q].key
  <2>1. q < 1 + c => q \in S BY <1>5, <1>1
  <2>2. q >= 1 + c => q \notin S BY <1>5, <1>1
  <2> QED BY <2>1, <2>2, <1>2, <1>4
<1>9. 1 + c \in 1..Len(L) + 1 BY <1>1
<1> QED BY <1>7, <1>8, <1>9

(* A pair put where it belongs keeps the order.                            *)
LEMMA SortedInsert ==
  ASSUME NEW u, NEW l \in Seq(KeyItem), SortedBy(u, l), NEW ki \in KeyItem,
         NEW a \in 1..Len(l) + 1,
         \A p \in 1..Len(l) : /\ p < a => l[p].key <= ki.key
                              /\ p >= a => ki.key <= l[p].key,
         u => Has(l, ki.key) = {}
  PROVE  SortedBy(u, InsertAt(l, a, ki))
<1> DEFINE m == InsertAt(l, a, ki)
           E(j) == IF j < a THEN l[j] ELSE IF j = a THEN ki ELSE l[j - 1]
<1>1. /\ Len(l) \in Nat /\ Len(m) = Len(l) + 1
      /\ \A j \in 1..Len(l) + 1 : m[j] = E(j)
  BY InsertAtShape
<1>2. \A p \in 1..Len(l) : u => l[p].key # ki.key BY DEF Has
<1> HIDE DEF m
<1>3. ASSUME NEW p \in 1..Len(m), NEW q \in 1..Len(m), p < q
      PROVE  m[p].key <= m[q].key /\ (u => m[p].key # m[q].key)
  <2>1. p \in 1..Len(l) + 1 /\ q \in 1..Len(l) + 1 BY <1>1
  <2>2. m[p] = E(p) /\ m[q] = E(q) BY <2>1, <1>1
  <2> DEFINE y == IF q < a THEN q ELSE q - 1
             x == IF p < a THEN p ELSE p - 1
  <2>3. CASE p # a /\ q # a
    <3>1. x \in 1..Len(l) /\ y \in 1..Len(l) /\ x < y BY <2>1, <2>3, <1>3, <1>1
    <3>2. E(p) = l[x] /\ E(q) = l[y] BY <2>3
    <3> HIDE DEF x, y
    <3>3. l[x].key <= l[y].key /\ (u => l[x].key # l[y].key) BY <3>1 DEF SortedBy
    <3> QED BY <2>2, <3>2, <3>3
  <2>4. CASE p = a
    <3>1. y \in 1..Len(l) /\ y >= a /\ E(p) = ki /\ E(q) = l[y]
      BY <2>1, <2>4, <1>3, <1>1
    <3> HIDE DEF y
    <3>2. ki.key <= l[y].key /\ (u => ki.key # l[y].key) BY <3>1, <1>2
    <3> QED BY <2>2, <3>1, <3>2
  <2>5. CASE q = a
    <3>1. x \in 1..Len(l) /\ x < a /\ E(q) = ki /\ E(p) = l[x]
      BY <2>1, <2>5, <1>3, <1>1
    <3> HIDE DEF x
    <3>2. l[x].key <= ki.key /\ (u => l[x].key # ki.key) BY <3>1, <1>2
    <3> QED BY <2>2, <3>1, <3>2
  <2> QED BY <2>3, <2>4, <2>5
<1>4. SortedBy(u, m) BY <1>3 DEF SortedBy
<1> QED BY <1>4 DEF m

(* The cursor d after a pair has been put before position p, from c.       *)
Pushed(c, d, p) == d = IF c >= p THEN c + 1 ELSE c

(* From a to t the pair ki has been put before position p of the i-th      *)
(* block, which may have become too long.                                  *)
Inserted(a, t, i, p, ki, n, l) ==
  LET at == O(a, i) + p
  IN /\ Base(t, n, InsertAt(l, at, ki)) /\ at \in 1..Len(l) + 1
     /\ Len(InsertAt(l, at, ki)) = Len(l) + 1
     /\ t.shell = a.shell /\ t.numItems = a.numItems + 1 /\ t.ret = ki
     /\ t.isUnique = a.isUnique /\ t.idxError = a.idxError
     /\ t.isSequential = a.isSequential
     /\ \A j \in 1..Len(a.shell) :
          ListAt(t, j) = IF j = i THEN InsertAt(ListAt(a, i), p, ki) ELSE ListAt(a, j)
     /\ Youngest(t.cache, a.cache.blk)
     /\ t.cache.buf[a.cache.blk].blockNumber = a.shell[i].item
     /\ t.cache.buf[a.cache.blk].list = InsertAt(ListAt(a, i), p, ki)
     /\ Pushed(CursorOf(a), CursorOf(t), at)

(* The record addIndexItem leaves before it looks at the length.           *)
PutIn(a, p, ki) ==
  [a EXCEPT !.cache = InsertItem(@, a.cache.blk, p, ki), !.numItems = @ + 1, !.ret = ki]

(* One block has a pair more: where the others are.                        *)
LEMMA InsertPlaces ==
  ASSUME NEW a, NEW n, NEW l, Base(a, n, l), NEW t, NEW m, Base(t, n, m),
         t.shell = a.shell, NEW i \in 1..Len(a.shell),
         \A j \in 1..Len(a.shell) :
           Len(ListAt(t, j)) = Len(ListAt(a, j)) + (IF j = i THEN 1 ELSE 0),
         NEW j \in 1..Len(a.shell)
  PROVE  O(t, j) = O(a, j) + (IF j <= i THEN 0 ELSE 1)
<1> DEFINE B == BlocksOf(a)
<1>1. BlocksOf(t) = B BY DEF BlocksOf
<1>2. Named(a, n) /\ Spread(a.cache, B, l) BY BaseFacts
<1>3. Spread(t.cache, B, m) BY <1>1, BaseFacts
<1>4. Len(B) = Len(a.shell) /\ Len(B) \in Nat
      /\ \A e \in 1..Len(B) : B[e] = a.shell[e].item
  BY <1>2 DEF Named
<1>5. \A e \in 1..Len(B) :
        Many(t.cache, B[e]) = Many(a.cache, B[e]) + (IF e = i THEN 1 ELSE 0)
  BY <1>4 DEF Many, ListAt
<1>6. O(t, j) = Off(t.cache, B, j) /\ O(a, j) = Off(a.cache, B, j) BY <1>1 DEF O
<1> HIDE DEF B
<1>7. i \in 1..Len(B) /\ j \in 1..Len(B) + 1 /\ 1 \in Int BY <1>4
<1>8. Off(t.cache, B, j) = Off(a.cache, B, j) + (IF j <= i THEN 0 ELSE 1)
  BY <1>2, <1>3, <1>5, <1>7, OffAltered
<1> QED BY <1>6, <1>8

(* The record and the pairs of it.                                         *)
LEMMA PutInBase ==
  ASSUME NEW a, NEW i, NEW n, NEW l, Arrived(a, i, n, l),
         NEW p \in 1..Len(ListAt(a, i)) + 1, NEW ki \in KeyItem
  PROVE  LET t == PutIn(a, p, ki)
             b == a.cache.blk
         IN /\ Base(t, n, InsertAt(l, O(a, i) + p, ki))
            /\ O(a, i) + p \in 1..Len(l) + 1
            /\ t.shell = a.shell /\ t.numItems = a.numItems + 1 /\ t.ret = ki
            /\ t.isUnique = a.isUnique /\ t.idxError = a.idxError
            /\ t.isSequential = a.isSequential /\ t.current = a.current
            /\ \A j \in 1..Len(a.shell) :
                 ListAt(t, j) = IF j
                       = i THEN InsertAt(ListAt(a, i), p, ki) ELSE ListAt(a, j)
            /\ Youngest(t.cache, b) /\ b \in Buffers
            /\ \A d \in Buffers : d # b => t.cache.buf[d] = a.cache.buf[d]
            /\ t.cache.buf[b].blockNumber = a.shell[i].item
            /\ t.cache.buf[b].list = InsertAt(ListAt(a, i), p, ki)
            /\ t.cache.buf[b].current =
                 IF a.cache.buf[b].current >= p THEN a.cache.buf[b].current + 1
                                                ELSE a.cache.buf[b].current
<1> DEFINE t == PutIn(a, p, ki)
           b == a.cache.blk
           x == a.cache
           y == InsertItem(x, b, p, ki)
           c == WithItem(x.buf[b], p, ki)
           B == BlocksOf(a)
           L == InsertAt(ListAt(a, i), p, ki)
           M == InsertAt(l, O(a, i) + p, ki)
<1>1. /\ Base(a, n, l) /\ i \in 1..Len(a.shell) /\ b \in Buffers /\ b \in InUse(x)
      /\ Youngest(x, b) /\ x.buf[b].blockNumber = a.shell[i].item
      /\ x.buf[b].list = ListAt(a, i)
  BY DEF Arrived, ItemsOf
<1>2. /\ Named(a, n) /\ Ok(x, n) /\ Sound(x) /\ Live(x, n) /\ Rec(a)
      /\ Listed(x, B, l)
  BY <1>1, BaseFacts DEF Base
<1>3. /\ t.cache = y /\ t.shell = a.shell /\ t.numItems = a.numItems + 1 /\ t.ret = ki
      /\ t.isUnique = a.isUnique /\ t.idxError = a.idxError
      /\ t.isSequential = a.isSequential /\ t.current = a.current /\ Rec(t)
  BY <1>2 DEF PutIn, Rec, Flds
<1> HIDE DEF t
<1>4. /\ Revised(x, y, b, c, n) /\ c.list = InsertAt(x.buf[b].list, p, ki)
      /\ c.blockNumber = x.buf[b].blockNumber
      /\ c.current = IF x.buf[b].current >= p THEN x.buf[b].current + 1
                                              ELSE x.buf[b].current
  <2>1. p \in 1..Len(x.buf[b].list) + 1 BY <1>1
  <2> QED BY <2>1, <1>1, <1>2, InsertLive
<1> HIDE DEF y, c
<1>5. /\ Live(y, n) /\ Altered(x, y, a.shell[i].item, L, n) /\ Youngest(y, b)
      /\ Becomes(x, y, b, c)
  BY <1>1, <1>4 DEF Revised
<1>6. /\ B \in Seq(1..n - 1) /\ i \in DOMAIN B /\ B[i] = a.shell[i].item
      /\ Logical(x, B[i]).list = ListAt(a, i) /\ BlocksOf(t) = B
      /\ Len(PairsIn(x, SubSeq(B, 1, i - 1))) = O(a, i)
  BY <1>1, <1>2, <1>3 DEF Named, ListAt, O, Off, BlocksOf
<1> HIDE DEF B
<1>7. Listed(y, B, M) /\ O(a, i) + p \in 1..Len(l) + 1
  <2>1. Altered(x, y, B[i], InsertAt(Logical(x, B[i]).list, p, ki), n) BY <1>5, <1>6
  <2>2. p \in 1..Len(Logical(x, B[i]).list) + 1 BY <1>6
  <2> QED BY <2>1, <2>2, <1>2, <1>6, ListedAltered
<1>8. Base(t, n, M) BY <1>1, <1>3, <1>5, <1>6, <1>7 DEF Base
<1>9. ASSUME NEW j \in 1..Len(a.shell)
      PROVE  ListAt(t, j) = IF j = i THEN L ELSE ListAt(a, j)
  <2>1. a.shell[j].item \in 1..n - 1 BY <1>2 DEF Named
  <2>2. a.shell[j].item = a.shell[i].item => j = i
    <3>1. Laid(a, l) BY <1>1, BaseFacts
    <3> QED BY <3>1, <1>1 DEF Laid
  <2>3. Logical(y, a.shell[j].item).list =
          IF a.shell[j].item = a.shell[i].item THEN L ELSE Logical(x,
                a.shell[j].item).list
    BY <2>1, <1>5 DEF Altered
  <2> QED BY <2>2, <2>3, <1>3 DEF ListAt
<1>10. /\ \A d \in Buffers : d # b => y.buf[d] = x.buf[d]
       /\ y.buf[b] = c
  BY <1>5, <1>1 DEF Becomes
<1> HIDE DEF L, M
<1> QED BY <1>1, <1>3, <1>4, <1>5, <1>7, <1>8, <1>9, <1>10 DEF t, L, M

LEMMA CursorSum ==
  ASSUME NEW s, NEW n, NEW l, Base(s, n, l), NEW j, NEW q, At(s, j, q)
  PROVE  CursorOf(s) = O(s, j) + q
BY CursorAt

(* Where a buffer's position goes when a pair is put before position p of  *)
(* the list of buffer b.                                                   *)
LEMMA PutInCursor ==
  ASSUME NEW a, NEW i, NEW n, NEW l, Arrived(a, i, n, l),
         NEW p \in 1..Len(ListAt(a, i)) + 1, NEW t, NEW m, Base(t, n, m),
         t.shell = a.shell, t.isSequential = a.isSequential, t.current = a.current,
         NEW b, b = a.cache.blk,
         \A d \in Buffers : d # b => t.cache.buf[d] = a.cache.buf[d],
         t.cache.buf[b].blockNumber = a.shell[i].item,
         t.cache.buf[b].current =
           IF a.cache.buf[b].current >= p THEN a.cache.buf[b].current + 1
                                          ELSE a.cache.buf[b].current,
         \A j \in 1..Len(a.shell) :
           Len(ListAt(t, j)) = Len(ListAt(a, j)) + (IF j = i THEN 1 ELSE 0)
  PROVE  Pushed(CursorOf(a), CursorOf(t), O(a, i) + p)
<1>1. /\ Base(a, n, l) /\ i \in 1..Len(a.shell) /\ b \in Buffers /\ b \in InUse(a.cache)
      /\ a.cache.buf[b].blockNumber = a.shell[i].item
  BY DEF Arrived
<1>2. Laid(a, l) /\ Named(a, n) /\ Live(a.cache, n) BY <1>1, BaseFacts
<1>3. \A j \in 1..Len(a.shell) : O(t, j) = O(a, j) + (IF j <= i THEN 0 ELSE 1)
  BY <1>1, InsertPlaces
<1>4. \A j \in 1..Len(a.shell) : O(a, j) \in Nat /\ Len(ListAt(a, j)) \in Nat
  <2>1. ASSUME NEW j \in 1..Len(a.shell)
        PROVE O(a, j) \in Nat /\ Len(ListAt(a, j)) \in Nat
    <3>1. j \in 1..Len(a.shell) + 1 BY <1>2 DEF Named
    <3> QED BY <3>1, <1>2 DEF Laid
  <2> QED BY <2>1
(* only buffer b has the i-th block *)
<1>5. ASSUME NEW d \in Buffers, NEW j \in 1..Len(a.shell),
             a.cache.buf[d].blockNumber = a.shell[j].item
      PROVE  d = b <=> j = i
  <2>1. d = b => j = i BY <1>1, <1>2, <1>5 DEF Laid
  <2>2. j = i => d = b
    <3>1. a.shell[i].item # 0 BY <1>1, <1>2 DEF Named
    <3> QED BY <3>1, <1>1, <1>2, <1>5, InPlace
  <2> QED BY <2>1, <2>2
<1> DEFINE cur(e) == a.cache.buf[e].current
           up(q) == IF q >= p THEN q + 1 ELSE q
<1>6. ASSUME NEW j, NEW q, At(a, j, q)
      PROVE  Pushed(CursorOf(a), CursorOf(t), O(a, i) + p)
  <2> DEFINE d == a.current
             r == IF j = i THEN up(q) ELSE q
  <2>1. /\ a.isSequential /\ d \in Buffers /\ j \in 1..Len(a.shell)
        /\ a.cache.buf[d].blockNumber = a.shell[j].item
        /\ cur(d) = q /\ q \in 1..Len(ListAt(a, j))
    BY <1>6 DEF At
  <2>2. d = b <=> j = i BY <2>1, <1>5
  <2>3. t.cache.buf[d].current = r
    <3>1. CASE d = b BY <3>1, <2>1, <2>2
    <3>2. CASE d # b BY <3>2, <2>1, <2>2
    <3> QED BY <3>1, <3>2
  <2>4. t.cache.buf[d].blockNumber = t.shell[j].item
    <3>1. CASE d = b BY <3>1, <2>1, <2>2
    <3>2. CASE d # b BY <3>2, <2>1, <2>2
    <3> QED BY <3>1, <3>2
  <2>5. r \in 1..Len(ListAt(t, j))
    <3>1. Len(ListAt(t, j)) = Len(ListAt(a, j)) + (IF j = i THEN 1 ELSE 0) BY <2>1
    <3>2. Len(ListAt(a, j)) \in Nat BY <2>1, <1>4
    <3> QED BY <3>1, <3>2, <2>1
  <2>6. At(t, j, r) BY <2>1, <2>3, <2>4, <2>5 DEF At
  <2>7. CursorOf(t) = O(t, j) + r
    <3> HIDE DEF r, d, cur
    <3> QED BY <2>6, CursorSum
  <2>8. CursorOf(a) = O(a, j) + q BY <1>1, <1>6, CursorSum
  <2>9. O(t, j) = O(a, j) + (IF j <= i THEN 0 ELSE 1) BY <2>1, <1>3
  <2>10. O(a, j) + Len(ListAt(a, j)) = O(a, j + 1)
         /\ (j < i => O(a, j + 1) <= O(a, i))
         /\ (i < j => O(a, i + 1) <= O(a, j))
         /\ O(a, i) + Len(ListAt(a, i)) = O(a, i + 1)
    <3>1. Len(a.shell) \in Nat BY <1>2 DEF Named
    <3>2. j < i => i \in 1..Len(a.shell) + 1 /\ j + 1 \in 1..i BY <3>1, <2>1, <1>1
    <3>3. i < j => j \in 1..Len(a.shell) + 1 /\ i + 1 \in 1..j BY <3>1, <2>1, <1>1
    <3> QED BY <3>2, <3>3, <2>1, <1>1, <1>2 DEF Laid
  <2>11. /\ O(a, i) \in Nat /\ O(a, j) \in Nat /\ Len(ListAt(a, i)) \in Nat
         /\ Len(ListAt(a, j)) \in Nat /\ i \in Nat /\ j \in Nat /\ p \in Nat
               /\ q \in Nat
         /\ p <= Len(ListAt(a, i)) + 1 /\ q <= Len(ListAt(a, j)) /\ p >= 1 /\ q >= 1
    BY <2>1, <1>1, <1>4
  <2> DEFINE oi == O(a, i)
             oj == O(a, j)
             ki1 == Len(ListAt(a, i))
             kj == Len(ListAt(a, j))
             ca == CursorOf(a)
             ct == CursorOf(t)
  <2>12. ca = oj + q /\ ct = oj + (IF j <= i THEN 0 ELSE 1) + r
    BY <2>7, <2>8, <2>9, <2>11
  <2>13. (j < i => oj + kj <= oi) /\ (i < j => oi + ki1 <= oj) /\ (i = j => oi = oj)
    BY <2>10
  <2>14. /\ oi \in Nat /\ oj \in Nat /\ ki1 \in Nat /\ kj \in Nat /\ i \in Nat
        /\ j \in Nat
         /\ p \in Nat /\ q \in Nat /\ p <= ki1 + 1 /\ q <= kj /\ p >= 1 /\ q >= 1
    BY <2>11
  <2>15. r = IF j = i THEN IF q >= p THEN q + 1 ELSE q ELSE q OBVIOUS
  <2> HIDE DEF oi, oj, ki1, kj, ca, ct, r
  <2>16. ct = IF ca >= oi + p THEN ca + 1 ELSE ca
    <3>1. CASE j = i BY <3>1, <2>12, <2>13, <2>14, <2>15
    <3>2. CASE j < i BY <3>2, <2>12, <2>13, <2>14, <2>15
    <3>3. CASE i < j BY <3>3, <2>12, <2>13, <2>14, <2>15
    <3>4. j = i \/ j < i \/ i < j BY <2>14
    <3> QED BY <3>1, <3>2, <3>3, <3>4
  <2> QED BY <2>16 DEF Pushed, ca, ct, oi
<1>7. CASE \A j, q : ~At(a, j, q)
  <2>1. \A j, q : ~At(t, j, q)
    <3> SUFFICES ASSUME NEW j, NEW q, At(t, j, q) PROVE FALSE OBVIOUS
    <3> DEFINE d == a.current
    <3>1. /\ a.isSequential /\ d \in Buffers /\ j \in 1..Len(a.shell)
          /\ t.cache.buf[d].blockNumber = a.shell[j].item
          /\ t.cache.buf[d].current = q /\ q \in 1..Len(ListAt(t, j))
      BY DEF At
    <3>2. a.cache.buf[d].blockNumber = a.shell[j].item
      <4>1. CASE d = b BY <4>1, <3>1, <1>1
      <4>2. CASE d # b BY <4>2, <3>1
      <4> QED BY <4>1, <4>2
    <3>3. d = b <=> j = i BY <3>1, <3>2, <1>5
    <3>4. Len(ListAt(t, j)) = Len(ListAt(a, j)) + (IF j = i THEN 1 ELSE 0)
          /\ Len(ListAt(a, j)) \in Nat
      BY <3>1, <1>4
    <3>5. CASE d # b
      <4>1. cur(d) = q /\ q \in 1..Len(ListAt(a, j)) BY <3>1, <3>3, <3>4, <3>5
      <4>2. At(a, j, q) BY <4>1, <3>1, <3>2 DEF At
      <4> QED BY <4>2, <1>7
    <3>6. CASE d = b
      <4>1. q = up(cur(d)) /\ j = i BY <3>1, <3>3, <3>6
      <4>2. cur(d) \in Int
        <5>1. a.cache.buf[b] \in Buffer(n)
          <6>1. Ok(a.cache, n) BY <1>1, BaseFacts
          <6> QED BY <6>1, <1>1 DEF Ok, BlockFile
        <5> QED BY <5>1, <3>6, BufferFacts
      <4>3. cur(d) \in 1..Len(ListAt(a, j))
        <5>1. p \in 1..Len(ListAt(a, j)) + 1 BY <4>1
        <5>2. q \in 1..Len(ListAt(a, j)) + 1 BY <4>1, <3>1, <3>4
        <5> DEFINE z == cur(d)
               k == Len(ListAt(a, j))
        <5>3. q = IF z >= p THEN z + 1 ELSE z BY <4>1
        <5>4. z \in Int /\ k \in Nat /\ p \in 1..k + 1 /\ q \in 1..k + 1
          BY <5>1, <5>2, <3>4, <4>2
        <5> HIDE DEF z, k
        <5>5. z \in 1..k BY <5>3, <5>4
        <5> QED BY <5>5 DEF z, k
      <4>4. At(a, j, cur(d)) BY <4>3, <3>1, <3>2 DEF At
      <4> QED BY <4>4, <1>7
    <3> QED BY <3>5, <3>6
  <2>2. CASE a.isSequential
    <3>1. CursorOf(a) = -1 /\ CursorOf(t) = -1 BY <2>1, <2>2, <1>1, <1>7, CursorNowhere
    <3>2. O(a, i) + p > 0 BY <1>1, <1>4
    <3>3. ~(-1 >= O(a, i) + p) BY <3>2, <1>1, <1>4
    <3> QED BY <3>1, <3>3 DEF Pushed
  <2>3. CASE ~a.isSequential
    <3>1. CursorOf(a) = 0 /\ CursorOf(t) = 0 BY <2>3, <1>1, CursorNowhere
    <3>2. ~(0 >= O(a, i) + p) BY <1>1, <1>4
    <3> QED BY <3>1, <3>2 DEF Pushed
  <2> QED BY <2>2, <2>3
<1> QED BY <1>6, <1>7

LEMMA PutInFacts ==
  ASSUME NEW a, NEW i, NEW n, NEW l, Arrived(a, i, n, l), l \in Seq(KeyItem),
         NEW p \in 1..Len(ListAt(a, i)) + 1, NEW ki \in KeyItem
  PROVE  Inserted(a, PutIn(a, p, ki), i, p, ki, n, l)
<1> DEFINE t == PutIn(a, p, ki)
           b == a.cache.blk
           at == O(a, i) + p
           L == InsertAt(ListAt(a, i), p, ki)
<1>1. /\ Base(t, n, InsertAt(l, at, ki)) /\ at \in 1..Len(l) + 1
      /\ t.shell = a.shell /\ t.numItems = a.numItems + 1 /\ t.ret = ki
      /\ t.isUnique = a.isUnique /\ t.idxError = a.idxError
      /\ t.isSequential = a.isSequential /\ t.current = a.current
      /\ \A j \in 1..Len(a.shell) : ListAt(t, j) = IF j = i THEN L ELSE ListAt(a, j)
      /\ Youngest(t.cache, b) /\ b \in Buffers
      /\ \A d \in Buffers : d # b => t.cache.buf[d] = a.cache.buf[d]
      /\ t.cache.buf[b].blockNumber = a.shell[i].item
      /\ t.cache.buf[b].list = L
      /\ t.cache.buf[b].current =
           IF a.cache.buf[b].current >= p THEN a.cache.buf[b].current + 1
                                          ELSE a.cache.buf[b].current
  BY PutInBase
<1> HIDE DEF t
<1>2. Base(a, n, l) /\ i \in 1..Len(a.shell) BY DEF Arrived
<1>3. Laid(a, l) BY <1>2, BaseFacts
<1>4. Len(L) = Len(ListAt(a, i)) + 1
  <2>1. ListAt(a, i) \in Seq(Pairs) /\ ki \in Pairs BY <1>2, <1>3 DEF Laid, Pairs
  <2> QED BY <2>1, InsertAtShape
<1>5. Len(InsertAt(l, at, ki)) = Len(l) + 1 BY <1>1, InsertAtShape
<1> HIDE DEF L, at
<1>6. ASSUME NEW j \in 1..Len(a.shell)
      PROVE  Len(ListAt(t, j)) = Len(ListAt(a, j)) + (IF j = i THEN 1 ELSE 0)
  <2>1. CASE j = i BY <2>1, <1>1, <1>4
  <2>2. CASE j # i
    <3>1. ListAt(t, j) = ListAt(a, j) BY <2>2, <1>1
    <3>2. Len(ListAt(a, j)) \in Nat BY <1>3 DEF Laid
    <3> QED BY <3>1, <3>2, <2>2
  <2> QED BY <2>1, <2>2
<1>7. Pushed(CursorOf(a), CursorOf(t), O(a, i) + p) BY <1>1, <1>6, PutInCursor
<1> QED BY <1>1, <1>5, <1>7 DEF Inserted, t, at, L

LEMMA PairKeys == \A e \in Pairs : e.key \in Nat
PROOF BY UsesAssumption DEF Pairs, Zeros

(* From t to v the i-th block, which was too long, has been split.         *)
SplitTo(t, v, i, n, m) ==
  /\ Base(v, n + 1, m) /\ Drift(t, v)
  /\ v.numItems = t.numItems /\ v.ret = t.ret /\ v.isUnique = t.isUnique
  /\ v.idxError = t.idxError
  /\ Keyed(t) => Keyed(v)

(* The treeKeys and the blocks after the split.                            *)
SplitOff(t, v, i, n, m) ==
  /\ Base(v, n + 1, m) /\ Rec(v)
  /\ v.numItems = t.numItems /\ v.ret = t.ret /\ v.isUnique = t.isUnique
  /\ v.idxError = t.idxError /\ v.isSequential = t.isSequential /\ v.current = t.current
  /\ Calm(t.cache, v.cache)
  /\ Len(v.shell) = Len(t.shell) + 1
  /\ \A j \in 1..i : v.shell[j] = t.shell[j]
  /\ v.shell[i + 1] = [key |-> Moved(ListAt(t, i))[1].key, item |-> n]
  /\ \A j \in i + 2..Len(t.shell) + 1 : v.shell[j] = t.shell[j - 1]
  /\ ListAt(v, i) = SubSeq(ListAt(t, i), 1, Kept(ListAt(t, i)))
  /\ ListAt(v, i + 1) = Moved(ListAt(t, i))
  /\ \A j \in 1..Len(t.shell) : /\ j < i => ListAt(v, j) = ListAt(t, j)
                                /\ j > i => ListAt(v, j + 1) = ListAt(t, j)

LEMMA SplitMakes ==
  ASSUME NEW t, NEW n, NEW m, Base(t, n, m), NEW i \in 1..Len(t.shell), NEW b,
         Youngest(t.cache, b), t.cache.buf[b].blockNumber = t.shell[i].item,
         t.cache.buf[b].list = ListAt(t, i), Overflows(ListAt(t, i))
  PROVE  SplitOff(t, NameNewBlock([t EXCEPT !.cache = SplitBlock(@, b)], i), i, n, m)
<1> DEFINE u == [t EXCEPT !.cache = SplitBlock(@, b)]
           v == NameNewBlock(u, i)
           x == t.cache
           y == SplitBlock(x, b)
           L == ListAt(t, i)
           B == BlocksOf(t)
           e == [key |-> Moved(L)[1].key, item |-> n]
           S == TreeKeys(n + 1)
<1>1. /\ Named(t, n) /\ Laid(t, m) /\ Ok(x, n) /\ Sound(x) /\ n \in Nat \ {0}
      /\ Live(x, n) /\ Distinct(B) /\ Rec(t) /\ Listed(x, B, m)
      /\ t.current \in Buffers \cup {NULL} /\ t.isSequential \in BOOLEAN
  BY BaseFacts DEF Base
<1>2. L \in Seq(Pairs) /\ t.shell[i].item \in 1..n - 1 /\ Len(t.shell) \in Nat
  BY <1>1 DEF Laid, Named
<1>3. Halved(x, y, t.shell[i].item, L, n) BY <1>1, <1>2, SplitLive
<1> HIDE DEF y
<1>4. /\ Live(y, n + 1) /\ Calm(x, y) /\ Divided(x, y, t.shell[i].item, n)
      /\ y.blk \in Buffers /\ y.buf[y.blk].blockNumber = n
            /\ y.buf[y.blk].list = Moved(L)
  BY <1>3 DEF Halved
<1>5. y.blk # NULL BY <1>4, CacheNotEmpty
<1>6. u.cache = y /\ u.shell = t.shell BY <1>1 DEF Rec, Flds, y
<1>7. v = [u EXCEPT !.shell = InsertAt(t.shell, i + 1, e)]
  BY <1>4, <1>5, <1>6 DEF NameNewBlock, ItemsOf
<1>8. /\ v.cache = y /\ v.shell = InsertAt(t.shell, i + 1, e) /\ Rec(v)
      /\ v.numItems = t.numItems /\ v.ret = t.ret /\ v.isUnique = t.isUnique
      /\ v.idxError = t.idxError /\ v.isSequential = t.isSequential
      /\ v.current = t.current
  BY <1>1, <1>7 DEF Rec, Flds, y
<1> HIDE DEF u, v
<1>9. e \in S /\ t.shell \in Seq(S)
  <2>1. L \in Items BY <1>2 DEF Pairs, Items
  <2>2. Moved(L) \in Items /\ Moved(L) # <<>>
    BY <2>1, HalvesLengths DEF Overflows
  <2>3. Moved(L)[1] \in Pairs BY <2>2 DEF Items, Pairs
  <2>4. e \in S BY <2>3, <1>1, PairKeys DEF TreeKeys
  <2>5. t.shell \in Seq(TreeKeys(n)) BY DEF Base
  <2>6. TreeKeys(n) \subseteq S BY <1>1 DEF TreeKeys
  <2> QED BY <2>4, <2>5, <2>6
<1> HIDE DEF e, S
<1>10. GrownBehind(S, t.shell, i, e, v.shell) BY <1>8, <1>9, GrowsBehind
<1>11. /\ v.shell \in Seq(S) /\ Len(v.shell) = Len(t.shell) + 1
       /\ \A j \in 1..i : v.shell[j] = t.shell[j]
       /\ v.shell[i + 1] = e
       /\ \A j \in i + 2..Len(t.shell) + 1 : v.shell[j] = t.shell[j - 1]
       /\ DOMAIN v.shell = 1..Len(t.shell) + 1
  BY <1>10 DEF GrownBehind
<1>12. /\ B \in Seq(1..n - 1) /\ Len(B) = Len(t.shell)
       /\ \A j \in 1..Len(t.shell) : B[j] = t.shell[j].item
       /\ i \in DOMAIN B /\ DOMAIN B = 1..Len(t.shell)
  BY <1>1 DEF Named
<1>13. BlocksOf(v) = InsertAt(B, i + 1, n)
  <2> DEFINE C == InsertAt(B, i + 1, n)
  <2>1. GrownBehind(Int, B, i, n, C)
    <3>1. B \in Seq(Int) /\ n \in Int /\ i \in 1..Len(B) BY <1>12, <1>1
    <3> QED BY <3>1, GrowsBehind
  <2>2. /\ C \in Seq(Int) /\ DOMAIN C = 1..Len(t.shell) + 1
        /\ \A j \in 1..i : C[j] = B[j]
        /\ C[i + 1] = n
        /\ \A j \in i + 2..Len(t.shell) + 1 : C[j] = B[j - 1]
    BY <2>1, <1>12 DEF GrownBehind
  <2> HIDE DEF C
  <2>3. BlocksOf(v) = [j \in 1..Len(t.shell) + 1 |-> v.shell[j].item]
    BY <1>11 DEF BlocksOf
  <2>4. ASSUME NEW j \in 1..Len(t.shell) + 1 PROVE v.shell[j].item = C[j]
    <3>1. CASE j \in 1..i
      <4>1. j \in 1..Len(t.shell) BY <3>1, <1>2
      <4> QED BY <3>1, <4>1, <2>2, <1>11, <1>12
    <3>2. CASE j = i + 1 BY <3>2, <2>2, <1>11 DEF e
    <3>3. CASE j \in i + 2..Len(t.shell) + 1
      <4>1. j - 1 \in 1..Len(t.shell) BY <3>3, <1>2
      <4> QED BY <3>3, <4>1, <2>2, <1>11, <1>12
    <3>4. j \in 1..i \/ j = i + 1 \/ j \in i + 2..Len(t.shell) + 1 BY <1>2
    <3> QED BY <3>1, <3>2, <3>3, <3>4
  <2>5. C = [j \in 1..Len(t.shell) + 1 |-> C[j]] BY <2>2
  <2>6. BlocksOf(v) = C BY <2>3, <2>4, <2>5
  <2> QED BY <2>6 DEF C
<1>14. Listed(y, BlocksOf(v), m)
  <2>1. Divided(x, y, B[i], n) BY <1>4, <1>12
  <2> QED BY <2>1, <1>1, <1>12, <1>13, ListedSplit
<1>15. Base(v, n + 1, m) BY <1>1, <1>4, <1>8, <1>11, <1>14 DEF Base, S
<1>16. \A k \in 1..n :
         Logical(y, k).list =
           (CASE k = t.shell[i].item -> SubSeq(L, 1, Kept(L))
              [] k = n -> Moved(L)
              [] OTHER -> Logical(x, k).list)
  BY <1>4 DEF Divided, ListAt
<1>17. ListAt(v, i) = SubSeq(L, 1, Kept(L))
  <2>1. v.shell[i].item = t.shell[i].item /\ t.shell[i].item \in 1..n
        /\ t.shell[i].item # n
    BY <1>2, <1>11, <1>1
  <2>2. Logical(y, t.shell[i].item).list = SubSeq(L, 1, Kept(L)) BY <2>1, <1>16
  <2> QED BY <2>1, <2>2, <1>8 DEF ListAt
<1>18. ListAt(v, i + 1) = Moved(L)
  <2>1. v.shell[i + 1].item = n /\ n \in 1..n /\ n # t.shell[i].item
    BY <1>2, <1>11, <1>1 DEF e
  <2>2. Logical(y, n).list = Moved(L) BY <2>1, <1>16
  <2> QED BY <2>1, <2>2, <1>8 DEF ListAt
<1>19. ASSUME NEW j \in 1..Len(t.shell), j # i
       PROVE  Logical(y, t.shell[j].item).list = ListAt(t, j)
  <2>1. t.shell[j].item \in 1..n - 1 BY <1>1 DEF Named
  <2>2. t.shell[j].item # t.shell[i].item BY <1>19, <1>1 DEF Laid
  <2>3. t.shell[j].item \in 1..n /\ t.shell[j].item # n BY <2>1, <1>1
  <2> QED BY <2>2, <2>3, <1>16 DEF ListAt
<1>20. ASSUME NEW j \in 1..Len(t.shell)
       PROVE  /\ j < i => ListAt(v, j) = ListAt(t, j)
              /\ j > i => ListAt(v, j + 1) = ListAt(t, j)
  <2>1. CASE j < i
    <3>1. j \in 1..i BY <2>1, <1>2
    <3>2. v.shell[j] = t.shell[j] /\ j # i BY <3>1, <2>1, <1>11
    <3> QED BY <3>2, <2>1, <1>19, <1>8 DEF ListAt
  <2>2. CASE j > i
    <3>1. j + 1 \in i + 2..Len(t.shell) + 1 /\ (j + 1) - 1 = j BY <2>2, <1>2
    <3>2. v.shell[j + 1] = t.shell[j] /\ j # i BY <3>1, <2>2, <1>11
    <3> QED BY <3>2, <2>2, <1>19, <1>8 DEF ListAt
  <2> QED BY <2>1, <2>2
<1> HIDE DEF L
<1>21. v.shell[i + 1] = [key |-> Moved(L)[1].key, item |-> n] BY <1>11 DEF e
<1>22. Calm(t.cache, v.cache) BY <1>4, <1>8
<1> QED BY <1>8, <1>11, <1>15, <1>17, <1>18, <1>20, <1>21, <1>22 DEF SplitOff, L, v, u

(* The two halves h and z of L.                                            *)
Halves(L, h, z) ==
  /\ h # <<>> /\ z # <<>> /\ h[1] = L[1]
  /\ Len(h) + Len(z) = Len(L) /\ Len(h) <= Len(L)
  /\ Len(h) \in Nat /\ Len(z) \in Nat /\ Len(L) \in Nat

LEMMA HalvesOf ==
  ASSUME NEW L \in Seq(Pairs), Overflows(L)
  PROVE  Halves(L, SubSeq(L, 1, Kept(L)), Moved(L))
<1>1. L \in Items BY DEF Items, Pairs
<1>2. /\ Kept(L) \in Nat /\ Kept(L) <= Len(L) /\ Len(L) \in Nat
      /\ Len(SubSeq(L, 1, Kept(L))) = Kept(L)
      /\ Len(Moved(L)) = Len(L) - Kept(L) /\ Moved(L) \in Items
      /\ \A j \in 1..Kept(L) : SubSeq(L, 1, Kept(L))[j] = L[j]
      /\ Len(L) > numMaxItems => Kept(L) # 0 /\ Moved(L) # <<>>
  BY <1>1, HalvesLengths
<1>3. Kept(L) # 0 /\ Moved(L) # <<>> BY <1>2 DEF Overflows
<1>4. 1 \in 1..Kept(L) BY <1>2, <1>3
<1> DEFINE h == SubSeq(L, 1, Kept(L))
           z == Moved(L)
<1>5. h[1] = L[1] /\ Len(h) = Kept(L) /\ Len(z) = Len(L) - Kept(L) /\ z # <<>>
  BY <1>2, <1>3, <1>4
<1> HIDE DEF h, z
<1>6. Len(h) # 0 BY <1>3, <1>5
<1>7. h # <<>> BY <1>6
<1>8. Halves(L, h, z) BY <1>2, <1>5, <1>7 DEF Halves
<1> QED BY <1>8 DEF h, z

(* Where the blocks are after the split.                                   *)
LEMMA SplitPlaces ==
  ASSUME NEW t, NEW n, NEW m, Base(t, n, m), NEW i \in 1..Len(t.shell),
         Overflows(ListAt(t, i)), NEW v, SplitOff(t, v, i, n, m)
  PROVE  /\ \A j \in 1..i : O(v, j) = O(t, j)
         /\ \A j \in 1..Len(t.shell) : j > i => O(v, j + 1) = O(t, j)
<1> DEFINE B == BlocksOf(t)
           C == BlocksOf(v)
<1>1. Named(t, n) /\ Laid(t, m) /\ Spread(t.cache, B, m) BY BaseFacts
<1>2. Base(v, n + 1, m) /\ Len(v.shell) = Len(t.shell) + 1 BY DEF SplitOff
<1>3. Named(v, n + 1) /\ Laid(v, m) /\ Spread(v.cache, C, m) BY <1>2, BaseFacts
<1>4. /\ Len(B) = Len(t.shell) /\ Len(B) \in Nat
      /\ \A e \in 1..Len(B) : B[e] = t.shell[e].item /\ e \in 1..Len(t.shell)
  BY <1>1 DEF Named
<1>5. /\ Len(C) = Len(B) + 1
      /\ \A e \in 1..Len(C) : C[e] = v.shell[e].item /\ e \in 1..Len(v.shell)
  BY <1>2, <1>3, <1>4 DEF Named
<1>6. /\ \A e \in 1..Len(B) : Many(t.cache, B[e]) = Len(ListAt(t, e))
      /\ \A e \in 1..Len(C) : Many(v.cache, C[e]) = Len(ListAt(v, e))
  BY <1>4, <1>5 DEF Many, ListAt
<1>7. i \in 1..Len(B) BY <1>4
<1>8. ASSUME NEW e \in 1..Len(B)
      PROVE  /\ e < i => Many(v.cache, C[e]) = Many(t.cache, B[e])
             /\ e > i => Many(v.cache, C[e + 1]) = Many(t.cache, B[e])
  <2>1. e \in 1..Len(C) /\ e + 1 \in 1..Len(C) /\ e \in 1..Len(t.shell) BY <1>4, <1>5
  <2> QED BY <2>1, <1>6 DEF SplitOff
<1>9. Many(v.cache, C[i]) + Many(v.cache, C[i + 1]) = Many(t.cache, B[i])
  <2>1. i \in 1..Len(C) /\ i + 1 \in 1..Len(C) BY <1>5, <1>7, <1>4
  <2>2. ListAt(v, i) = SubSeq(ListAt(t, i), 1, Kept(ListAt(t, i)))
        /\ ListAt(v, i + 1) = Moved(ListAt(t, i))
    BY DEF SplitOff
  <2>3. ListAt(t, i) \in Seq(Pairs) BY <1>1 DEF Laid
  <2>4. Len(ListAt(v, i)) + Len(ListAt(v, i + 1)) = Len(ListAt(t, i))
    BY <2>2, <2>3, HalvesOf DEF Halves
  <2> QED BY <2>1, <2>4, <1>6, <1>7
<1>10. /\ \A j \in 1..i : Off(v.cache, C, j) = Off(t.cache, B, j)
       /\ \A j \in i + 1..Len(B) + 1 : Off(v.cache, C, j + 1) = Off(t.cache, B, j)
  <2>1. \A e \in 1..Len(B) : e < i => Many(v.cache, C[e]) = Many(t.cache, B[e]) BY <1>8
  <2>2. \A e \in 1..Len(B) : e > i => Many(v.cache, C[e + 1]) = Many(t.cache, B[e])
    BY <1>8
  <2> DEFINE x == t.cache
             y == v.cache
  <2>3. Spread(x, B, m) /\ Spread(y, C, m) /\ TwoFromOne(x, B, y, C, i)
    BY <1>1, <1>3, <1>5, <1>7, <2>1, <2>2, <1>9 DEF TwoFromOne
  <2> HIDE DEF B, C, x, y
  <2>4. /\ \A j \in 1..i : Off(y, C, j) = Off(x, B, j)
        /\ \A j \in i + 1..Len(B) + 1 : Off(y, C, j + 1) = Off(x, B, j)
    BY <2>3, OffDivided
  <2> QED BY <2>4 DEF x, y
<1>11. ASSUME NEW j \in 1..Len(t.shell), j > i PROVE j \in i + 1..Len(B) + 1
  BY <1>4, <1>11
<1> QED BY <1>10, <1>11 DEF O

LEMMA SplitFacts ==
  ASSUME NEW t, NEW n, NEW m, Base(t, n, m), NEW i \in 1..Len(t.shell), NEW b,
         Youngest(t.cache, b), t.cache.buf[b].blockNumber = t.shell[i].item,
         t.cache.buf[b].list = ListAt(t, i), Overflows(ListAt(t, i))
  PROVE  SplitTo(t, NameNewBlock([t EXCEPT !.cache = SplitBlock(@, b)], i), i, n, m)
<1> DEFINE v == NameNewBlock([t EXCEPT !.cache = SplitBlock(@, b)], i)
           L == ListAt(t, i)
<1>1. SplitOff(t, v, i, n, m) BY SplitMakes
<1> HIDE DEF v
<1>2. Named(t, n) /\ Laid(t, m) BY BaseFacts
<1>3. /\ Base(v, n + 1, m) /\ v.isSequential = t.isSequential /\ v.current = t.current
      /\ Calm(t.cache, v.cache) /\ Len(v.shell) = Len(t.shell) + 1
  BY <1>1 DEF SplitOff
<1>4. L \in Seq(Pairs) /\ Len(t.shell) \in Nat BY <1>2 DEF Laid, Named
<1>5. /\ ListAt(v, i) # <<>> /\ ListAt(v, i + 1) # <<>> /\ ListAt(v, i)[1] = L[1]
      /\ Len(ListAt(v, i)) <= Len(L) /\ ListAt(v, i + 1) = Moved(L)
      /\ Len(ListAt(v, i)) \in Nat /\ Len(L) \in Nat
  <2>1. ListAt(v, i) = SubSeq(L, 1, Kept(L)) /\ ListAt(v, i + 1) = Moved(L)
    BY <1>1 DEF SplitOff
  <2> HIDE DEF L
  <2>2. Overflows(L) BY DEF L
  <2>3. Halves(L, SubSeq(L, 1, Kept(L)), Moved(L)) BY <2>2, <1>4, HalvesOf
  <2> QED BY <2>1, <2>3 DEF Halves
<1>6. /\ \A j \in 1..i : O(v, j) = O(t, j)
      /\ \A j \in 1..Len(t.shell) : j > i => O(v, j + 1) = O(t, j)
  BY <1>1, SplitPlaces
<1>7. ASSUME NEW j, NEW q, At(v, j, q)
      PROVE  \E k : At(t, k, q) /\ O(v, j) = O(t, k)
  <2> DEFINE d == v.current
  <2>1. /\ v.isSequential /\ d \in Buffers /\ j \in 1..Len(v.shell)
        /\ v.cache.buf[d].blockNumber = v.shell[j].item
        /\ v.cache.buf[d].current = q /\ q \in 1..Len(ListAt(v, j))
    BY <1>7 DEF At
  <2>2. t.isSequential /\ d = t.current BY <2>1, <1>3
  <2>3. /\ t.cache.buf[d].current = q
        /\ t.cache.buf[d].blockNumber = v.shell[j].item
    <3>1. Keeps(t.cache.buf[d], v.cache.buf[d]) BY <2>1, <1>3 DEF Calm
    <3>2. ~(q <= 0) BY <2>1
    <3> QED BY <3>1, <3>2, <2>1 DEF Keeps, Stays
  <2>4. j \in 1..Len(t.shell) + 1 BY <2>1, <1>3
  <2>5. CASE j < i
    <3>1. j \in 1..i /\ j \in 1..Len(t.shell) BY <2>4, <2>5, <1>4
    <3>2. v.shell[j] = t.shell[j] /\ ListAt(v, j) = ListAt(t, j)
      BY <3>1, <2>5, <1>1 DEF SplitOff
    <3>3. At(t, j, q) BY <3>1, <3>2, <2>1, <2>2, <2>3 DEF At
    <3> QED BY <3>1, <3>3, <1>6
  <2>6. CASE j = i
    <3>1. i \in 1..i BY <1>4
    <3>2. v.shell[i] = t.shell[i] BY <3>1, <1>1 DEF SplitOff
    <3>3. q \in 1..Len(ListAt(t, i)) BY <2>1, <2>6, <1>5
    <3>4. At(t, i, q) BY <3>2, <3>3, <2>1, <2>2, <2>3, <2>6 DEF At
    <3> QED BY <3>1, <3>4, <1>6, <2>6
  <2>7. CASE j = i + 1
    (* the new block is in no buffer yet *)
    <3>1. v.shell[j].item = n BY <2>7, <1>1 DEF SplitOff
    <3>2. t.cache.buf[d].blockNumber \in 0..n - 1
      <4>1. Ok(t.cache, n) BY BaseFacts
      <4>2. t.cache.buf[d] \in Buffer(n) BY <4>1, <2>1 DEF Ok, BlockFile
      <4> QED BY <4>2, BufferFacts
    <3>3. n \in Nat BY BaseFacts
    <3> QED BY <3>1, <3>2, <3>3, <2>3
  <2>8. CASE j > i + 1
    <3>1. /\ j \in i + 2..Len(t.shell) + 1 /\ j - 1 \in 1..Len(t.shell) /\ j - 1 > i
          /\ (j - 1) + 1 = j
      BY <2>4, <2>8, <1>4
    <3>2. v.shell[j] = t.shell[j - 1] BY <3>1, <1>1 DEF SplitOff
    <3>3. ListAt(v, (j - 1) + 1) = ListAt(t, j - 1) BY <3>1, <1>1 DEF SplitOff
    <3>4. ListAt(v, j) = ListAt(t, j - 1) BY <3>1, <3>3
    <3>5. At(t, j - 1, q) BY <3>1, <3>2, <3>4, <2>1, <2>2, <2>3 DEF At
    <3>6. O(v, (j - 1) + 1) = O(t, j - 1) BY <3>1, <1>6
    <3>7. O(v, j) = O(t, j - 1) BY <3>6, <3>1
    <3> QED BY <3>5, <3>7
  <2>9. j < i \/ j = i \/ j = i + 1 \/ j > i + 1 BY <2>4, <1>4
  <2> QED BY <2>5, <2>6, <2>7, <2>8, <2>9
<1>8. Drift(t, v) BY <1>3, <1>7, DriftBy
<1>9. ASSUME Keyed(t) PROVE Keyed(v)
  <2>1. ASSUME NEW j \in 1..Len(v.shell)
        PROVE  ListAt(v, j) # <<>> /\ ListAt(v, j)[1].key = v.shell[j].key
    <3>1. j \in 1..Len(t.shell) + 1 BY <1>3
    <3>2. CASE j < i
      <4>1. j \in 1..i /\ j \in 1..Len(t.shell) BY <3>1, <3>2, <1>4
      <4>2. v.shell[j] = t.shell[j] /\ ListAt(v, j) = ListAt(t, j)
        BY <4>1, <3>2, <1>1 DEF SplitOff
      <4> QED BY <4>1, <4>2, <1>9 DEF Keyed
    <3>3. CASE j = i
      <4>1. i \in 1..i BY <1>4
      <4>2. v.shell[i] = t.shell[i] BY <4>1, <1>1 DEF SplitOff
      <4> QED BY <4>2, <3>3, <1>5, <1>9 DEF Keyed
    <3>4. CASE j = i + 1
      <4>1. v.shell[i + 1].key = Moved(L)[1].key BY <1>1 DEF SplitOff
      <4> QED BY <4>1, <3>4, <1>5
    <3>5. CASE j > i + 1
      <4>1. /\ j \in i + 2..Len(t.shell) + 1 /\ j - 1 \in 1..Len(t.shell) /\ j - 1 > i
            /\ (j - 1) + 1 = j
        BY <3>1, <3>5, <1>4
      <4>2. v.shell[j] = t.shell[j - 1] BY <4>1, <1>1 DEF SplitOff
      <4>3. ListAt(v, (j - 1) + 1) = ListAt(t, j - 1) BY <4>1, <1>1 DEF SplitOff
      <4>4. ListAt(v, j) = ListAt(t, j - 1) BY <4>1, <4>3
      <4> QED BY <4>1, <4>2, <4>4, <1>9 DEF Keyed
    <3>6. j < i \/ j = i \/ j = i + 1 \/ j > i + 1 BY <3>1, <1>4
    <3> QED BY <3>2, <3>3, <3>4, <3>5, <3>6
  <2> QED BY <2>1 DEF Keyed
<1>10. SplitTo(t, v, i, n, m) BY <1>1, <1>8, <1>9 DEF SplitTo, SplitOff
<1> QED BY <1>10 DEF v

(* From a to v the pair ki has been put before position p of the pairs l;  *)
(* the file may have got a block more.                                     *)
PairPut(a, v, ki, p, n, l) ==
  LET m == InsertAt(l, p, ki)
  IN /\ p \in 1..Len(l) + 1 /\ \E k \in {n, n + 1} : Base(v, k, m)
     /\ Keyed(v) /\ SortedBy(a.isUnique, m) /\ Len(m) = Len(l) + 1
     /\ v.numItems = a.numItems + 1 /\ v.ret = ki
     /\ v.isUnique = a.isUnique /\ v.idxError = a.idxError
     /\ \E c : Pushed(CursorOf(a), c, p) /\ (CursorOf(v) = c \/ (c # 0
           /\ CursorOf(v) = -1))

(* The block visited is where the pair belongs, and its treeKey has the    *)
(* lesser of its first key and the new one.                                *)
Fits(a, i, ki, l) ==
  /\ l \in Seq(KeyItem) /\ SortedBy(a.isUnique, l) /\ ki \in KeyItem
  /\ \A p \in 1..Len(l) : /\ p <= O(a, i) => l[p].key <= ki.key
                          /\ p > O(a, i + 1) => ki.key <= l[p].key
  /\ a.isUnique => Has(l, ki.key) = {}
  /\ \A j \in 1..Len(a.shell) : /\ ListAt(a, j) # <<>>
                                /\ j # i => ListAt(a, j)[1].key = a.shell[j].key
  /\ \/ ListAt(a, i)[1].key = a.shell[i].key /\ a.shell[i].key <= ki.key
     \/ a.shell[i].key = ki.key /\ ki.key < ListAt(a, i)[1].key

LEMMA PlaceGood ==
  ASSUME NEW a, NEW i, NEW n, NEW l, Arrived(a, i, n, l), NEW ki, Fits(a, i, ki, l)
  PROVE  \E p : PairPut(a, Place(a, i, ki), ki, p, n, l)
<1> DEFINE L == ListAt(a, i)
           k == ki.key
           p == PlaceIn(L, k)
           b == a.cache.blk
           t == PutIn(a, p, ki)
           at == O(a, i) + p
           m == InsertAt(l, at, ki)
           v == Place(a, i, ki)
<1>1. Base(a, n, l) /\ i \in 1..Len(a.shell) /\ ItemsOf(a) = L BY DEF Arrived
<1>2. Laid(a, l) /\ Named(a, n) BY <1>1, BaseFacts
<1>3. /\ l \in Seq(KeyItem) /\ SortedBy(a.isUnique, l) /\ ki \in KeyItem
      /\ \A q \in 1..Len(l) : /\ q <= O(a, i) => l[q].key <= ki.key
                              /\ q > O(a, i + 1) => ki.key <= l[q].key
      /\ a.isUnique => Has(l, ki.key) = {}
  BY DEF Fits
<1>4. k \in Nat BY <1>3, UsesAssumption
<1>5. /\ L \in Seq(Pairs) /\ Len(L) \in Nat /\ O(a, i + 1) = O(a, i) + Len(L)
      /\ \A q \in 1..Len(L) : O(a, i) + q \in 1..Len(l) /\ l[O(a, i) + q] = L[q]
  BY <1>1, <1>2 DEF Laid
<1>6. O(a, i) \in Nat /\ Len(l) \in Nat
  <2>1. i \in 1..Len(a.shell) + 1 BY <1>1, <1>2 DEF Named
  <2> QED BY <2>1, <1>2 DEF Laid
<1>7. \A q \in 1..Len(L) : L[q].key \in Nat
  <2>1. \A q \in 1..Len(L) : L[q] \in Pairs BY <1>5
  <2> QED BY <2>1, PairKeys
<1>8. Ascends(L)
  <2> SUFFICES ASSUME NEW c \in 1..Len(L), NEW d \in 1..Len(L), c < d
               PROVE  L[c].key <= L[d].key
    BY DEF Ascends
  <2> DEFINE c1 == O(a, i) + c
             d1 == O(a, i) + d
  <2>1. c1 \in 1..Len(l) /\ d1 \in 1..Len(l) /\ l[c1] = L[c] /\ l[d1] = L[d] /\ c1 < d1
    BY <1>5, <1>6
  <2> HIDE DEF c1, d1
  <2>2. l[c1].key <= l[d1].key BY <2>1, <1>3 DEF SortedBy
  <2> QED BY <2>1, <2>2
<1> HIDE DEF L
<1>9. /\ p \in 1..Len(L) + 1
      /\ \A q \in 1..Len(L) : (q < p => L[q].key <= k) /\ (q >= p => k < L[q].key)
  BY <1>4, <1>5, <1>7, <1>8, PlaceFacts
<1>10. v = SplitIfLong(t, i, b)
  BY <1>1 DEF Place, PutIn, PlaceIn
<1> HIDE DEF p
<1>11. Inserted(a, t, i, p, ki, n, l)
  BY <1>3, <1>9, PutInFacts DEF L
<1> HIDE DEF t
<1>12. /\ Base(t, n, m) /\ at \in 1..Len(l) + 1 /\ Len(m) = Len(l) + 1
       /\ t.shell = a.shell /\ t.numItems = a.numItems + 1 /\ t.ret = ki
       /\ t.isUnique = a.isUnique /\ t.idxError = a.idxError
       /\ t.isSequential = a.isSequential
       /\ \A j \in 1..Len(a.shell) :
            ListAt(t, j) = IF j = i THEN InsertAt(L, p, ki) ELSE ListAt(a, j)
       /\ Youngest(t.cache, b)
       /\ t.cache.buf[b].blockNumber = a.shell[i].item
       /\ t.cache.buf[b].list = InsertAt(L, p, ki)
       /\ Pushed(CursorOf(a), CursorOf(t), at)
  BY <1>11 DEF Inserted, L
<1>13. ASSUME NEW q \in 1..Len(l)
       PROVE  /\ q < at => l[q].key <= k
              /\ q >= at => k <= l[q].key
  <2>1. l[q].key \in Nat BY <1>3, UsesAssumption
  <2>2. CASE q <= O(a, i)
    <3>1. l[q].key <= k /\ ~(q >= at) BY <2>2, <1>3, <1>6, <1>9, <1>5
    <3> QED BY <3>1
  <2>3. CASE q > O(a, i + 1)
    <3>1. k <= l[q].key BY <2>3, <1>3
    <3>2. ~(q < at)
      <4>1. p <= Len(L) + 1 /\ p \in Int BY <1>9, <1>5
      <4> QED BY <4>1, <2>3, <1>5, <1>6
    <3> QED BY <3>1, <3>2
  <2>4. CASE q > O(a, i) /\ ~(q > O(a, i + 1))
    <3> DEFINE r == q - O(a, i)
    <3>1. r \in 1..Len(L) /\ q = O(a, i) + r BY <2>4, <1>5, <1>6
    <3>2. l[q] = L[r] BY <3>1, <1>5
    <3>3. (q < at <=> r < p) /\ (q >= at <=> r >= p) BY <3>1, <1>6, <1>9, <1>5
    <3> HIDE DEF r
    <3>4. L[r].key \in Nat BY <3>1, <1>7
    <3> QED BY <3>1, <3>2, <3>3, <3>4, <1>9, <1>4
  <2>5. q <= O(a, i) \/ q > O(a, i + 1) \/ (q > O(a, i) /\ ~(q > O(a, i + 1)))
    BY <1>6
  <2> QED BY <2>2, <2>3, <2>4, <2>5
<1>14. SortedBy(a.isUnique, m)
  <2> HIDE DEF at
  <2>1. SortedBy(a.isUnique, InsertAt(l, at, ki)) BY <1>3, <1>12, <1>13, SortedInsert
  <2> QED BY <2>1
<1>15. InsertAt(L, p, ki) # <<>> /\ InsertAt(L, p, ki)[1] = IF p = 1 THEN ki ELSE L[1]
  <2>1. ki \in Pairs BY <1>3 DEF Pairs
  <2>2. /\ Len(InsertAt(L, p, ki)) = Len(L) + 1
        /\ \A j \in 1..Len(L) + 1 :
             InsertAt(L, p, ki)[j] = IF j < p THEN L[j] ELSE IF j
                   = p THEN ki ELSE L[j - 1]
    BY <2>1, <1>5, <1>9, InsertAtShape
  <2>3. 1 \in 1..Len(L) + 1 BY <1>5
  <2>4. p = 1 \/ 1 < p BY <1>9
  <2>5. InsertAt(L, p, ki) # <<>> BY <2>2, <1>5
  <2> QED BY <2>2, <2>3, <2>4, <2>5, <1>9
<1>16. Keyed(t)
  <2>1. ASSUME NEW j \in 1..Len(t.shell)
        PROVE  ListAt(t, j) # <<>> /\ ListAt(t, j)[1].key = t.shell[j].key
    <3>1. j \in 1..Len(a.shell) /\ t.shell[j] = a.shell[j] BY <1>12
    <3>2. CASE j # i
      <4>1. ListAt(t, j) = ListAt(a, j) BY <3>1, <3>2, <1>12
      <4> QED BY <3>1, <3>2, <4>1 DEF Fits
    <3>3. CASE j = i
      <4>1. ListAt(t, j) = InsertAt(L, p, ki) BY <3>1, <3>3, <1>12
      <4>2. InsertAt(L, p, ki)[1].key = a.shell[i].key
        <5>1. L # <<>> BY <1>1 DEF Fits, L
        <5>2. 1 \in 1..Len(L) BY <5>1, <1>5
        <5>3. 1 < p => L[1].key <= k BY <5>2, <1>9
        <5>4. 1 >= p => k < L[1].key BY <5>2, <1>9
        <5>5. L[1].key \in Nat /\ p \in Int /\ p >= 1 BY <5>2, <1>7, <1>9
        <5>6. CASE L[1].key = a.shell[i].key /\ a.shell[i].key <= k
          <6>1. p # 1 BY <5>4, <5>5, <5>6, <1>4
          <6> QED BY <6>1, <5>6, <1>15
        <5>7. CASE a.shell[i].key = k /\ k < L[1].key
          <6>1. p = 1 BY <5>3, <5>5, <5>7, <1>4
          <6> QED BY <6>1, <5>7, <1>15
        <5> QED BY <5>6, <5>7 DEF Fits, L
      <4> QED BY <4>1, <4>2, <1>15, <3>3, <3>1
    <3> QED BY <3>2, <3>3
  <2> QED BY <2>1 DEF Keyed
<1> HIDE DEF m, at
<1>17. CASE ~Overflows(t.cache.buf[b].list)
  <2>1. v = t BY <1>10, <1>17 DEF SplitIfLong
  <2>2. PairPut(a, t, ki, at, n, l) BY <1>12, <1>14, <1>16 DEF PairPut, m
  <2>3. PairPut(a, v, ki, at, n, l) BY <2>1, <2>2
  <2> QED BY <2>3
<1>18. CASE Overflows(t.cache.buf[b].list)
  <2>1. v = NameNewBlock([t EXCEPT !.cache = SplitBlock(@, b)], i)
    BY <1>10, <1>18 DEF SplitIfLong
  <2>2. ListAt(t, i) = t.cache.buf[b].list /\ i \in 1..Len(t.shell)
        /\ t.cache.buf[b].blockNumber = t.shell[i].item
    BY <1>1, <1>12
  <2>3. SplitTo(t, v, i, n, m) BY <2>1, <2>2, <1>12, <1>18, SplitFacts
  <2> HIDE DEF v
  <2>4. /\ Base(v, n + 1, m) /\ Drift(t, v)
        /\ v.numItems = t.numItems /\ v.ret = t.ret /\ v.isUnique = t.isUnique
        /\ v.idxError = t.idxError /\ Keyed(v)
    BY <2>3, <1>16 DEF SplitTo
  <2>5. PairPut(a, v, ki, at, n, l) BY <2>4, <1>12, <1>14 DEF PairPut, m, Drift
  <2> QED BY <2>5 DEF v
<1> QED BY <1>17, <1>18

(* The two parts of a key.                                                 *)
LEMMA TwoParts ==
  ASSUME NEW k \in Nat
  PROVE  (k \div SUFFIXES) * SUFFIXES + (k % SUFFIXES) = k
<1> DEFINE S == SUFFIXES
<1>1. S \in Nat \ {0} BY SuffixAssumption
<1> HIDE DEF S
<1>2. (k \div S) * S + (k % S) = k BY <1>1
<1> QED BY <1>2 DEF S

(* Keys with the same suffix are copied whole.                             *)
LEMMA CopiedWhole ==
  ASSUME NEW k \in Nat, NEW old \in Nat, k % SUFFIXES = old % SUFFIXES
  PROVE  ShortCopy(k, old) = k
PROOF BY TwoParts DEF ShortCopy

(* The cursor after a pair has been put before position p.                 *)
Pushes(s, t, p) ==
  \/ Pushed(CursorOf(s), CursorOf(t), p)
  \/ CursorOf(s) # 0 /\ CursorOf(t) = -1

(* What addIndexItem leaves in t.                                          *)
Added(s, t, ki, n, l) ==
  /\ s.isUnique => Has(l, ki.key) = {}
  /\ t.ret = ki /\ t.idxError = s.idxError /\ t.isUnique = s.isUnique
  /\ \E p \in 1..Len(l) + 1 :
       /\ \E k \in {n, n + 1} : Good(t, k, InsertAt(l, p, ki))
       /\ Pushes(s, t, p)

KeyRefused(s, t, ki, n, l) ==
  /\ s.isUnique /\ Good(t, n, l) /\ t.isUnique = s.isUnique
  /\ CursorOf(t) \in Has(l, ki.key) /\ t.ret = Zeros /\ t.idxError = "IDX_UNIQUE"

ErrorRefused(s, t, n, l) ==
  /\ s.isUnique /\ Good(t, n, l) /\ t.isUnique = s.isUnique
  /\ s.idxError # "IDX_NOERR" /\ t.idxError = s.idxError
  /\ t.ret = Zeros /\ Drift(s, t)

(* From the block that the pair fits into.                                 *)
LEMMA PlaceAdds ==
  ASSUME NEW s, NEW n, NEW l, Good(s, n, l), n <= MaxBlocks,
         NEW ki \in Uses[s.isUnique].pairs,
         NEW a, NEW i, Arrived(a, i, n, l), Fits(a, i, ki, l),
         a.isUnique = s.isUnique, a.numItems = s.numItems, a.idxError = s.idxError,
         Drift(s, a)
  PROVE  Added(s, Place(a, i, ki), ki, n, l)
<1> DEFINE t == Place(a, i, ki)
<1>1. PICK p : PairPut(a, t, ki, p, n, l) BY PlaceGood
<1> HIDE DEF t
<1> DEFINE m == InsertAt(l, p, ki)
           U == Uses[s.isUnique].pairs
<1>2. PICK k \in {n, n + 1} : Base(t, k, m) BY <1>1 DEF PairPut
<1>3. /\ p \in 1..Len(l) + 1 /\ Keyed(t) /\ SortedBy(a.isUnique, m)
      /\ Len(m) = Len(l) + 1
      /\ t.numItems = a.numItems + 1 /\ t.ret = ki
      /\ t.isUnique = a.isUnique /\ t.idxError = a.idxError
  BY <1>1 DEF PairPut
<1>4. /\ s.numItems = Len(l) /\ l \in Seq(U) /\ s.isUnique \in DOMAIN Uses
  BY DEF Good
<1>5. m \in Seq(U) BY <1>3, <1>4, InsertAtShape
<1>6. k <= MaxBlocks + 1
  <2>1. n \in Nat BY GoodFacts, BaseFacts
  <2> QED BY <2>1, <1>2, UsesAssumption
<1>7. Good(t, k, m) BY <1>2, <1>3, <1>4, <1>5, <1>6 DEF Good
<1>8. Pushes(s, t, p)
  <2>1. PICK c : Pushed(CursorOf(a), c, p)
                 /\ (CursorOf(t) = c \/ (c # 0 /\ CursorOf(t) = -1))
    BY <1>1 DEF PairPut
  <2>2. /\ CursorOf(a) = CursorOf(s) \/ (CursorOf(s) # 0 /\ CursorOf(a) = -1)
    BY DEF Drift
  <2>3. p >= 1 /\ p \in Int BY <1>3
  <2>4. CASE CursorOf(s) # 0 /\ CursorOf(a) = -1
    <3>1. c = -1 BY <2>1, <2>3, <2>4 DEF Pushed
    <3> QED BY <3>1, <2>1, <2>4 DEF Pushes
  <2>5. CASE CursorOf(a) = CursorOf(s)
    <3>1. CASE CursorOf(t) = c BY <3>1, <2>1, <2>5 DEF Pushes
    <3>2. CASE c # 0 /\ CursorOf(t) = -1
      <4>1. CursorOf(s) # 0
        <5>1. CursorOf(s) = 0 => c = 0 BY <2>1, <2>3, <2>5 DEF Pushed
        <5> QED BY <5>1, <3>2
      <4> QED BY <4>1, <3>2 DEF Pushes
    <3> QED BY <3>1, <3>2, <2>1
  <2> QED BY <2>2, <2>4, <2>5
<1>9. s.isUnique => Has(l, ki.key) = {} BY DEF Fits
<1>10. Added(s, t, ki, n, l) BY <1>2, <1>3, <1>7, <1>8, <1>9 DEF Added
<1> QED BY <1>10 DEF t

(* The key goes into the block that the shell finds.                       *)
LEMMA QueryFits ==
  ASSUME NEW s, NEW n, NEW l, Good(s, n, l), s.shell # <<>>,
         NEW ki \in Uses[s.isUnique].pairs, ~(ki.key < s.shell[1].key),
         s.isUnique => Has(l, ki.key) = {},
         NEW u, Reads(s, u, n, l)
  PROVE  LET i == Query(s, ki.key)
             a == Visit(u, i)
         IN /\ Arrived(a, i, n, l) /\ Fits(a, i, ki, l) /\ CacheOnly(u, a)
               /\ Drift(u, a)
<1> DEFINE i == Query(s, ki.key)
           a == Visit(u, i)
           k == ki.key
<1>1. ki \in KeyItem BY UsesAssumption DEF Good
<1>2. k \in Nat BY <1>1, UsesAssumption
<1>3. Queried(s, i, k, l) BY <1>2, QueryFacts
<1> HIDE DEF i
<1>4. i \in 1..Len(s.shell) BY <1>3 DEF Queried
<1>5. /\ Named(s, n) /\ Laid(s, l) /\ Comparable(s, l) /\ SortedBy(s.isUnique, l)
      /\ Keyed(s)
  BY GoodFacts DEF Good
<1>6. /\ Base(u, n, l) /\ SameLayout(s, u) /\ u.isUnique = s.isUnique
      /\ u.shell = s.shell
  BY DEF Reads, Quiet
<1>7. i \in 1..Len(u.shell) BY <1>4, <1>6
<1>8. /\ Arrived(a, i, n, l) /\ CacheOnly(u, a) /\ Drift(u, a) /\ SameLayout(u, a)
      /\ Quiet(u, a)
  BY <1>6, <1>7, Arrives
<1> HIDE DEF a
<1>9. SameLayout(s, a) BY <1>6, <1>8, LayoutTrans
<1>10. /\ a.shell = s.shell /\ a.isUnique = s.isUnique
       /\ \A j \in 1..Len(s.shell) : ListAt(a, j) = ListAt(s, j)
       /\ O(a, i) = O(s, i) /\ O(a, i + 1) = O(s, i + 1)
  <2>1. i \in 1..Len(s.shell) + 1 /\ i + 1 \in 1..Len(s.shell) + 1
    BY <1>4, <1>5 DEF Named
  <2> QED BY <2>1, <1>6, <1>8, <1>9 DEF SameLayout, Quiet
<1>11. s.shell[i].key <= k
  <2>1. s.shell[i].key <= k \/ (i = 1 /\ k < s.shell[1].key) BY <1>3 DEF Queried
  <2> QED BY <2>1
<1>12. ASSUME NEW p \in 1..Len(l)
       PROVE  /\ p <= O(s, i) => l[p].key <= k
              /\ p > O(s, i + 1) => k <= l[p].key
  <2>1. p <= O(s, i) => l[p].key <= s.shell[i].key BY <1>4, AroundBlock
  <2>2. l[p].key \in Nat /\ s.shell[i].key \in Nat BY <1>4, <1>5 DEF Comparable, Named
  <2> QED BY <2>1, <2>2, <1>2, <1>3, <1>11 DEF Queried
<1>13. ListAt(s, i)[1].key = s.shell[i].key /\ \A j \in 1..Len(s.shell) :
         ListAt(s, j) # <<>> /\ ListAt(s, j)[1].key = s.shell[j].key
  BY <1>4, <1>5 DEF Keyed
<1>14. l \in Seq(KeyItem) BY <1>5 DEF Comparable
<1>15. Fits(a, i, ki, l) BY <1>1, <1>4, <1>5, <1>10, <1>11, <1>12, <1>13, <1>14 DEF Fits
<1> QED BY <1>8, <1>15 DEF a, i

(* Only the key of the first treeKey differs.                              *)
Lowered(v, a, k) ==
  /\ Rec(a) /\ a.cache = v.cache /\ a.current = v.current
  /\ a.isSequential = v.isSequential
  /\ a.isUnique = v.isUnique /\ a.numItems = v.numItems /\ a.idxError = v.idxError
  /\ a.shell = [v.shell EXCEPT ![1].key = k]

LEMMA LoweredFacts ==
  ASSUME NEW v, NEW n, NEW l, Arrived(v, 1, n, l), NEW k \in Nat,
         NEW a, Lowered(v, a, k)
  PROVE  /\ Arrived(a, 1, n, l) /\ Drift(v, a)
         /\ Len(a.shell) = Len(v.shell) /\ a.shell[1].key = k
         /\ \A j \in 1..Len(v.shell) :
              ListAt(a, j) = ListAt(v, j) /\ (j # 1 => a.shell[j].key = v.shell[j].key)
         /\ O(a, 1) = O(v, 1) /\ O(a, 1 + 1) = O(v, 1 + 1)
<1>1. Base(v, n, l) /\ 1 \in 1..Len(v.shell) BY DEF Arrived
<1>2. Named(v, n) /\ v.shell \in Seq(TreeKeys(n)) BY <1>1, BaseFacts DEF Base
<1>3. a.shell = [v.shell EXCEPT ![1].key = k] /\ a.cache = v.cache BY DEF Lowered
<1>4. /\ Len(a.shell) = Len(v.shell) /\ DOMAIN a.shell = 1..Len(v.shell)
      /\ a.shell[1] = [v.shell[1] EXCEPT !.key = k]
      /\ \A j \in 1..Len(v.shell) : j # 1 => a.shell[j] = v.shell[j]
  BY <1>1, <1>2, <1>3
<1>5. v.shell[1] \in TreeKeys(n) BY <1>1, <1>2 DEF Named
<1>6. a.shell[1] \in TreeKeys(n) /\ a.shell[1].key = k
      /\ a.shell[1].item = v.shell[1].item
  BY <1>4, <1>5 DEF TreeKeys
<1>7. a.shell \in Seq(TreeKeys(n)) BY <1>1, <1>2, <1>3, <1>6, <1>4
<1>8. BlocksOf(a) = BlocksOf(v)
  <2>1. DOMAIN v.shell = 1..Len(v.shell) BY <1>2 DEF Named
  <2>2. \A j \in 1..Len(v.shell) : a.shell[j].item = v.shell[j].item BY <1>4, <1>6
  <2> QED BY <2>1, <2>2, <1>4 DEF BlocksOf
<1>9. Base(a, n, l) BY <1>1, <1>7, <1>8 DEF Base, Lowered
<1>10. \A j : O(a, j) = O(v, j) BY <1>3, <1>8 DEF O
<1>11. \A j \in 1..Len(v.shell) : /\ ListAt(a, j) = ListAt(v, j)
                                  /\ a.shell[j].item = v.shell[j].item
  BY <1>3, <1>4, <1>6 DEF ListAt
<1>12. Arrived(a, 1, n, l)
  <2>1. ItemsOf(a) = ItemsOf(v) BY <1>3 DEF ItemsOf
  <2> QED BY <2>1, <1>1, <1>3, <1>4, <1>9, <1>11 DEF Arrived
<1>13. \A j, q : At(a, j, q) => At(v, j, q)
  BY <1>3, <1>4, <1>11 DEF At, Lowered
<1>14. a.isSequential = v.isSequential BY DEF Lowered
<1>15. \A j, q : At(a, j, q) => \E i : At(v, i, q) /\ O(a, j) = O(v, i)
  BY <1>13, <1>10
<1>16. Drift(v, a) BY <1>1, <1>9, <1>14, <1>15, DriftBy
<1> QED BY <1>4, <1>6, <1>10, <1>11, <1>12, <1>16

(* A key below all others replaces the first treeKey.                      *)
LEMMA LowerFits ==
  ASSUME OneSuffix, NEW s, NEW n, NEW l, Good(s, n, l), s.shell # <<>>,
         NEW ki \in Uses[s.isUnique].pairs, ki.key < s.shell[1].key
  PROVE  LET a == LowerFirst(s, ki.key)
         IN /\ Arrived(a, 1, n, l) /\ Fits(a, 1, ki, l) /\ Drift(s, a)
            /\ a.isUnique = s.isUnique /\ a.numItems = s.numItems
            /\ a.idxError = s.idxError
<1> DEFINE v == Visit(s, 1)
           k == ki.key
           a == LowerFirst(s, k)
           U == Uses[s.isUnique].pairs
<1>1. ki \in KeyItem BY UsesAssumption DEF Good
<1>2. k \in Nat BY <1>1, UsesAssumption
<1>3. /\ Named(s, n) /\ Laid(s, l) /\ Comparable(s, l) /\ SortedBy(s.isUnique, l)
      /\ Keyed(s) /\ Base(s, n, l) /\ l \in Seq(U) /\ s.isUnique \in DOMAIN Uses
  BY GoodFacts DEF Good
<1>4. 1 \in 1..Len(s.shell) BY <1>3 DEF Named
<1>5. /\ Arrived(v, 1, n, l) /\ CacheOnly(s, v) /\ Drift(s, v) /\ SameLayout(s, v)
  BY <1>3, <1>4, Arrives
<1>6. /\ v.shell = s.shell /\ v.isUnique = s.isUnique /\ v.numItems = s.numItems
      /\ v.idxError = s.idxError /\ Rec(v)
  BY <1>5, CacheOnlyFields DEF CacheOnly
<1>7. ShortCopy(k, s.shell[1].key) = k
  <2>1. O(s, 1) = 0 BY <1>3 DEF Laid
  <2>2. 0 + 1 \in 1..Len(l) /\ l[0 + 1].key = s.shell[1].key
    BY <2>1, <1>3, <1>4 DEF Comparable
  <2>3. l[1] \in U /\ l[1].key = s.shell[1].key BY <2>2, <1>3
  <2>4. k % SUFFIXES = l[1].key % SUFFIXES BY <2>3, <1>3 DEF OneSuffix
  <2>5. s.shell[1].key \in Nat BY <1>3, <1>4 DEF Named
  <2> QED BY <2>3, <2>4, <2>5, <1>2, CopiedWhole
<1>8. a = [v EXCEPT !.shell = [v.shell EXCEPT ![1].key = ShortCopy(k, v.shell[1].key)]]
  BY DEF LowerFirst
<1> HIDE DEF v, a
<1>9. a = [v EXCEPT !.shell = [v.shell EXCEPT ![1].key = k]]
  BY <1>6, <1>7, <1>8
<1>10. Lowered(v, a, k) BY <1>6, <1>9 DEF Lowered, Rec, Flds
<1>11. /\ Arrived(a, 1, n, l) /\ Drift(v, a)
       /\ Len(a.shell) = Len(v.shell) /\ a.shell[1].key = k
       /\ \A j \in 1..Len(v.shell) :
            ListAt(a, j) = ListAt(v, j) /\ (j # 1 => a.shell[j].key = v.shell[j].key)
       /\ O(a, 1) = O(v, 1) /\ O(a, 1 + 1) = O(v, 1 + 1)
  BY <1>2, <1>5, <1>10, LoweredFacts
<1>12. Drift(s, a) BY <1>5, <1>11, DriftTrans
<1>13. a.isUnique = s.isUnique /\ a.numItems = s.numItems /\ a.idxError = s.idxError
  BY <1>6, <1>10 DEF Lowered
<1>14. /\ O(a, 1) = 0
       /\ \A j \in 1..Len(s.shell) : ListAt(a, j) = ListAt(s, j)
  <2>1. O(v, 1) = O(s, 1) BY <1>5, <1>4, <1>3 DEF SameLayout, Named
  <2> QED BY <2>1, <1>3, <1>5, <1>6, <1>11 DEF SameLayout, Laid
<1>15. ASSUME NEW p \in 1..Len(l)
       PROVE  k < l[p].key /\ p > 0
  <2>1. p > 0 BY <1>3 DEF Laid
  <2>2. O(s, 1) = 0 BY <1>3 DEF Laid
  <2>3. p > O(s, 1) => s.shell[1].key <= l[p].key BY <1>4, AroundBlock
  <2>4. s.shell[1].key \in Nat /\ l[p].key \in Nat BY <1>3, <1>4 DEF Named, Comparable
  <2> QED BY <2>1, <2>2, <2>3, <2>4, <1>2
<1>16. \A p \in 1..Len(l) : /\ p <= O(a, 1) => l[p].key <= k
                            /\ p > O(a, 1 + 1) => k <= l[p].key
  <2>1. \A p \in 1..Len(l) : l[p].key \in Nat BY <1>3 DEF Comparable
  <2> QED BY <2>1, <1>2, <1>14, <1>15
<1>17. a.isUnique => Has(l, k) = {}
  <2>1. \A p \in 1..Len(l) : l[p].key # k BY <1>2, <1>15, <1>3 DEF Comparable
  <2> QED BY <2>1 DEF Has
<1>18. \A j \in 1..Len(a.shell) : /\ ListAt(a, j) # <<>>
                                  /\ j # 1 => ListAt(a, j)[1].key = a.shell[j].key
  BY <1>3, <1>6, <1>11, <1>14 DEF Keyed
<1>19. a.shell[1].key = k /\ k < ListAt(a, 1)[1].key
  BY <1>3, <1>4, <1>11, <1>14 DEF Keyed
<1>20. l \in Seq(KeyItem) BY <1>3 DEF Comparable
<1>21. Fits(a, 1, ki, l)
  BY <1>1, <1>3, <1>13, <1>16, <1>17, <1>18, <1>19, <1>20 DEF Fits
<1> QED BY <1>11, <1>12, <1>13, <1>21 DEF a

(* The first pair of an index gets a block and a treeKey.                  *)
LEMMA FirstAdded ==
  ASSUME NEW s, NEW n, NEW l, Good(s, n, l), s.shell = <<>>, n <= MaxBlocks,
         NEW ki \in Uses[s.isUnique].pairs
  PROVE  Added(s, AddFirst(s, ki), ki, n, l)
<1> DEFINE y == FirstBlock(s.cache, ki)
           t == AddFirst(s, ki)
           U == Uses[s.isUnique].pairs
<1>1. ki \in KeyItem BY UsesAssumption DEF Good
<1>2. ki.key \in Nat BY <1>1, UsesAssumption
<1>3. /\ Base(s, n, l) /\ Live(s.cache, n) /\ n \in Nat \ {0} /\ Rec(s)
      /\ s.isUnique \in DOMAIN Uses /\ s.numItems = Len(l)
      /\ s.current \in Buffers \cup {NULL} /\ s.isSequential \in BOOLEAN
  BY GoodFacts, BaseFacts DEF Good, Base
<1>4. l = <<>> BY EmptyFacts
<1>5. /\ Live(y, n + 1) /\ Calm(s.cache, y) /\ Begun(s.cache, y, ki, n) /\ y.blk # NULL
      /\ y.lastBlock = n
  BY <1>1, <1>3, FirstLive
<1>6. t = IF y.blk = NULL
            THEN [Fail([s EXCEPT !.cache = y], "IDX_UNSTABLE") EXCEPT !.hasShell = TRUE]
            ELSE [[s EXCEPT !.cache = y] EXCEPT !.hasShell = TRUE, !.numItems = @ + 1,
                    !.ret = ki, !.shell = <<[key |-> ki.key, item |-> y.lastBlock]>>]
  BY <1>3 DEF AddFirst, Rec, Flds
<1> HIDE DEF t, y
<1>7. /\ Rec(t) /\ t.cache = y /\ t.shell = <<[key |-> ki.key, item |-> n]>>
      /\ t.numItems = s.numItems + 1 /\ t.ret = ki /\ t.idxError = s.idxError
      /\ t.isUnique = s.isUnique /\ t.isSequential = s.isSequential
      /\ t.current = s.current
  BY <1>3, <1>5, <1>6 DEF Rec, Flds
<1>8. /\ Len(t.shell) = 1 /\ DOMAIN t.shell = {1} /\ t.shell[1].key = ki.key
      /\ t.shell[1].item = n
  BY <1>7
<1>9. BlocksOf(t) = <<n>>
  <2>1. DOMAIN BlocksOf(t) = {1} /\ BlocksOf(t)[1] = n BY <1>8 DEF BlocksOf
  <2>2. BlocksOf(t) = [i \in {1} |-> n] BY <2>1, <1>8 DEF BlocksOf
  <2> QED BY <2>2
<1>10. n \in 1..(n + 1) - 1 BY <1>3
<1>11. t.shell \in Seq(TreeKeys(n + 1))
  <2>1. [key |-> ki.key, item |-> n] \in TreeKeys(n + 1) BY <1>2, <1>10 DEF TreeKeys
  <2> QED BY <2>1, <1>7
<1>12. Listed(y, <<n>>, <<ki>>)
  <2>1. Distinct(<<n>>) BY DEF Distinct
  <2>2. Chain(y, <<n>>) BY <1>5 DEF Chain, Begun, Before, Behind
  <2>3. PairsIn(y, <<n>>) = <<ki>>
    <3>1. Ok(y, n + 1) /\ Sound(y) BY <1>5 DEF Live
    <3> QED BY <3>1, <1>5, <1>10, PairsOne DEF Begun
  <2> QED BY <2>1, <2>2, <2>3 DEF Listed
<1>13. Base(t, n + 1, <<ki>>) BY <1>3, <1>5, <1>7, <1>9, <1>11, <1>12 DEF Base
<1>14. ListAt(t, 1) = <<ki>> BY <1>5, <1>7, <1>8 DEF ListAt, Begun
<1>15. Keyed(t) BY <1>8, <1>14 DEF Keyed
<1>16. Good(t, n + 1, <<ki>>)
  <2>1. <<ki>> \in Seq(U)
    <3>1. ki \in U OBVIOUS
    <3> HIDE DEF U
    <3> QED BY <3>1
  <2>2. SortedBy(t.isUnique, <<ki>>) BY DEF SortedBy
  <2>3. t.numItems = Len(<<ki>>) BY <1>3, <1>4, <1>7
  <2>4. n + 1 <= MaxBlocks + 1 BY <1>3, UsesAssumption
  <2> QED BY <2>1, <2>2, <2>3, <2>4, <1>3, <1>7, <1>13, <1>15 DEF Good
<1>17. InsertAt(l, 1, ki) = <<ki>> BY <1>4, InsertFirst
<1>18. Pushes(s, t, 1)
  <2>1. CASE ~s.isSequential
    <3>1. CursorOf(s) = 0 /\ CursorOf(t) = 0
      BY <2>1, <1>3, <1>7, <1>13, CursorNowhere
    <3> QED BY <3>1 DEF Pushes, Pushed
  <2>2. CASE s.isSequential
    <3>1. CursorOf(s) # 0 BY <2>2, <1>3, CursorType
    <3>2. ASSUME NEW j, NEW q, At(t, j, q) PROVE FALSE
      <4>1. t.current \in Buffers /\ q \in 1..Len(ListAt(t, j)) /\ j = 1
            /\ y.buf[t.current].current = q /\ y.buf[t.current].blockNumber = n
        BY <3>2, <1>7, <1>8 DEF At
      <4>2. q > 0 BY <4>1, <1>14
      <4>3. s.cache.buf[t.current].blockNumber = n
        BY <4>1, <4>2, <1>5 DEF Calm, Keeps, Stays
      <4>4. s.cache.buf[t.current] \in Buffer(n) BY <4>1, <1>3 DEF Live, Ok, BlockFile
      <4>5. s.cache.buf[t.current].blockNumber \in 0..n - 1 BY <4>4, BufferFacts
      <4> QED BY <4>3, <4>5, <1>3
    <3>3. CursorOf(t) = -1 BY <3>2, <2>2, <1>7, <1>13, CursorNowhere
    <3> QED BY <3>1, <3>3 DEF Pushes
  <2> QED BY <2>1, <2>2
<1>19. Has(l, ki.key) = {} BY <1>4 DEF Has
<1>20. 1 \in 1..Len(l) + 1 BY <1>4
<1>21. Added(s, t, ki, n, l)
  <2>1. Good(t, n + 1, InsertAt(l, 1, ki)) BY <1>16, <1>17
  <2>2. \E k \in {n, n + 1} : Good(t, k, InsertAt(l, 1, ki)) BY <2>1
  <2> QED BY <2>2, <1>7, <1>18, <1>19, <1>20 DEF Added
<1> QED BY <1>21 DEF t

(* addIndexItem with its branches written out: u is the index after the    *)
(* search for the key.                                                     *)
AddAfter(s, u, searched, below, ki) ==
  LET i == IF below THEN 1 ELSE Query(s, ki.key)
  IN IF searched /\ u.ret # Zeros THEN Fail(u, "IDX_UNIQUE")
     ELSE IF searched /\ u.idxError # "IDX_NOERR" THEN NoPair(u)
     ELSE Place(IF below THEN LowerFirst(u, ki.key) ELSE Visit(u, i), i, ki)

LEMMA AddIs ==
  ASSUME NEW s, NEW ki
  PROVE  LET below == ki.key < s.shell[1].key
             searched == s.isUnique /\ ~below
         IN AddIndexItem(s, ki) =
              IF s.shell = <<>> THEN AddFirst(s, ki)
              ELSE AddAfter(s, IF searched THEN SearchExactIndexItem(s, ki.key) ELSE s,
                            searched, below, ki)
PROOF BY DEF AddIndexItem, AddAfter

AddOutcome(s, t, ki, n, l) ==
  Added(s, t, ki, n, l) \/ KeyRefused(s, t, ki, n, l) \/ ErrorRefused(s, t, n, l)

(* The block that the shell finds is visited, after the search if there    *)
(* was one.                                                                *)
LEMMA QueryAdds ==
  ASSUME NEW s, NEW n, NEW l, Good(s, n, l), s.shell # <<>>, n <= MaxBlocks,
         NEW ki \in Uses[s.isUnique].pairs, ~(ki.key < s.shell[1].key),
         s.isUnique => Has(l, ki.key) = {},
         NEW u, Reads(s, u, n, l), u.idxError = s.idxError, Drift(s, u)
  PROVE  Added(s, Place(Visit(u, Query(s, ki.key)), Query(s, ki.key), ki), ki, n, l)
<1> DEFINE i == Query(s, ki.key)
           a == Visit(u, i)
<1>1. Arrived(a, i, n, l) /\ Fits(a, i, ki, l) /\ CacheOnly(u, a) /\ Drift(u, a)
  BY QueryFits
<1> HIDE DEF i, a
<1>2. /\ a.isUnique = u.isUnique /\ a.numItems = u.numItems /\ a.idxError = u.idxError
  BY <1>1, CacheOnlyFields
<1>3. u.isUnique = s.isUnique /\ u.numItems = s.numItems BY DEF Reads, Quiet
<1>4. Drift(s, a) BY <1>1, DriftTrans
<1>5. Added(s, Place(a, i, ki), ki, n, l)
  BY <1>1, <1>2, <1>3, <1>4, PlaceAdds
<1> QED BY <1>5 DEF i, a

LEMMA AddFacts ==
  ASSUME OneSuffix, NEW s, NEW n, NEW l, Good(s, n, l), n <= MaxBlocks,
         NEW ki \in Uses[s.isUnique].pairs
  PROVE  AddOutcome(s, AddIndexItem(s, ki), ki, n, l)
<1> DEFINE k == ki.key
           below == k < s.shell[1].key
           searched == s.isUnique /\ ~below
           x == SearchExactIndexItem(s, k)
           u == IF searched THEN x ELSE s
           t == AddIndexItem(s, ki)
<1>1. ki \in KeyItem BY UsesAssumption DEF Good
<1>2. k \in Nat BY <1>1, UsesAssumption
<1>3. Base(s, n, l) /\ Comparable(s, l) /\ s.isUnique \in BOOLEAN /\ Rec(s)
  BY GoodFacts DEF Comparable, Base
<1>4. CASE s.shell = <<>>
  <2>1. t = AddFirst(s, ki) BY <1>4, AddIs
  <2> HIDE DEF t
  <2>2. Added(s, t, ki, n, l) BY <1>4, <2>1, FirstAdded
  <2> QED BY <2>2 DEF AddOutcome, t
<1>5. CASE s.shell # <<>>
  <2>1. t = AddAfter(s, u, searched, below, ki) BY <1>5, AddIs
  <2> HIDE DEF t
  <2>2. CASE below
    <3>1. t = Place(LowerFirst(s, k), 1, ki) BY <2>1, <2>2 DEF AddAfter
    <3>2. /\ Arrived(LowerFirst(s, k), 1, n, l) /\ Fits(LowerFirst(s, k), 1, ki, l)
          /\ Drift(s, LowerFirst(s, k))
          /\ LowerFirst(s, k).isUnique = s.isUnique
          /\ LowerFirst(s, k).numItems = s.numItems
          /\ LowerFirst(s, k).idxError = s.idxError
      BY <1>5, <2>2, LowerFits
    <3>3. Added(s, t, ki, n, l) BY <3>1, <3>2, PlaceAdds
    <3> QED BY <3>3 DEF AddOutcome, t
  <2>3. CASE ~below /\ ~s.isUnique
    <3>1. t = Place(Visit(s, Query(s, k)), Query(s, k), ki) BY <2>1, <2>3 DEF AddAfter
    <3>2. Core(s, s) /\ Quiet(s, s) BY <1>3 DEF Core, Quiet
    <3>3. Reads(s, s, n, l) BY <1>3, <3>2, CoreReads
    <3>4. Drift(s, s) BY DEF Drift
    <3>5. Added(s, t, ki, n, l) BY <3>1, <3>3, <3>4, <1>5, <2>3, QueryAdds
    <3> QED BY <3>5 DEF AddOutcome, t
  <2>4. CASE ~below /\ s.isUnique
    <3>1. Exact(s, x, k, n, l) BY <1>2, <1>5, ExactFacts
    <3>2. t = AddAfter(s, x, searched, below, ki) BY <2>1, <2>4
    <3> HIDE DEF x
    <3>3. Reads(s, x, n, l) /\ x.idxError = s.idxError BY <3>1 DEF Exact
    <3>4. x.ret # Zeros <=> Has(l, k) # {}
      <4>1. CASE Has(l, k) = {} BY <4>1, <3>1 DEF Exact
      <4>2. CASE Has(l, k) # {}
        <5>1. x.ret = l[Min(Has(l, k))] /\ Min(Has(l, k)) \in 1..Len(l)
          BY <4>2, <3>1 DEF Exact, FoundKey
        <5>2. x.ret \in KeyItem BY <5>1, <1>3 DEF Comparable
        <5> QED BY <5>2, <4>2, UsesAssumption
      <4> QED BY <4>1, <4>2
    <3>5. Rec(x) BY <3>3 DEF Reads, Base
    <3>6. CASE Has(l, k) # {}
      <4>1. t = Fail(x, "IDX_UNIQUE") BY <2>4, <3>2, <3>4, <3>6 DEF AddAfter
      <4>2. Core(x, t) /\ Quiet(x, t) /\ t.ret = Zeros /\ t.idxError = "IDX_UNIQUE"
        BY <4>1, <3>5 DEF Core, Quiet, Fail, Rec, Flds
      <4>3. Base(x, n, l) BY <3>3 DEF Reads
      <4>4. Reads(x, t, n, l) /\ CursorOf(t) = CursorOf(x) BY <4>2, <4>3, CoreReads
      <4>5. Good(t, n, l) BY <4>4, <3>3, ReadsTrans, ReadsGood
      <4>6. CursorOf(x) = Min(Has(l, k)) BY <3>1, <3>6 DEF Exact, FoundKey
      <4>7. Min(Has(l, k)) \in Has(l, k)
        <5>1. Has(l, k) \in SUBSET Nat BY DEF Has
        <5> QED BY <5>1, <3>6, MinOfSome
      <4>8. t.isUnique = s.isUnique BY <4>2, <3>3 DEF Quiet, Reads
      <4>9. KeyRefused(s, t, ki, n, l) BY <4>2, <4>4, <4>5, <4>6, <4>7, <4>8, <2>4
                                       DEF KeyRefused
      <4> QED BY <4>9 DEF AddOutcome, t
    <3>7. CASE Has(l, k) = {} /\ x.idxError # "IDX_NOERR"
      <4>1. t = NoPair(x) BY <2>4, <3>2, <3>4, <3>7 DEF AddAfter
      <4>2. Drift(s, x) BY <3>1, <3>7 DEF Exact
      <4>3. Reads(s, t, n, l) /\ t.idxError = s.idxError /\ t.ret = Zeros /\ Drift(s, t)
        BY <4>1, <4>2, <3>3, NoPairReads
      <4>4. Good(t, n, l) BY <4>3, ReadsGood
      <4>5. t.isUnique = s.isUnique BY <4>3 DEF Reads, Quiet
      <4>6. ErrorRefused(s, t, n, l) BY <4>3, <4>4, <4>5, <3>3, <3>7, <2>4
                                     DEF ErrorRefused
      <4> QED BY <4>6 DEF AddOutcome, t
    <3>8. CASE Has(l, k) = {} /\ x.idxError = "IDX_NOERR"
      <4>1. t = Place(Visit(x, Query(s, k)), Query(s, k), ki)
        BY <2>4, <3>2, <3>4, <3>8 DEF AddAfter
      <4>2. Drift(s, x) BY <3>1, <3>8 DEF Exact
      <4>3. Added(s, t, ki, n, l) BY <4>1, <4>2, <3>3, <3>8, <1>5, <2>4, QueryAdds
      <4> QED BY <4>3 DEF AddOutcome, t
    <3> QED BY <3>6, <3>7, <3>8
  <2> QED BY <1>3, <2>2, <2>3, <2>4
<1> QED BY <1>4, <1>5

-----------------------------------------------------------------------------
(* deleteIndexItem, of a unique index.                                     *)
(* A fold over one block is a visit of it.                                 *)
LEMMA VisitOne ==
  ASSUME NEW s, NEW f, NEW q, DOMAIN q = {1}, q[1] = f
  PROVE  FoldLeft(Visit, s, q) = Visit(s, f)
<1> DEFINE Eq(h) == h = [S \in SUBSET DOMAIN q |->
                          IF S = {} THEN s ELSE Visit(h[S \ {Max(S)}], q[Max(S)])]
           c == CHOOSE g : Eq(g)
           h == [S \in SUBSET {1} |-> IF S = {} THEN s ELSE Visit(s, f)]
<1>1. FoldLeft(Visit, s, q) = c[DOMAIN q] BY DEF FoldLeft, MapThenFoldSet
<1>2. Max({1}) = 1
  <2>1. {1} \in SUBSET Int /\ 1 \in {1} /\ \A y \in {1} : y <= 1 OBVIOUS
  <2> QED BY <2>1, MaxIs
<1>3. \A S \in SUBSET {1} : S # {} => S = {1} OBVIOUS
<1>4. Eq(h)
  <2>1. ASSUME NEW S \in SUBSET {1}
        PROVE  h[S] = IF S = {} THEN s ELSE Visit(h[S \ {Max(S)}], q[Max(S)])
    <3>1. CASE S = {} BY <3>1
    <3>2. CASE S = {1}
      <4>1. S \ {Max(S)} = {} /\ q[Max(S)] = f BY <3>2, <1>2
      <4>2. h[{}] = s /\ h[S] = Visit(s, f) BY <3>2
      <4> HIDE DEF h
      <4> QED BY <4>1, <4>2, <3>2
    <3> QED BY <3>1, <3>2, <1>3
  <2>2. h = [S \in SUBSET {1} |-> h[S]] OBVIOUS
  <2> HIDE DEF h
  <2> QED BY <2>1, <2>2
<1> HIDE DEF h
<1>5. Eq(c)
  <2> HIDE DEF Eq
  <2> QED BY <1>4
<1>6. \A S \in SUBSET {1} :
        c[S] = IF S = {} THEN s ELSE Visit(c[S \ {Max(S)}], q[Max(S)])
  BY <1>5
<1> HIDE DEF c
<1> HIDE DEF Eq
<1>7. c[{}] = s BY <1>6
<1>8. c[{1}] = Visit(c[{1} \ {Max({1})}], q[Max({1})]) BY <1>6
<1>9. {1} \ {Max({1})} = {} /\ q[Max({1})] = f BY <1>2
<1>10. c[{1}] = Visit(s, f) BY <1>7, <1>8, <1>9
<1> QED BY <1>1, <1>10

(* The call with the block the loop over treeKeys ends at written out.     *)
DeleteAt(s, ki, f, v) ==
  LET p == PairPos(ItemsOf(v), ki)
  IN IF ki.key # s.shell[1].key /\ s.shlError
       THEN [Fail(s, "IDX_SHELL") EXCEPT !.shlError = FALSE]
     ELSE IF p # 0 THEN RemoveHere(v, f, p)
     ELSE Fail(v, "IDX_NEXISTS")

LEMMA DeleteIs ==
  ASSUME NEW s, NEW ki, s.isUnique
  PROVE  LET f == IF ki.key # s.shell[1].key THEN Query(s, ki.key) ELSE 1
             j == Min({i \in f..Len(s.shell) : LoopEnds(s, i, ki)})
             v == FoldLeft(Visit, s, [n \in 1..(j - f + 1) |-> f + n - 1])
         IN DeleteIndexItem(s, ki) = DeleteAt(s, ki, j, v)
PROOF BY DEF DeleteIndexItem, DeleteAt, BlockBefore

(* The loop ends at once.                                                  *)
LEMMA LoopEndsHere ==
  ASSUME NEW s, NEW n, NEW l, Good(s, n, l), s.isUnique, NEW ki, ki.key \in Nat,
         NEW f, Queried(s, f, ki.key, l)
  PROVE  LoopEnds(s, f, ki)
<1> DEFINE k == ki.key
<1>1. /\ Named(s, n) /\ Laid(s, l) /\ Comparable(s, l) /\ Keyed(s)
  BY GoodFacts DEF Good
<1>2. f \in 1..Len(s.shell) /\ Len(s.shell) \in Nat BY <1>1 DEF Queried, Named
<1>3. CASE f = Len(s.shell) BY <1>3 DEF LoopEnds
<1>4. CASE f # Len(s.shell)
  <2>1. f + 1 \in 1..Len(s.shell) /\ f # f + 1 /\ f <= f + 1 BY <1>2, <1>4
  <2>2. ListAt(s, f) # <<>> BY <1>1, <1>2 DEF Keyed
  <2>3. s.shell[f].key < s.shell[f + 1].key BY <1>2, <2>1, KeysRise
  <2>4. s.shell[f].key \in Nat /\ s.shell[f + 1].key \in Nat
    BY <1>1, <1>2, <2>1 DEF Named
  <2>5. O(s, f + 1) + 1 \in 1..Len(l) /\ l[O(s, f + 1) + 1].key = s.shell[f + 1].key
    BY <1>1, <2>1 DEF Comparable
  <2>6. O(s, f + 1) \in Nat
    <3>1. f + 1 \in 1..Len(s.shell) + 1 BY <2>1, <1>2
    <3>2. O(s, f + 1) \in 0..Len(l) BY <3>1, <1>1 DEF Laid
    <3> QED BY <3>2
  <2>7. O(s, f + 1) + 1 > O(s, f + 1) BY <2>6
  <2>8. s.shell[f].key # k => k < s.shell[f + 1].key BY <2>5, <2>7 DEF Queried
  <2>9. s.shell[f + 1].key # k BY <2>3, <2>4, <2>8
  <2> QED BY <2>2, <2>9 DEF LoopEnds, ListAt
<1> QED BY <1>3, <1>4

LEMMA DeleteVisits ==
  ASSUME NEW s, NEW n, NEW l, Good(s, n, l), s.isUnique, s.shell # <<>>,
         NEW ki, ki.key \in Nat
  PROVE  DeleteIndexItem(s, ki) =
           DeleteAt(s, ki, Query(s, ki.key), Visit(s, Query(s, ki.key)))
<1> DEFINE e == Query(s, ki.key)
           f == IF ki.key # s.shell[1].key THEN e ELSE 1
           S == {i \in f..Len(s.shell) : LoopEnds(s, i, ki)}
           j == Min(S)
           q == [m \in 1..(j - f + 1) |-> f + m - 1]
           v == FoldLeft(Visit, s, q)
<1>1. DeleteIndexItem(s, ki) = DeleteAt(s, ki, j, v) BY DeleteIs
<1> HIDE DEF v
<1>2. Queried(s, e, ki.key, l) BY QueryFacts
<1> HIDE DEF e
<1>3. f = e BY <1>2 DEF Queried
<1>4. e \in 1..Len(s.shell) BY <1>2 DEF Queried
<1>5. LoopEnds(s, e, ki) BY <1>2, LoopEndsHere
<1>6. Len(s.shell) \in Nat
  <2>1. Named(s, n) BY GoodFacts
  <2> QED BY <2>1 DEF Named
<1>7. S \in SUBSET Int /\ e \in S /\ \A y \in S : e <= y BY <1>3, <1>4, <1>5, <1>6
<1> HIDE DEF S
<1>8. j = e BY <1>7, MinIs
<1>9. DOMAIN q = {1} /\ q[1] = e
  <2>1. j - f + 1 = 1 BY <1>3, <1>4, <1>8
  <2>2. q = [m \in 1..1 |-> f + m - 1] BY <2>1
  <2>3. f + 1 - 1 = e BY <1>3, <1>4
  <2> QED BY <2>2, <2>3
<1> HIDE DEF q
<1>10. v = Visit(s, e) BY <1>9, VisitOne DEF v
<1> HIDE DEF j
<1> QED BY <1>1, <1>8, <1>10 DEF e

(* The pair is taken out, and the treeKey follows.                         *)
TakeOut(s, i, p) ==
  LET y == Recounted(Without(s, p))
      l == ItemsOf(y)
  IN [y EXCEPT !.shell[i].key = IF p = 1 /\ l # <<>> THEN l[1].key ELSE @]

LEMMA RemoveIs ==
  ASSUME NEW s, NEW i, NEW p
  PROVE  RemoveHere(s, i, p) = AfterRemove(TakeOut(s, i, p), i, ItemsOf(s)[p])
PROOF BY DEF RemoveHere, TakeOut

(* From v to z position p of the i-th block, in buffer b, has gone.        *)
TakenFrom(v, z, i, p, n, l) ==
  LET at == O(v, i) + p
      b == z.cache.blk
      L == RemoveAt(ListAt(v, i), p)
  IN /\ Base(z, n, RemoveAt(l, at)) /\ at \in 1..Len(l)
     /\ Len(z.shell) = Len(v.shell) /\ z.shell[i].item = v.shell[i].item
     /\ ListAt(z, i) = L
     /\ \A j \in 1..Len(v.shell) : j # i =>
          ListAt(z, j) # <<>> /\ ListAt(z, j)[1].key = z.shell[j].key
     /\ L # <<>> => L[1].key = z.shell[i].key
     /\ z.isUnique = v.isUnique /\ z.numItems = v.numItems
     /\ z.idxError = v.idxError /\ z.isSequential = v.isSequential
     /\ b \in Buffers /\ b \in InUse(z.cache)
     /\ z.cache.buf[b].blockNumber = v.shell[i].item /\ z.cache.buf[b].list = L

LEMMA TakeOutFacts ==
  ASSUME NEW v, NEW i, NEW n, NEW l, Arrived(v, i, n, l), Keyed(v),
         NEW p \in 1..Len(ListAt(v, i))
  PROVE  TakenFrom(v, TakeOut(v, i, p), i, p, n, l)
<1> DEFINE z == TakeOut(v, i, p)
           b == v.cache.blk
           x == v.cache
           y0 == RemoveItem(x, b, p)
           y == SetBuffer(y0, b, Counted(y0.buf[b]))
           c == Counted(WithoutItem(x.buf[b], p))
           B == BlocksOf(v)
           L == RemoveAt(ListAt(v, i), p)
           M == RemoveAt(l, O(v, i) + p)
           K == IF p = 1 /\ y.buf[b].list # <<>> THEN y.buf[b].list[1].key
                                                 ELSE v.shell[i].key
<1>1. /\ Base(v, n, l) /\ i \in 1..Len(v.shell) /\ b \in Buffers /\ b \in InUse(x)
      /\ Youngest(x, b) /\ x.buf[b].blockNumber = v.shell[i].item
      /\ x.buf[b].list = ListAt(v, i)
  BY DEF Arrived, ItemsOf
<1>2. /\ Named(v, n) /\ Ok(x, n) /\ Sound(x) /\ Live(x, n) /\ Rec(v)
      /\ Listed(x, B, l) /\ Laid(v, l) /\ v.shell \in Seq(TreeKeys(n))
  BY <1>1, BaseFacts DEF Base
<1>3. /\ Without(v, p) = [v EXCEPT !.cache = y0] /\ y0.blk = b
      /\ y0 = [x EXCEPT !.buf[b] = WithoutItem(x.buf[b], p)]
  <2>1. x \in BlockFile(n) BY <1>2 DEF Ok
  <2>2. y0 = [x EXCEPT !.buf[b] = WithoutItem(x.buf[b], p)] BY DEF RemoveItem, SetBuffer
  <2>3. y0.blk = b BY <2>1, <2>2 DEF BlockFile
  <2> QED BY <2>2, <2>3 DEF Without
<1>4. Recounted(Without(v, p)) = [v EXCEPT !.cache = y]
  <2> HIDE DEF y0
  <2>1. Without(v, p).cache = y0 BY <1>2, <1>3 DEF Rec, Flds
  <2>2. Recounted(Without(v, p)) =
          [Without(v, p) EXCEPT !.cache = [y0 EXCEPT !.buf[b] = Counted(y0.buf[b])]]
    BY <2>1, <1>3 DEF Recounted
  <2> QED BY <2>2, <1>2, <1>3 DEF SetBuffer, Rec, Flds
<1>5. z = [[v EXCEPT !.cache = y] EXCEPT !.shell = [v.shell EXCEPT ![i].key = K]]
  <2>1. y.blk = b
    <3>1. x \in BlockFile(n) BY <1>2 DEF Ok
    <3>2. y.blk = y0.blk
      <4>1. y0 = [f \in DOMAIN y0 |-> y0[f]] /\ "blk" \in DOMAIN y0
        BY <3>1, <1>3 DEF BlockFile
      <4> HIDE DEF y0
      <4> QED BY <4>1 DEF SetBuffer
    <3> QED BY <3>2, <1>3
  <2>2. ItemsOf([v EXCEPT !.cache = y]) = y.buf[b].list
    <3> HIDE DEF y
    <3> QED BY <2>1, <1>2 DEF ItemsOf, Rec, Flds
  <2> HIDE DEF y, y0
  <2> QED BY <2>2, <1>4, <1>2 DEF TakeOut, Rec, Flds
<1> HIDE DEF z
<1>6. /\ Revised(x, y, b, c, n) /\ c.list = RemoveAt(x.buf[b].list, p)
      /\ c.blockNumber = x.buf[b].blockNumber
  <2>1. p \in DOMAIN x.buf[b].list BY <1>1, <1>2 DEF Laid
  <2> QED BY <2>1, <1>1, <1>2, RemoveLive
<1> HIDE DEF y, y0, c
<1>7. /\ Live(y, n) /\ Altered(x, y, v.shell[i].item, L, n) /\ y.blk = b
      /\ b \in InUse(y) /\ y.buf[b].blockNumber = v.shell[i].item /\ y.buf[b].list = L
  BY <1>1, <1>6 DEF Revised, Becomes
<1>8. ShrunkAt(Pairs, ListAt(v, i), p, L)
  <2>1. ListAt(v, i) \in Seq(Pairs) BY <1>1, <1>2 DEF Laid
  <2> QED BY <2>1, RemoveShrinks
<1>9. L \in Seq(Pairs) /\ (L # <<>> => L[1] \in Pairs /\ L[1].key \in Nat
                                        /\ (p # 1 => L[1] = ListAt(v, i)[1]))
  <2>1. L \in Seq(Pairs) BY <1>8 DEF ShrunkAt
  <2>2. L # <<>> => L[1] \in Pairs BY <2>1
  <2>3. p # 1 => L[1] = ListAt(v, i)[1]
    <3>1. p # 1 => 1 \in 1..p - 1 OBVIOUS
    <3> QED BY <3>1, <1>8 DEF ShrunkAt
  <2> QED BY <2>1, <2>2, <2>3, PairKeys
<1>10. K \in Nat /\ (L # <<>> => L[1].key = K)
  <2>1. v.shell[i].key \in Nat /\ ListAt(v, i)[1].key = v.shell[i].key
    BY <1>1, <1>2 DEF Named, Keyed
  <2> HIDE DEF L
  <2> QED BY <2>1, <1>7, <1>9
<1> HIDE DEF K
<1>11. /\ z.cache = y /\ z.shell = [v.shell EXCEPT ![i].key = K]
       /\ z.isUnique = v.isUnique /\ z.numItems = v.numItems
       /\ z.idxError = v.idxError /\ z.isSequential = v.isSequential
       /\ z.current = v.current /\ Rec(z)
  BY <1>2, <1>5 DEF Rec, Flds
<1>12. /\ Len(z.shell) = Len(v.shell) /\ DOMAIN z.shell = 1..Len(v.shell)
       /\ z.shell[i] = [v.shell[i] EXCEPT !.key = K]
       /\ \A j \in 1..Len(v.shell) : j # i => z.shell[j] = v.shell[j]
  BY <1>1, <1>2, <1>11
<1>13. z.shell[i] \in TreeKeys(n) /\ z.shell[i].key = K
       /\ z.shell[i].item = v.shell[i].item
  <2>1. v.shell[i] \in TreeKeys(n) BY <1>1, <1>2 DEF Named
  <2> QED BY <2>1, <1>10, <1>12 DEF TreeKeys
<1>14. z.shell \in Seq(TreeKeys(n)) BY <1>1, <1>2, <1>11, <1>12, <1>13
<1>15. /\ B \in Seq(1..n - 1) /\ i \in DOMAIN B /\ B[i] = v.shell[i].item
       /\ Logical(x, B[i]).list = ListAt(v, i)
       /\ Len(PairsIn(x, SubSeq(B, 1, i - 1))) = O(v, i)
  BY <1>1, <1>2 DEF Named, ListAt, O, Off
<1>16. BlocksOf(z) = B
  <2>1. DOMAIN v.shell = 1..Len(v.shell) BY <1>2 DEF Named
  <2>2. \A j \in 1..Len(v.shell) : z.shell[j].item = v.shell[j].item BY <1>12, <1>13
  <2> QED BY <2>1, <2>2, <1>12 DEF BlocksOf
<1> HIDE DEF B
<1>17. Listed(y, B, M) /\ O(v, i) + p \in 1..Len(l)
  <2>1. Altered(x, y, B[i], RemoveAt(Logical(x, B[i]).list, p), n) BY <1>7, <1>15
  <2>2. p \in 1..Len(Logical(x, B[i]).list) BY <1>15
  <2> QED BY <2>1, <2>2, <1>2, <1>15, ListedAltered
<1>18. Base(z, n, M) BY <1>1, <1>7, <1>11, <1>14, <1>16, <1>17 DEF Base
<1>19. ASSUME NEW j \in 1..Len(v.shell)
      PROVE  ListAt(z, j) = IF j = i THEN L ELSE ListAt(v, j)
  <2>1. v.shell[j].item \in 1..n - 1 BY <1>2 DEF Named
  <2>2. v.shell[j].item = v.shell[i].item => j = i BY <1>1, <1>2 DEF Laid
  <2>3. Logical(y, v.shell[j].item).list =
          IF v.shell[j].item = v.shell[i].item THEN L ELSE Logical(x,
                v.shell[j].item).list
    BY <2>1, <1>7 DEF Altered
  <2>4. z.shell[j].item = v.shell[j].item BY <1>12, <1>13
  <2> QED BY <2>2, <2>3, <2>4, <1>11 DEF ListAt
<1>20. ASSUME NEW j \in 1..Len(v.shell), j # i
       PROVE  ListAt(z, j) # <<>> /\ ListAt(z, j)[1].key = z.shell[j].key
  BY <1>19, <1>20, <1>12 DEF Keyed
<1>21. ListAt(z, i) = L BY <1>1, <1>19
<1>22. L # <<>> => L[1].key = z.shell[i].key BY <1>10, <1>13
<1> HIDE DEF L, M
<1>23. TakenFrom(v, z, i, p, n, l)
  BY <1>1, <1>7, <1>11, <1>12, <1>13, <1>17, <1>18, <1>20, <1>21, <1>22 DEF TakenFrom,
        L, M
<1> QED BY <1>23 DEF z

(* What is left when the pair has gone from the i-th block.                *)
Shortened(z, t, ki, n, m) ==
  /\ Base(t, n, m) /\ Keyed(t)
  /\ t.isUnique = z.isUnique /\ t.numItems = z.numItems - 1 /\ t.ret = ki
  /\ t.idxError = z.idxError /\ t.isSequential = z.isSequential

(* The block keeps a pair: the cursor stays in it.                         *)
LEMMA KeepsBlock ==
  ASSUME NEW z, NEW n, NEW m, Base(z, n, m), NEW i \in 1..Len(z.shell), NEW b, NEW ki,
         b = z.cache.blk, b \in Buffers, z.cache.buf[b].list # <<>>, Keyed(z)
  PROVE  Shortened(z, AfterRemove(z, i, ki), ki, n, m)
<1> DEFINE t == AfterRemove(z, i, ki)
<1>1. ItemsOf(z) # <<>> BY DEF ItemsOf
<1>2. t = [[z EXCEPT !.current = b] EXCEPT !.numItems = @ - 1, !.ret = ki]
  BY <1>1 DEF AfterRemove
<1> HIDE DEF t
<1>3. Rec(z) BY DEF Base
<1>4. /\ Rec(t) /\ t.cache = z.cache /\ t.shell = z.shell /\ t.current = b
      /\ t.isUnique = z.isUnique /\ t.numItems = z.numItems - 1 /\ t.ret = ki
      /\ t.idxError = z.idxError /\ t.isSequential = z.isSequential
  BY <1>2, <1>3 DEF Rec, Flds
<1>5. BlocksOf(t) = BlocksOf(z) BY <1>4 DEF BlocksOf
<1>6. Base(t, n, m) BY <1>4, <1>5 DEF Base
<1>7. Keyed(t) BY <1>4 DEF Keyed, ListAt
<1> QED BY <1>4, <1>6, <1>7 DEF Shortened, t

(* The treeKeys without the i-th.                                          *)
LEMMA ShellWithout ==
  ASSUME NEW z, NEW n, Named(z, n), z.shell \in Seq(TreeKeys(n)),
         NEW i \in 1..Len(z.shell), NEW t, t.shell = RemoveAt(z.shell, i)
  PROVE  /\ t.shell \in Seq(TreeKeys(n)) /\ Len(t.shell) = Len(z.shell) - 1
         /\ \A j \in 1..Len(z.shell) - 1 :
              t.shell[j] = IF j < i THEN z.shell[j] ELSE z.shell[j + 1]
         /\ BlocksOf(t) = RemoveAt(BlocksOf(z), i)
<1> DEFINE B == BlocksOf(z)
           N == Len(z.shell)
<1>1. /\ N \in Nat /\ B \in Seq(1..n - 1) /\ Len(B) = N
      /\ DOMAIN z.shell = 1..N
      /\ \A j \in 1..N : B[j] = z.shell[j].item
  BY DEF Named
<1>2. ShrunkAt(TreeKeys(n), z.shell, i, t.shell) BY RemoveShrinks
<1>3. ShrunkAt(1..n - 1, B, i, RemoveAt(B, i)) BY <1>1, RemoveShrinks
<1>4. /\ t.shell \in Seq(TreeKeys(n)) /\ Len(t.shell) = N - 1
      /\ DOMAIN t.shell = 1..N - 1
      /\ \A j \in 1..i - 1 : t.shell[j] = z.shell[j]
      /\ \A j \in i..N - 1 : t.shell[j] = z.shell[j + 1]
  BY <1>2 DEF ShrunkAt
<1> HIDE DEF B
<1> DEFINE C == RemoveAt(B, i)
<1>5. /\ C \in Seq(1..n - 1) /\ Len(C) = N - 1 /\ DOMAIN C = 1..N - 1
      /\ \A j \in 1..i - 1 : C[j] = B[j]
      /\ \A j \in i..N - 1 : C[j] = B[j + 1]
  BY <1>1, <1>3 DEF ShrunkAt
<1> HIDE DEF C
<1>6. ASSUME NEW j \in 1..N - 1
      PROVE  /\ t.shell[j] = IF j < i THEN z.shell[j] ELSE z.shell[j + 1]
             /\ t.shell[j].item = C[j]
  <2>1. i \in 1..N OBVIOUS
  <2> HIDE DEF N
  <2>2. CASE j < i
    <3>1. j \in 1..i - 1 /\ j \in 1..N BY <2>1, <2>2, <1>1
    <3>2. t.shell[j] = z.shell[j] /\ C[j] = B[j] /\ B[j] = z.shell[j].item
      BY <3>1, <1>1, <1>4, <1>5
    <3> QED BY <2>2, <3>2
  <2>3. CASE ~(j < i)
    <3>1. j \in i..N - 1 /\ j + 1 \in 1..N BY <2>1, <2>3, <1>1
    <3>2. t.shell[j] = z.shell[j + 1] /\ C[j] = B[j + 1]
          /\ B[j + 1] = z.shell[j + 1].item
      BY <3>1, <1>1, <1>4, <1>5
    <3> QED BY <2>3, <3>2
  <2> QED BY <2>2, <2>3
<1>7. BlocksOf(t) = C
  <2>1. BlocksOf(t) = [j \in 1..N - 1 |-> t.shell[j].item] BY <1>4 DEF BlocksOf
  <2>2. C = [j \in 1..N - 1 |-> C[j]] BY <1>5
  <2> QED BY <2>1, <2>2, <1>6
<1> QED BY <1>4, <1>6, <1>7 DEF C, B

(* The block has no pair left: it is unlinked, and its treeKey goes.       *)
LEMMA LosesBlock ==
  ASSUME NEW z, NEW n, NEW m, Base(z, n, m), NEW i \in 1..Len(z.shell), NEW b, NEW ki,
         b = z.cache.blk, b \in Buffers, b \in InUse(z.cache),
         z.cache.buf[b].blockNumber = z.shell[i].item,
         z.cache.buf[b].list = <<>>, ki.item # z.shell[i].item,
         \A j \in 1..Len(z.shell) : j # i =>
           ListAt(z, j) # <<>> /\ ListAt(z, j)[1].key = z.shell[j].key
  PROVE  Shortened(z, AfterRemove(z, i, ki), ki, n, m)
<1> DEFINE t == AfterRemove(z, i, ki)
           x == z.cache
           y == UnlinkBlock(x, b, ki)
           B == BlocksOf(z)
<1>1. /\ Live(x, n) /\ Named(z, n) /\ Ok(x, n) /\ Sound(x) /\ Rec(z)
      /\ Listed(x, B, m) /\ z.shell \in Seq(TreeKeys(n)) /\ Laid(z, m)
      /\ z.isSequential \in BOOLEAN
  BY BaseFacts DEF Base
<1>2. /\ Live(y, n) /\ y.blk \in Buffers
      /\ Relinked(x, y, x.buf[b].img.prevBlock, x.buf[b].img.nextBlock, n)
  BY <1>1, UnlinkLive
<1>3. ItemsOf(z) = <<>> BY DEF ItemsOf
<1>4. t = [Forget([z EXCEPT !.cache = y], i) EXCEPT !.numItems = @ - 1, !.ret = ki]
  BY <1>3, <1>1 DEF AfterRemove
<1> HIDE DEF t, y
<1>5. /\ Rec(t) /\ t.cache = y /\ t.shell = RemoveAt(z.shell, i) /\ t.current = y.blk
      /\ t.isUnique = z.isUnique /\ t.numItems = z.numItems - 1 /\ t.ret = ki
      /\ t.idxError = z.idxError /\ t.isSequential = z.isSequential
  BY <1>1, <1>4 DEF Forget, Rec, Flds
<1>6. /\ t.shell \in Seq(TreeKeys(n)) /\ Len(t.shell) = Len(z.shell) - 1
      /\ \A j \in 1..Len(z.shell) - 1 :
            t.shell[j] = IF j < i THEN z.shell[j] ELSE z.shell[j + 1]
      /\ BlocksOf(t) = RemoveAt(BlocksOf(z), i)
  BY <1>1, <1>5, ShellWithout
<1>7. B \in Seq(1..n - 1) /\ i \in DOMAIN B /\ B[i] = z.shell[i].item
  BY <1>1 DEF Named
<1>8. /\ Logical(x, B[i]).list = <<>>
      /\ Logical(x, B[i]).prevBlock = x.buf[b].img.prevBlock
      /\ Logical(x, B[i]).nextBlock = x.buf[b].img.nextBlock
  <2>1. x.buf[b].blockNumber # 0 /\ x.buf[b].blockNumber = B[i]
    BY <1>1, <1>7 DEF Named
  <2> QED BY <2>1, <1>1, InPlace
<1> HIDE DEF B
<1>9. Listed(y, RemoveAt(B, i), m)
  <2>1. Relinked(x, y, Logical(x, B[i]).prevBlock, Logical(x, B[i]).nextBlock, n)
    BY <1>2, <1>8
  <2> QED BY <2>1, <1>1, <1>7, <1>8, ListedUnlinked
<1>10. Base(t, n, m) BY <1>1, <1>2, <1>5, <1>6, <1>9 DEF Base, B
<1>11. ASSUME NEW j \in 1..Len(t.shell)
       PROVE  ListAt(t, j) # <<>> /\ ListAt(t, j)[1].key = t.shell[j].key
  <2> DEFINE k == IF j < i THEN j ELSE j + 1
  <2>1. Len(z.shell) \in Nat BY <1>1 DEF Named
  <2>2. k \in 1..Len(z.shell) /\ k # i /\ j \in 1..Len(z.shell) - 1
    BY <2>1, <1>6
  <2>3. t.shell[j] = z.shell[k] BY <2>2, <1>6
  <2> HIDE DEF k
  <2>4. z.shell[k].item \in 1..n - 1 BY <2>2, <1>1 DEF Named
  <2>5. ListAt(t, j) = ListAt(z, k)
    BY <2>3, <2>4, <1>2, <1>5 DEF ListAt, Relinked
  <2> QED BY <2>2, <2>3, <2>5
<1>12. Keyed(t) BY <1>11 DEF Keyed
<1> QED BY <1>5, <1>10, <1>12 DEF Shortened, t

(* A pair less keeps the order.                                            *)
LEMMA SortedRemove ==
  ASSUME NEW u, NEW S, NEW l \in Seq(S), SortedBy(u, l), NEW a \in 1..Len(l)
  PROVE  /\ SortedBy(u, RemoveAt(l, a)) /\ RemoveAt(l, a) \in Seq(S)
         /\ Len(RemoveAt(l, a)) = Len(l) - 1 /\ Len(l) \in Nat
<1> DEFINE m == RemoveAt(l, a)
           x(p) == IF p < a THEN p ELSE p + 1
<1>1. Len(l) \in Nat OBVIOUS
<1>2. ShrunkAt(S, l, a, m) BY RemoveShrinks
<1> HIDE DEF m
<1>3. /\ m \in Seq(S) /\ Len(m) = Len(l) - 1
      /\ \A j \in 1..a - 1 : m[j] = l[j]
      /\ \A j \in a..Len(l) - 1 : m[j] = l[j + 1]
  BY <1>2 DEF ShrunkAt
<1>4. ASSUME NEW p \in 1..Len(m) PROVE m[p] = l[x(p)] /\ x(p) \in 1..Len(l)
  <2>1. CASE p < a
    <3>1. p \in 1..a - 1 /\ p \in 1..Len(l) BY <2>1, <1>1, <1>3
    <3> QED BY <3>1, <2>1, <1>3
  <2>2. CASE ~(p < a)
    <3>1. p \in a..Len(l) - 1 /\ p + 1 \in 1..Len(l) BY <2>2, <1>1, <1>3
    <3> QED BY <3>1, <2>2, <1>3
  <2> QED BY <2>1, <2>2
<1>5. ASSUME NEW p \in 1..Len(m), NEW q \in 1..Len(m), p < q
      PROVE  m[p].key <= m[q].key /\ (u => m[p].key # m[q].key)
  <2>1. x(p) < x(q) BY <1>5, <1>1
  <2>2. m[p] = l[x(p)] /\ x(p) \in 1..Len(l) BY <1>4
  <2>3. m[q] = l[x(q)] /\ x(q) \in 1..Len(l) BY <1>4
  <2> HIDE DEF x
  <2> QED BY <2>1, <2>2, <2>3 DEF SortedBy
<1>6. SortedBy(u, m) BY <1>5 DEF SortedBy
<1> QED BY <1>1, <1>3, <1>6 DEF m

(* What deleteIndexItem leaves in t.                                       *)
Deleted(s, t, ki, n, l) ==
  /\ t.ret = ki /\ t.idxError = s.idxError /\ t.isUnique = s.isUnique
  /\ t.isSequential = s.isSequential
  /\ \E p \in 1..Len(l) : l[p] = ki /\ Good(t, n, RemoveAt(l, p))

NotDeleted(s, t, ki, n, l) ==
  /\ \A p \in 1..Len(l) : l[p] # ki
  /\ Good(t, n, l) /\ t.isUnique = s.isUnique /\ Drift(s, t)
  /\ t.ret = Zeros /\ t.idxError = "IDX_NEXISTS"

DeleteRefused(s, t, n, l) ==
  /\ Good(t, n, l) /\ t.isUnique = s.isUnique /\ CursorOf(t) = CursorOf(s)
  /\ t.ret = Zeros /\ t.idxError = "IDX_SHELL"

DeleteOutcome(s, t, ki, n, l) ==
  Deleted(s, t, ki, n, l) \/ NotDeleted(s, t, ki, n, l) \/ DeleteRefused(s, t, n, l)

(* The pair is in the block visited.                                       *)
LEMMA RemoveFacts ==
  ASSUME NEW s, NEW n, NEW l, Good(s, n, l), NEW i \in 1..Len(s.shell), NEW ki,
         ki.item \notin 1..MaxBlocks, NEW p \in 1..Len(ListAt(s, i)),
         ListAt(s, i)[p] = ki
  PROVE  Deleted(s, RemoveHere(Visit(s, i), i, p), ki, n, l)
<1> DEFINE v == Visit(s, i)
           z == TakeOut(v, i, p)
           t == AfterRemove(z, i, ki)
           at == O(v, i) + p
           m == RemoveAt(l, at)
           b == z.cache.blk
           U == Uses[s.isUnique].pairs
<1>1. /\ Base(s, n, l) /\ Named(s, n) /\ Laid(s, l) /\ Keyed(s) /\ l \in Seq(U)
      /\ SortedBy(s.isUnique, l) /\ s.numItems = Len(l) /\ n <= MaxBlocks + 1
      /\ s.isUnique \in DOMAIN Uses
  BY GoodFacts DEF Good
<1>2. n \in Nat \ {0} BY <1>1, BaseFacts
<1>3. /\ Arrived(v, i, n, l) /\ CacheOnly(s, v) /\ SameLayout(s, v)
  BY <1>1, Arrives
<1>4. ItemsOf(v) = ListAt(v, i) /\ i \in 1..Len(v.shell) BY <1>3 DEF Arrived
<1>5. /\ v.isUnique = s.isUnique /\ v.numItems = s.numItems
      /\ v.idxError = s.idxError /\ v.isSequential = s.isSequential /\ v.shell = s.shell
  BY <1>3, CacheOnlyFields
<1>6. /\ ListAt(v, i) = ListAt(s, i) /\ Keyed(v) /\ O(v, i) = O(s, i)
  <2>1. i \in 1..Len(s.shell) + 1 BY <1>1 DEF Named
  <2> QED BY <2>1, <1>1, <1>3, <1>5 DEF SameLayout, Keyed
<1>7. RemoveHere(v, i, p) = t BY <1>4, <1>6, RemoveIs
<1> HIDE DEF v
<1>8. TakenFrom(v, z, i, p, n, l) BY <1>3, <1>6, TakeOutFacts
<1>9. l[at] = ki BY <1>1, <1>6 DEF Laid
<1> HIDE DEF z, at
<1>10. /\ Base(z, n, m) /\ at \in 1..Len(l) /\ Len(z.shell) = Len(v.shell)
       /\ z.shell[i].item = v.shell[i].item
       /\ \A j \in 1..Len(v.shell) : j # i =>
            ListAt(z, j) # <<>> /\ ListAt(z, j)[1].key = z.shell[j].key
       /\ ListAt(z, i) # <<>> => ListAt(z, i)[1].key = z.shell[i].key
       /\ z.isUnique = v.isUnique /\ z.numItems = v.numItems
       /\ z.idxError = v.idxError /\ z.isSequential = v.isSequential
       /\ b \in Buffers /\ b \in InUse(z.cache)
       /\ z.cache.buf[b].blockNumber = v.shell[i].item
       /\ z.cache.buf[b].list = ListAt(z, i)
  BY <1>8 DEF TakenFrom, at
<1>11. Shortened(z, t, ki, n, m)
  <2>1. CASE ListAt(z, i) # <<>>
    <3>1. Keyed(z) BY <2>1, <1>10 DEF Keyed
    <3> QED BY <3>1, <2>1, <1>4, <1>10, KeepsBlock
  <2>2. CASE ListAt(z, i) = <<>>
    <3>1. s.shell[i].item \in 1..n - 1 BY <1>1 DEF Named
    <3>2. s.shell[i].item \in 1..MaxBlocks BY <3>1, <1>1, <1>2, UsesAssumption
    <3>3. ki.item # z.shell[i].item BY <3>2, <1>5, <1>10
    <3> QED BY <3>3, <2>2, <1>4, <1>10, LosesBlock
  <2> QED BY <2>1, <2>2
<1> HIDE DEF t, U
<1>12. /\ SortedBy(s.isUnique, m) /\ m \in Seq(U) /\ Len(m) = Len(l) - 1
  <2>1. at \in 1..Len(l) /\ l \in Seq(U) /\ SortedBy(s.isUnique, l) BY <1>1, <1>10
  <2> QED BY <2>1, SortedRemove
<1> HIDE DEF m
<1>13. Good(t, n, m) BY <1>1, <1>5, <1>10, <1>11, <1>12 DEF Shortened, Good, U
<1>14. Deleted(s, t, ki, n, l)
  BY <1>5, <1>9, <1>10, <1>11, <1>13 DEF Shortened, Deleted, m
<1> QED BY <1>7, <1>14 DEF v

LEMMA DeleteFacts ==
  ASSUME NEW s, NEW n, NEW l, Good(s, n, l), s.isUnique, s.shell # <<>>,
         NEW ki, ki.key \in Nat, ki.item \notin 1..MaxBlocks
  PROVE  DeleteOutcome(s, DeleteIndexItem(s, ki), ki, n, l)
<1> DEFINE t == DeleteIndexItem(s, ki)
           i == Query(s, ki.key)
           v == Visit(s, i)
           p == PairPos(ItemsOf(v), ki)
<1>1. t = DeleteAt(s, ki, i, v) BY DeleteVisits
<1> HIDE DEF t
<1>2. Queried(s, i, ki.key, l) BY QueryFacts
<1> HIDE DEF i
<1>3. i \in 1..Len(s.shell) BY <1>2 DEF Queried
<1>4. Base(s, n, l) /\ Laid(s, l) /\ Rec(s) /\ Comparable(s, l)
  BY GoodFacts DEF Base
<1>5. /\ Arrived(v, i, n, l) /\ CacheOnly(s, v) /\ Drift(s, v) /\ SameLayout(s, v)
      /\ Quiet(s, v)
  BY <1>3, <1>4, Arrives
<1>6. ItemsOf(v) = ListAt(s, i) /\ Rec(v) /\ Base(v, n, l)
  BY <1>3, <1>5 DEF Arrived, SameLayout, Base
<1>7. CASE ki.key # s.shell[1].key /\ s.shlError
  <2>1. t = [Fail(s, "IDX_SHELL") EXCEPT !.shlError = FALSE]
    BY <1>1, <1>7 DEF DeleteAt
  <2>2. /\ Core(s, t) /\ t.ret = Zeros /\ t.idxError = "IDX_SHELL"
        /\ t.isUnique = s.isUnique /\ t.numItems = s.numItems
    BY <2>1, <1>4 DEF Fail, Core, Rec, Flds
  <2>3. Base(t, n, l) /\ CursorOf(t) = CursorOf(s) BY <1>4, <2>2, SameCore
  <2>4. Keyed(t) BY <2>2 DEF Core, Keyed, ListAt, Good
  <2>5. Good(t, n, l) BY <2>2, <2>3, <2>4 DEF Good
  <2>6. DeleteRefused(s, t, n, l) BY <2>2, <2>3, <2>5 DEF DeleteRefused
  <2> QED BY <2>6 DEF DeleteOutcome, t
<1>8. FirstAt(ListAt(s, i), p, {ki})
  <2>1. ListAt(s, i) \in Seq(Pairs) BY <1>3, <1>4 DEF Laid
  <2> QED BY <2>1, <1>6, PairPosFacts
<1>9. CASE ~(ki.key # s.shell[1].key /\ s.shlError) /\ p # 0
  <2>1. t = RemoveHere(v, i, p) BY <1>1, <1>9 DEF DeleteAt
  <2> HIDE DEF p
  <2>2. p \in 1..Len(ListAt(s, i)) /\ ListAt(s, i)[p] = ki BY <1>8, <1>9 DEF FirstAt
  <2>3. Deleted(s, t, ki, n, l) BY <2>1, <2>2, <1>3, RemoveFacts
  <2> QED BY <2>3 DEF DeleteOutcome, t
<1>10. CASE ~(ki.key # s.shell[1].key /\ s.shlError) /\ p = 0
  <2>1. t = Fail(v, "IDX_NEXISTS") BY <1>1, <1>10 DEF DeleteAt
  <2> HIDE DEF p, v
  <2>2. \A q \in 1..Len(ListAt(s, i)) : ListAt(s, i)[q] # ki BY <1>8, <1>10 DEF FirstAt
  <2>3. /\ Core(v, t) /\ Quiet(v, t) /\ t.ret = Zeros /\ t.idxError = "IDX_NEXISTS"
    BY <2>1, <1>6 DEF Core, Quiet, Fail, Rec, Flds
  <2>4. Reads(v, t, n, l) /\ CursorOf(t) = CursorOf(v) BY <2>3, <1>6, CoreReads
  <2>5. Reads(s, v, n, l) BY <1>5, <1>6 DEF Reads
  <2>6. Good(t, n, l) /\ t.isUnique = s.isUnique
    <3>1. Reads(s, t, n, l) BY <2>4, <2>5, ReadsTrans
    <3> QED BY <3>1, ReadsGood DEF Reads, Quiet
  <2>7. Drift(s, t) BY <2>4, <1>5 DEF Drift
  <2>8. ASSUME NEW q \in 1..Len(l), l[q] = ki PROVE FALSE
    <3>1. PICK j \in 1..Len(s.shell) : \E r \in 1..Len(ListAt(s, j)) : q = O(s, j) + r
      BY <1>4 DEF Laid
    <3>2. PICK r \in 1..Len(ListAt(s, j)) : q = O(s, j) + r BY <3>1
    <3>3. ListAt(s, j)[r] = ki BY <3>1, <3>2, <2>8, <1>4 DEF Laid
    <3>4. j # i BY <3>2, <3>3, <2>2
    <3>5. Len(s.shell) \in Nat /\ j \in 1..Len(s.shell) /\ i \in 1..Len(s.shell)
      <4>1. Named(s, n) BY GoodFacts
      <4> QED BY <4>1, <3>1, <1>3 DEF Named
    <3>6. /\ O(s, i) \in Nat /\ O(s, i + 1) \in Nat /\ O(s, j) \in Nat
          /\ Len(ListAt(s, j)) \in Nat /\ O(s, j + 1) = O(s, j) + Len(ListAt(s, j))
      <4>1. i \in 1..Len(s.shell) + 1 /\ i + 1 \in 1..Len(s.shell) + 1
            /\ j \in 1..Len(s.shell) + 1
        BY <3>5
      <4>2. O(s, i) \in 0..Len(l) /\ O(s, i + 1) \in 0..Len(l) /\ O(s, j) \in 0..Len(l)
        BY <4>1, <1>4 DEF Laid
      <4>3. Len(ListAt(s, j)) \in Nat /\ O(s, j + 1) = O(s, j) + Len(ListAt(s, j))
        BY <3>5, <1>4 DEF Laid
      <4>4. Len(l) \in Nat BY <1>4 DEF Laid
      <4> QED BY <4>2, <4>3, <4>4
    <3>7. CASE j < i
      <4>1. j + 1 \in 1..i /\ i \in 1..Len(s.shell) + 1 BY <3>5, <3>7
      <4>2. O(s, j + 1) <= O(s, i) BY <4>1, <1>4 DEF Laid
      <4>3. q <= O(s, i) BY <4>2, <3>2, <3>6
      <4>4. Under(l, O(s, i), ki.key)
        <5>1. ~BlockBefore(s, i, ki.key) BY DEF BlockBefore
        <5> QED BY <5>1, <1>2 DEF Queried
      <4>5. q \in 1..O(s, i) BY <4>3, <3>6
      <4>6. l[q].key < ki.key BY <4>4, <4>5 DEF Under
      <4> QED BY <4>6, <2>8
    <3>8. CASE i < j
      <4>1. i + 1 \in 1..j /\ j \in 1..Len(s.shell) + 1 BY <3>5, <3>8
      <4>2. O(s, i + 1) <= O(s, j) BY <4>1, <1>4 DEF Laid
      <4>3. q > O(s, i + 1) BY <4>2, <3>2, <3>6
      <4>4. ki.key <= l[q].key /\ (s.shell[i].key # ki.key => ki.key < l[q].key)
        BY <4>3, <1>2 DEF Queried
      <4>5. s.shell[i].key = ki.key BY <4>4, <2>8
      <4>6. 1 \in 1..Len(ListAt(s, i)) /\ ListAt(s, i)[1].key = s.shell[i].key
        BY <1>3, <1>4 DEF Comparable, Good, Keyed
      <4>7. O(s, i) + 1 \in 1..Len(l) /\ l[O(s, i) + 1] = ListAt(s, i)[1]
        BY <4>6, <1>3, <1>4 DEF Laid
      <4>8. O(s, i) + 1 <= O(s, i + 1)
        <5>1. O(s, i + 1) = O(s, i) + Len(ListAt(s, i)) /\ Len(ListAt(s, i)) \in Nat
          BY <1>3, <1>4 DEF Laid
        <5>2. Len(ListAt(s, i)) >= 1 BY <4>6, <5>1
        <5> QED BY <5>1, <5>2, <3>6
      <4>9. O(s, i) + 1 < q BY <4>3, <4>8, <3>6
      <4>10. l[O(s, i) + 1].key # l[q].key BY <4>7, <4>9 DEF Good, SortedBy
      <4> QED BY <4>5, <4>6, <4>7, <4>10, <2>8
    <3> QED BY <3>4, <3>5, <3>7, <3>8
  <2>9. NotDeleted(s, t, ki, n, l) BY <2>3, <2>6, <2>7, <2>8 DEF NotDeleted
  <2> QED BY <2>9 DEF DeleteOutcome, t
<1> QED BY <1>7, <1>9, <1>10

-----------------------------------------------------------------------------
(* Opening and closing an index.                                           *)

(* s is the record of a closed index that holds the pairs l.               *)
Shut(s, n, l) ==
  /\ Rec(s) /\ Ok(s.cache, n) /\ Unopened(s.cache) /\ n = s.cache.diskLast + 1
  /\ s.cache.buf = [b \in Buffers |-> NewBuffer]
  /\ s.shell \in Seq(TreeKeys(n)) /\ Listed(s.cache, BlocksOf(s), l) /\ Keyed(s)
  /\ s.isUnique \in DOMAIN Uses /\ l \in Seq(Uses[s.isUnique].pairs)
  /\ SortedBy(s.isUnique, l)
  /\ s.numItems = Len(l) /\ n <= MaxBlocks + 1
  /\ s.current = NULL /\ s.isSequential = FALSE

(* With the lists of buffers empty, blocks are what the file has.          *)
LEMMA NoneInUse ==
  ASSUME NEW x, x.used = <<>>, NEW m
  PROVE  InUse(x) = {} /\ Logical(x, m) = Stored(x.disk[m + 1])
<1>1. InUse(x) = {}
  BY DEF InUse, Range
<1>2. Absent(x, m)
  BY <1>1 DEF Absent
<1> QED BY <1>1, <1>2, FileBlock

(* createIndexFile.                                                        *)
LEMMA NewShut ==
  ASSUME NEW u \in DOMAIN Uses
  PROVE  Shut(NewIndex(u), 1, <<>>)
<1> DEFINE s == NewIndex(u)
<1>1. /\ s.cache = CreateIndexFile /\ s.isUnique = u /\ s.shell = <<>> /\ s.numItems = 0
      /\ s.current = NULL /\ s.isSequential = FALSE /\ Rec(s)
  BY DEF NewIndex, Rec, Flds
<1>2. Ok(s.cache, 1) /\ Unopened(s.cache) /\ s.cache.diskLast = 0
  BY <1>1, NewIndexOk
<1>3. s.cache.buf = [b \in Buffers |-> NewBuffer]
  BY <1>1 DEF CreateIndexFile
<1> HIDE DEF s
<1>4. BlocksOf(s) = <<>> /\ s.shell \in Seq(TreeKeys(1)) /\ Len(s.shell) = 0
  BY <1>1, EmptySeq DEF BlocksOf
<1>5. Listed(s.cache, BlocksOf(s), <<>>)
  BY <1>4, NoneListed
<1>6. Keyed(s)
  BY <1>4 DEF Keyed
<1>7. <<>> \in Seq(Uses[u].pairs) /\ SortedBy(u, <<>>) /\ Len(<<>>) = 0
  BY EmptySeq DEF SortedBy
<1>8. 1 <= MaxBlocks + 1 /\ 1 = 0 + 1
  BY UsesAssumption
<1>9. Shut(s, 1, <<>>)
  BY <1>1, <1>2, <1>3, <1>4, <1>5, <1>6, <1>7, <1>8 DEF Shut
<1> QED BY <1>9 DEF s

(* The treeKeys and the pairs are told by the contents of the blocks.      *)
LEMMA KeyedSame ==
  ASSUME NEW s, NEW n, Named(s, n), Keyed(s), NEW t, t.shell = s.shell,
         Same(s.cache, t.cache, n)
  PROVE  Keyed(t) /\ BlocksOf(t) = BlocksOf(s)
<1>1. ASSUME NEW j \in 1..Len(s.shell) PROVE ListAt(t, j) = ListAt(s, j)
  BY <1>1 DEF ListAt, Same, Named
<1> QED BY <1>1 DEF Keyed, BlocksOf

(* openIndex.                                                              *)
LEMMA OpenLive ==
  ASSUME NEW x, NEW n, Ok(x, n), Unopened(x), n = x.diskLast + 1,
         x.buf = [b \in Buffers |-> NewBuffer]
  PROVE  Live(OpenIndex(x), n) /\ Same(x, OpenIndex(x), n)
<1> DEFINE y == OpenIndex(x)
<1>1. /\ Ok(y, n) /\ Sound(y) /\ Size(y) = BLOCK_CACHE_SIZE /\ y.lastBlock = x.diskLast
  BY OpenIndexOk
<1>2. y.buf = x.buf /\ y.disk = x.disk /\ y.used = x.used
  BY DEF OpenIndex, Ok, BlockFile
<1>3. x.used = <<>> /\ y.used = <<>>
  BY <1>2 DEF Unopened
<1> HIDE DEF y
<1>4. InUse(y) = {} /\ \A m : Logical(y, m) = Logical(x, m)
  BY <1>2, <1>3, NoneInUse
<1>5. \A b \in Buffers : /\ y.buf[b].blockNumber = 0 /\ y.buf[b].current = 0
                         /\ y.buf[b].list = <<>>
  BY <1>2 DEF NewBuffer, UNSET
<1>6. InFree(y) \subseteq Buffers
  BY <1>1, ListsTypes
<1>7. Alive(y)
  BY <1>4, <1>5, <1>6 DEF Alive, Blank
<1>8. Steady(y)
  BY <1>5 DEF Steady, Within, HEAD
<1> QED BY <1>1, <1>4, <1>7, <1>8 DEF Live, Same, y

LEMMA OpenGood ==
  ASSUME NEW s, NEW n, NEW l, Shut(s, n, l)
  PROVE  LET t == [s EXCEPT !.cache = OpenIndex(@)]
         IN /\ Good(t, n, l) /\ CursorOf(t) = 0 /\ t.idxError = s.idxError
               /\ t.ret = s.ret
            /\ t.isUnique = s.isUnique
<1> DEFINE t == [s EXCEPT !.cache = OpenIndex(@)]
<1>1. /\ t.cache = OpenIndex(s.cache) /\ t.isUnique = s.isUnique /\ t.shell = s.shell
      /\ t.numItems = s.numItems /\ t.current = s.current
      /\ t.isSequential = s.isSequential /\ t.idxError = s.idxError /\ t.ret = s.ret
      /\ Rec(t)
  BY DEF Shut, Rec, Flds
<1> HIDE DEF t
<1>2. Live(t.cache, n) /\ Same(s.cache, t.cache, n)
  BY <1>1, OpenLive DEF Shut
<1>3. n \in Nat \ {0} /\ Named(s, n)
  BY Numbers, NamedFacts DEF Shut
<1>4. Keyed(t) /\ BlocksOf(t) = BlocksOf(s)
  BY <1>1, <1>2, <1>3, KeyedSame DEF Shut
<1>5. Listed(t.cache, BlocksOf(t), l)
  BY <1>2, <1>3, <1>4, ListedSame DEF Shut, Named
<1>6. Base(t, n, l)
  BY <1>1, <1>2, <1>5 DEF Base, Shut
<1>7. Good(t, n, l)
  BY <1>1, <1>4, <1>6 DEF Good, Shut
<1>8. CursorOf(t) = 0
  BY <1>1, <1>6, CursorNowhere DEF Shut
<1> QED BY <1>1, <1>7, <1>8 DEF t

(* closeIndexFile.                                                         *)
LEMMA CloseCache ==
  ASSUME NEW x, NEW n, Live(x, n)
  PROVE  LET y == Closed(CloseBlockFile(FlushIndexBlocks(x)))
         IN /\ Ok(y, n) /\ Unopened(y) /\ n = y.diskLast + 1
            /\ y.buf = [b \in Buffers |-> NewBuffer] /\ Same(x, y, n)
<1> DEFINE f == FlushIndexBlocks(x)
           g == CloseBlockFile(f)
           y == Closed(g)
<1>1. Ok(x, n) /\ Sound(x) /\ Alive(x) /\ n = x.lastBlock + 1
  BY DEF Live
<1>2. Ok(f, n) /\ f.lastBlock = x.lastBlock
  BY <1>1, FlushIndexBlocksOk DEF SamePool
<1>3. WrittenAll(x, f, n)
  BY <1>1, FlushViews
<1>n. n \in Nat \ {0} /\ \A k \in 1..n - 1 : k + 1 # 1
  BY <1>1, Numbers
<1> HIDE DEF f
<1>4. Ok(g, n) /\ g.diskLast = f.lastBlock
  BY <1>2, CloseBlockFileOk
<1>5. ASSUME NEW k, k # 1 PROVE g.disk[k] = f.disk[k]
  BY <1>5, <1>2 DEF CloseBlockFile, Ok, BlockFile
<1> HIDE DEF g
<1>6. Ok(y, n) /\ Unopened(y) /\ y.diskLast = g.diskLast
  BY <1>4, ClosedOk
<1>7. \A k : Logical(y, k) = Stored(g.disk[k + 1])
  BY <1>4, ClosedViews
<1>8. y.buf = [b \in Buffers |-> NewBuffer]
  BY <1>4 DEF Closed, Ok, BlockFile
<1> HIDE DEF y
<1>9. ASSUME NEW k \in 1..n - 1 PROVE Logical(y, k) = Logical(x, k)
  <2>1. Logical(y, k) = Stored(f.disk[k + 1])
    BY <1>5, <1>7, <1>n
  <2> QED BY <2>1, <1>3 DEF WrittenAll, Same
<1>10. n = y.diskLast + 1
  BY <1>1, <1>2, <1>4, <1>6
<1> QED BY <1>6, <1>8, <1>9, <1>10 DEF Same, y, g, f

LEMMA CloseShut ==
  ASSUME NEW s, NEW n, NEW l, Good(s, n, l)
  PROVE  LET t == CloseIndexFile(s)
         IN /\ Shut(t, n, l) /\ t.idxError = s.idxError /\ t.ret = s.ret
            /\ t.isUnique = s.isUnique
<1> DEFINE t == CloseIndexFile(s)
<1>1. /\ t.cache = Closed(CloseBlockFile(FlushIndexBlocks(s.cache)))
      /\ t.isUnique = s.isUnique /\ t.shell = s.shell
      /\ t.numItems = s.numItems /\ t.current = NULL /\ t.isSequential = FALSE
      /\ t.idxError = s.idxError /\ t.ret = s.ret /\ Rec(t)
  BY DEF Good, Base, Rec, Flds, CloseIndexFile
<1> HIDE DEF t
<1>2. Base(s, n, l) /\ Named(s, n) /\ Live(s.cache, n) /\ Ok(s.cache, n)
  BY GoodFacts DEF Base, Live
<1>3. /\ Ok(t.cache, n) /\ Unopened(t.cache) /\ n = t.cache.diskLast + 1
      /\ t.cache.buf = [b \in Buffers |-> NewBuffer] /\ Same(s.cache, t.cache, n)
  BY <1>1, <1>2, CloseCache
<1>4. Keyed(t) /\ BlocksOf(t) = BlocksOf(s)
  BY <1>1, <1>2, <1>3, KeyedSame DEF Good
<1>5. Listed(t.cache, BlocksOf(t), l)
  BY <1>2, <1>3, <1>4, ListedSame DEF Base, Named
<1>6. Shut(t, n, l)
  BY <1>1, <1>2, <1>3, <1>4, <1>5 DEF Shut, Good, Base
<1> QED BY <1>1, <1>6 DEF t

-----------------------------------------------------------------------------
(* The specification.                                                      *)

IdxInv ==
  /\ \E n : IF isOpen THEN Good(db, n, pairs) ELSE Shut(db, n, pairs)
  /\ cursor = CursorOf(db)

(* The sorted list uses its own operators of the same definitions.         *)
LEMMA SameWords ==
  /\ \A s, p, e : Sorted!InsertAt(s, p, e) = InsertAt(s, p, e)
  /\ \A s, p : Sorted!RemoveAt(s, p) = RemoveAt(s, p)
  /\ \A S : Sorted!Min(S) = Min(S) /\ Sorted!Max(S) = Max(S)
  /\ Sorted!Nothing = Zeros
BY DEF InsertAt, Sorted!InsertAt, RemoveAt, Sorted!RemoveAt, Min, Sorted!Min,
       Max, Sorted!Max, Sorted!Nothing, Zeros

(* What is known of an open index.                                         *)
Opened(n) ==
  /\ Good(db, n, pairs) /\ Base(db, n, pairs) /\ pairs = PairsOf(db)
  /\ db.isUnique \in DOMAIN Uses /\ UsedPairs \subseteq KeyItem
        /\ db.isUnique \in BOOLEAN
  /\ \A k \in Keys : k \in Nat /\ k \in Sorted!Keys
  /\ \A ki \in UsedPairs : ki.key \in Nat /\ ki \in KeyItem
        /\ ki \in Uses[db.isUnique].pairs
  /\ DOMAIN pairs = 1..Len(pairs) /\ Len(pairs) \in Nat
  /\ FileEnd(db.cache) = n
  /\ cursor = CursorOf(db)

LEMMA OpenedFacts ==
  ASSUME IdxInv, isOpen
  PROVE  \E n : Opened(n)
<1>1. PICK n : Good(db, n, pairs)
  BY DEF IdxInv
<1>2. Base(db, n, pairs) /\ pairs = PairsOf(db) /\ Laid(db, pairs) /\ Live(db.cache, n)
  BY <1>1, GoodFacts, BaseFacts DEF Base
<1>3. db.isUnique \in DOMAIN Uses /\ UsedPairs \subseteq KeyItem
      /\ db.isUnique \in BOOLEAN
  BY <1>1, UsesAssumption DEF Good, UsedPairs
<1>4. \A ki \in UsedPairs : ki.key \in Nat /\ ki \in KeyItem
      /\ ki \in Uses[db.isUnique].pairs
  BY <1>3, UsesAssumption DEF UsedPairs
<1>5. \A k \in Keys : k \in Nat /\ k \in Sorted!Keys
  BY <1>4 DEF Keys, Sorted!Keys
<1>6. DOMAIN pairs = 1..Len(pairs) /\ Len(pairs) \in Nat
  BY <1>2 DEF Laid
<1>7. FileEnd(db.cache) = n
  BY <1>2, LiveFacts
<1> QED BY <1>1, <1>2, <1>3, <1>4, <1>5, <1>6, <1>7 DEF IdxInv, Opened

(* A call leaves the index t.                                              *)
LEMMA DoGood ==
  ASSUME NEW t, NEW n, NEW l, Good(t, n, l), NEW call, Do(call, t)
  PROVE  /\ IdxInv' /\ pairs' = l /\ db' = t /\ cursor' = CursorOf(t)
         /\ call \in Calls
<1>1. PairsOf(t) = l
  BY GoodFacts, BaseFacts
<1>2. db' = t /\ pairs' = l /\ cursor' = CursorOf(t) /\ isOpen' /\ call \in Calls
  BY <1>1 DEF Do
<1>3. Good(db', n, pairs') /\ cursor' = CursorOf(db')
  BY <1>2
<1> QED BY <1>2, <1>3 DEF IdxInv

Faithful ==
  IdxInv' /\ ((Sorted!Next /\ db'.isUnique = db.isUnique) \/ UNCHANGED Sorted!vars)

-----------------------------------------------------------------------------
(* One lemma for each action.                                              *)

LEMMA InitFaithful == Init => IdxInv /\ Sorted!Init
<1> SUFFICES ASSUME Init PROVE IdxInv /\ Sorted!Init
  OBVIOUS
<1>1. PICK u \in DOMAIN Uses : db = NewIndex(u)
  BY DEF Init
<1>2. Shut(db, 1, pairs) /\ ~isOpen
  BY <1>1, NewShut DEF Init
<1>3. /\ db.isSequential = FALSE /\ db.idxError = "IDX_NOERR" /\ db.ret = Zeros
      /\ db.isUnique = u
  BY <1>1 DEF NewIndex
<1>4. cursor = 0 /\ CursorOf(db) = 0
  BY <1>3 DEF Init, CursorOf
<1>5. u \in BOOLEAN
  BY UsesAssumption
<1>6. Sorted!Init
  BY <1>3, <1>4, <1>5, SameWords DEF Init, Sorted!Init, Sorted!NOSCAN
<1> QED BY <1>2, <1>4, <1>6 DEF IdxInv

LEMMA OpenFaithful == ASSUME IdxInv, Open PROVE Faithful
<1>1. PICK n : Shut(db, n, pairs)
  BY DEF IdxInv, Open
<1>2. /\ isOpen' /\ db' = [db EXCEPT !.cache = OpenIndex(@)]
      /\ pairs' = pairs /\ cursor' = cursor
  BY DEF Open
<1>3. /\ Good(db', n, pairs') /\ CursorOf(db') = 0 /\ db'.idxError = db.idxError
      /\ db'.ret = db.ret /\ db'.isUnique = db.isUnique
  BY <1>1, <1>2, OpenGood
<1>4. CursorOf(db) = 0
  BY <1>1 DEF Shut, CursorOf
<1>5. IdxInv'
  BY <1>2, <1>3, <1>4 DEF IdxInv
<1>6. UNCHANGED Sorted!vars
  BY <1>2, <1>3 DEF Sorted!vars
<1> QED BY <1>5, <1>6 DEF Faithful

LEMMA CloseFaithful == ASSUME IdxInv, Close PROVE Faithful
<1>1. PICK n : Good(db, n, pairs)
  BY DEF IdxInv, Close
<1>2. /\ ~isOpen' /\ db' = CloseIndexFile(db) /\ pairs' = pairs /\ cursor' = 0
  BY DEF Close
<1>3. /\ Shut(db', n, pairs') /\ db'.idxError = db.idxError
      /\ db'.ret = db.ret /\ db'.isUnique = db.isUnique
  BY <1>1, <1>2, CloseShut
<1>4. CursorOf(db') = 0
  BY <1>3 DEF Shut, CursorOf
<1>5. IdxInv'
  BY <1>2, <1>3, <1>4 DEF IdxInv
<1>6. Sorted!EndScan
  BY <1>2, <1>3 DEF Sorted!EndScan, Sorted!NOSCAN
<1> QED BY <1>3, <1>5, <1>6 DEF Faithful, Sorted!Next

LEMMA ClearFaithful == ASSUME IdxInv, ClearError PROVE Faithful
<1>1. PICK n : Opened(n)
  BY OpenedFacts DEF ClearError
<1> DEFINE t == [db EXCEPT !.idxError = "IDX_NOERR"]
<1>2. /\ db' = t /\ isOpen' /\ pairs' = pairs /\ cursor' = cursor
  BY DEF ClearError
<1>3. Core(db, t) /\ Quiet(db, t) /\ t.idxError = "IDX_NOERR" /\ t.ret = db.ret
  BY <1>1 DEF Opened, Base, Core, Quiet, Rec, Flds
<1> HIDE DEF t
<1>4. Reads(db, t, n, pairs) /\ CursorOf(t) = CursorOf(db)
  BY <1>1, <1>3, CoreReads DEF Opened
<1>5. Good(t, n, pairs)
  BY <1>1, <1>4, ReadsGood DEF Opened
<1>6. IdxInv'
  BY <1>1, <1>2, <1>4, <1>5 DEF IdxInv, Opened
<1>7. Sorted!ClearError /\ db'.isUnique = db.isUnique
  BY <1>2, <1>3 DEF Sorted!ClearError, Quiet
<1> QED BY <1>6, <1>7 DEF Faithful, Sorted!Next

LEMMA SearchExactFaithful ==
  ASSUME IdxInv, NEW k \in Keys, SearchExact(k)
  PROVE  Faithful
<1>1. PICK n : Opened(n)
  BY OpenedFacts DEF SearchExact, Do
<1> DEFINE t == SearchExactIndexItem(db, k)
<1>2. Do("searchExact", t) /\ k \in Nat /\ k \in Sorted!Keys
  BY <1>1 DEF SearchExact, Opened
<1>3. CASE db.shell = <<>>
  <2>1. t = EmptyShell(db)
    BY <1>3 DEF SearchExactIndexItem
  <2> HIDE DEF t
  <2>2. /\ Good(t, n, pairs) /\ CursorOf(t) = CursorOf(db) /\ t.isUnique = db.isUnique
        /\ t.ret = Zeros /\ t.idxError = "IDX_UNSTABLE"
    BY <1>1, <2>1, NoShellFacts DEF Opened
  <2>3. IdxInv' /\ pairs' = pairs /\ db' = t /\ cursor' = CursorOf(t)
    BY <1>2, <2>2, DoGood
  <2>4. pairs = <<>>
    BY <1>1, <1>3, EmptyFacts DEF Opened
  <2>5. Sorted!SearchEmpty /\ db'.isUnique = db.isUnique
    BY <1>1, <2>2, <2>3, <2>4, SameWords DEF Sorted!SearchEmpty, Opened
  <2> QED BY <2>3, <2>5 DEF Faithful, Sorted!Next
<1>4. CASE db.shell # <<>>
  <2>1. Exact(db, t, k, n, pairs)
    BY <1>1, <1>2, <1>4, ExactFacts DEF Opened
  <2> HIDE DEF t
  <2>2. Good(t, n, pairs) /\ t.isUnique = db.isUnique /\ t.idxError = db.idxError
    BY <1>1, <2>1, ReadsGood DEF Opened, Exact, Reads, Quiet
  <2>3. IdxInv' /\ pairs' = pairs /\ db' = t /\ cursor' = CursorOf(t)
    BY <1>2, <2>2, DoGood
  <2>4. pairs # <<>>
    BY <1>1, <1>4, EmptyFacts DEF Opened
  <2>5. Sorted!With(k) = Has(pairs, k)
    BY <1>1 DEF Sorted!With, Has, Opened
  <2>6. CASE Has(pairs, k) # {}
    <3>1. Sorted!Read(Sorted!Min(Sorted!With(k)))
      BY <2>1, <2>3, <2>5, <2>6, SameWords DEF Exact, FoundKey, Sorted!Read
    <3>2. Sorted!SearchExact(k)
      BY <2>2, <2>3, <2>4, <2>5, <2>6, <3>1 DEF Sorted!SearchExact
    <3> QED BY <1>2, <2>2, <2>3, <3>2 DEF Faithful, Sorted!Next
  <2>7. CASE Has(pairs, k) = {}
    <3>1. db'.ret = Sorted!Nothing /\ Sorted!MayLose(cursor)
      BY <1>1, <2>1, <2>3, <2>7, SameWords
      DEF Exact, Drift, Sorted!MayLose, Sorted!NOSCAN, Sorted!LOST, Opened
    <3>2. Sorted!SearchExact(k)
      BY <2>2, <2>3, <2>4, <2>5, <2>7, <3>1 DEF Sorted!SearchExact
    <3> QED BY <1>2, <2>2, <2>3, <3>2 DEF Faithful, Sorted!Next
  <2> QED BY <2>6, <2>7
<1> QED BY <1>3, <1>4

LEMMA SearchFaithful ==
  ASSUME IdxInv, NEW k \in Keys, Search(k)
  PROVE  Faithful
<1>1. PICK n : Opened(n)
  BY OpenedFacts DEF Search, Do
<1> DEFINE t == SearchIndexItem(db, k)
<1>2. Do("search", t) /\ k \in Nat /\ k \in Sorted!Keys
  BY <1>1 DEF Search, Opened
<1>3. CASE db.shell = <<>>
  <2>1. t = EmptyShell(db)
    BY <1>3 DEF SearchIndexItem
  <2> HIDE DEF t
  <2>2. /\ Good(t, n, pairs) /\ CursorOf(t) = CursorOf(db) /\ t.isUnique = db.isUnique
        /\ t.ret = Zeros /\ t.idxError = "IDX_UNSTABLE"
    BY <1>1, <2>1, NoShellFacts DEF Opened
  <2>3. IdxInv' /\ pairs' = pairs /\ db' = t /\ cursor' = CursorOf(t)
    BY <1>2, <2>2, DoGood
  <2>4. pairs = <<>>
    BY <1>1, <1>3, EmptyFacts DEF Opened
  <2>5. Sorted!SearchEmpty /\ db'.isUnique = db.isUnique
    BY <1>1, <2>2, <2>3, <2>4, SameWords DEF Sorted!SearchEmpty, Opened
  <2> QED BY <2>3, <2>5 DEF Faithful, Sorted!Next
<1>4. CASE db.shell # <<>>
  <2>1. Nearest(db, t, k, n, pairs)
    BY <1>1, <1>2, <1>4, SearchFacts DEF Opened
  <2> HIDE DEF t
  <2>2. Good(t, n, pairs) /\ t.isUnique = db.isUnique /\ t.idxError = db.idxError
    BY <1>1, <2>1, ReadsGood DEF Opened, Nearest, Reads, Quiet
  <2>3. IdxInv' /\ pairs' = pairs /\ db' = t /\ cursor' = CursorOf(t)
    BY <1>2, <2>2, DoGood
  <2>4. pairs # <<>>
    BY <1>1, <1>4, EmptyFacts DEF Opened
  <2>5. Sorted!With(k) = Has(pairs, k) /\ Sorted!Below(k) = Lesser(pairs, k)
    BY <1>1 DEF Sorted!With, Has, Sorted!Below, Lesser, Opened
  <2>6. BestPlace(pairs, k) = IF Sorted!With(k) # {} THEN Sorted!Min(Sorted!With(k))
                              ELSE Sorted!Max({1} \cup Sorted!Below(k))
    BY <2>5, SameWords DEF BestPlace
  <2>7. Sorted!Read(BestPlace(pairs, k))
    BY <2>1, <2>3 DEF Nearest, Sorted!Read
  <2>8. Sorted!Search(k)
    BY <2>2, <2>3, <2>4, <2>6, <2>7 DEF Sorted!Search
  <2> QED BY <1>2, <2>2, <2>3, <2>8 DEF Faithful, Sorted!Next
<1> QED BY <1>3, <1>4

(* The calls that read an end of the index.                                *)
LEMMA EndFaithful ==
  ASSUME IdxInv, FirstItem \/ LastItem
  PROVE  Faithful
<1>1. PICK n : Opened(n)
  BY OpenedFacts DEF FirstItem, LastItem, Do
<1>2. CASE db.shell = <<>>
  <2> DEFINE t == NoPair(db)
  <2>1. FirstIndexItem(db) = t /\ LastIndexItem(db) = t
    BY <1>2 DEF FirstIndexItem, LastIndexItem
  <2>2. \E call : Do(call, t)
    BY <2>1 DEF FirstItem, LastItem
  <2>3. /\ Reads(db, t, n, pairs) /\ CursorOf(t) = CursorOf(db)
        /\ t.idxError = db.idxError /\ t.ret = Zeros
    BY <1>1, NoShellFacts DEF Opened
  <2> HIDE DEF t
  <2>4. Good(t, n, pairs) /\ t.isUnique = db.isUnique
    BY <1>1, <2>3, ReadsGood DEF Opened, Reads, Quiet
  <2>5. IdxInv' /\ pairs' = pairs /\ db' = t /\ cursor' = CursorOf(t)
    BY <2>2, <2>4, DoGood
  <2>6. pairs = <<>>
    BY <1>1, <1>2, EmptyFacts DEF Opened
  <2>7. Sorted!ReadEmpty
    BY <1>1, <2>3, <2>5, <2>6, SameWords DEF Sorted!ReadEmpty, Opened
  <2> QED BY <2>4, <2>5, <2>7 DEF Faithful, Sorted!Next
<1>3. CASE db.shell # <<>>
  <2>1. PICK t, p, call : /\ Do(call, t) /\ ReadAt(db, t, p, n, pairs)
                          /\ p = 1 \/ p = Len(pairs)
    BY <1>1, <1>3, EndsFacts DEF FirstItem, LastItem, Opened
  <2>2. Good(t, n, pairs) /\ t.isUnique = db.isUnique /\ t.idxError = db.idxError
    BY <1>1, <2>1, ReadsGood DEF Opened, ReadAt, Reads, Quiet
  <2>3. IdxInv' /\ pairs' = pairs /\ db' = t /\ cursor' = CursorOf(t)
    BY <2>1, <2>2, DoGood
  <2>4. pairs # <<>>
    BY <1>1, <1>3, EmptyFacts DEF Opened
  <2>5. Sorted!Read(p)
    BY <2>1, <2>3 DEF ReadAt, Sorted!Read
  <2>6. Sorted!FirstItem \/ Sorted!LastItem
    BY <2>1, <2>2, <2>3, <2>4, <2>5 DEF Sorted!FirstItem, Sorted!LastItem
  <2> QED BY <2>2, <2>3, <2>6 DEF Faithful, Sorted!Next
<1> QED BY <1>2, <1>3

(* What a step of a scan is to the list.                                   *)
LEMMA StepFaithful ==
  ASSUME IdxInv, NEW n, Opened(n), NEW t, NEW call, Do(call, t),
         NEW dir \in {1, -1}, Stepped(db, t, dir, n, pairs)
  PROVE  Faithful
<1>1. Reads(db, t, n, pairs) /\ t.isSequential = db.isSequential
  BY DEF Stepped
<1>2. Good(t, n, pairs) /\ t.isUnique = db.isUnique /\ Base(t, n, pairs)
  BY <1>1, ReadsGood DEF Opened, Reads, Quiet
<1>3. IdxInv' /\ pairs' = pairs /\ db' = t /\ cursor' = CursorOf(t)
      /\ cursor = CursorOf(db)
  BY <1>2, DoGood DEF Opened
<1>4. /\ db.isSequential => cursor \in 1..Len(pairs) \cup {-1}
      /\ ~db.isSequential => cursor = 0
      /\ db.isSequential => cursor' \in 1..Len(pairs) \cup {-1}
      /\ ~db.isSequential => cursor' = 0
  BY <1>1, <1>2, <1>3, CursorType DEF Opened
<1>5. DOMAIN pairs = 1..Len(pairs) /\ Len(pairs) \in Nat
  BY DEF Opened
<1>6. CASE ~db.isSequential
  <2>1. Sorted!MoveWithoutScan
    BY <1>3, <1>4, <1>6, SameWords DEF Stepped, Sorted!MoveWithoutScan, Sorted!NOSCAN
  <2> QED BY <1>2, <1>3, <2>1 DEF Faithful, Sorted!Next
<1>7. CASE cursor = -1
  <2>1. db.isSequential
    BY <1>4, <1>7
  <2>2. db'.ret \in KeyItem \cup {Sorted!Nothing}
    BY <1>3, <2>1, SameWords DEF Stepped, Pairs
  <2>3. db'.idxError \in {db.idxError, "IDX_UNSTABLE"}
    BY <1>3, <2>1 DEF Stepped
  <2>4. Sorted!MoveLost
    BY <1>3, <1>4, <1>5, <1>7, <2>1, <2>2, <2>3 DEF Sorted!MoveLost, Sorted!LOST
  <2> QED BY <1>2, <1>3, <2>4 DEF Faithful, Sorted!Next
<1>8. CASE cursor \in 1..Len(pairs)
  <2>1. cursor > 0 /\ cursor \in Nat
    BY <1>8
  <2> DEFINE c == CursorOf(t)
  <2>2. /\ t.idxError = db.idxError
        /\ cursor + dir \in 1..Len(pairs) => c = cursor + dir
              /\ t.ret = pairs[cursor + dir]
        /\ cursor + dir \notin 1..Len(pairs) => c = cursor /\ t.ret = Zeros
    BY <1>3, <2>1 DEF Stepped
  <2> HIDE DEF c
  <2>3. t.ret = Sorted!PairAt(cursor + dir)
    BY <1>5, <2>2, SameWords DEF Sorted!PairAt
  <2>4. CASE dir = 1
    <3>1. c = Min({cursor + 1, Len(pairs)})
      <4>1. cursor + 1 <= Len(pairs) => cursor + 1 \in 1..Len(pairs)
        BY <1>5, <1>8
      <4>2. ~(cursor + 1 <= Len(pairs)) => cursor + 1 \notin 1..Len(pairs)
            /\ Len(pairs) = cursor
        <5> DEFINE m == Len(pairs)
        <5>1. m \in Nat /\ cursor \in 1..m /\ cursor \in Nat
          BY <1>5, <1>8, <2>1
        <5> HIDE DEF m
        <5>2. ~(cursor + 1 <= m) => cursor + 1 \notin 1..m /\ m = cursor
          BY <5>1
        <5> QED BY <5>2 DEF m
      <4>3. Len(pairs) <= cursor + 1 \/ cursor + 1 <= Len(pairs)
        BY <1>5, <1>8
      <4>4. CASE cursor + 1 <= Len(pairs)
        BY <1>5, <2>1, <2>2, <2>4, <4>1, <4>4, MinOfTwo
      <4>5. CASE ~(cursor + 1 <= Len(pairs))
        <5>1. Len(pairs) <= cursor + 1
          BY <4>3, <4>5
        <5> QED BY <1>5, <2>1, <2>2, <2>4, <4>2, <4>5, <5>1, MinOfTwo
      <4> QED BY <4>4, <4>5
    <3>2. Sorted!NextItem
      BY <1>3, <1>5, <1>8, <2>2, <2>3, <2>4, <3>1, SameWords DEF Sorted!NextItem, c
    <3> QED BY <1>2, <1>3, <3>2 DEF Faithful, Sorted!Next
  <2>5. CASE dir = -1
    <3> DEFINE d == cursor - 1
               one == 1
    <3>0. /\ d \in Int /\ one \in Int
          /\ d <= one => Max({d, one}) = one
          /\ one <= d => Max({d, one}) = d
      <4>1. d \in Int /\ one \in Int
        BY <2>1
      <4> HIDE DEF d, one
      <4> QED BY <4>1, MinOfTwo
    <3>1. c = Max({cursor - 1, 1})
      <4>1. cursor + -1 = cursor - 1 /\ cursor - 1 \in Int
        BY <2>1
      <4>2. CASE cursor = 1
        <5>1. cursor - 1 <= 1 /\ cursor + -1 \notin 1..Len(pairs)
          BY <4>2
        <5>2. Max({cursor - 1, 1}) = 1
          BY <3>0, <5>1
        <5> QED BY <2>2, <2>5, <4>2, <5>1, <5>2
      <4>3. CASE cursor # 1
        <5>1. 1 <= cursor - 1 /\ cursor + -1 \in 1..Len(pairs)
          BY <1>8, <4>3
        <5>2. Max({cursor - 1, 1}) = cursor - 1
          BY <3>0, <5>1
        <5> QED BY <2>2, <2>5, <4>1, <5>1, <5>2
      <4> QED BY <4>2, <4>3
    <3>2. Sorted!PairAt(cursor - 1) = t.ret
      BY <2>1, <2>3, <2>5
    <3>3. Sorted!PrevItem
      BY <1>3, <1>5, <1>8, <2>2, <3>2, <3>1, SameWords DEF Sorted!PrevItem, c
    <3> QED BY <1>2, <1>3, <3>3 DEF Faithful, Sorted!Next
  <2> QED BY <2>4, <2>5
<1> QED BY <1>4, <1>6, <1>7, <1>8

LEMMA MoveFaithful ==
  ASSUME IdxInv, NextItem \/ PrevItem
  PROVE  Faithful
<1>1. PICK n : Opened(n)
  BY OpenedFacts DEF NextItem, PrevItem, Do
<1>2. Base(db, n, pairs) /\ Full(db) /\ ~Dangling(db)
  BY <1>1, GoodFacts DEF Opened, Comparable, NextItem, PrevItem
<1>3. CASE NextItem
  <2>1. Stepped(db, NextIndexItem(db), 1, n, pairs)
    BY <1>2, NextFacts
  <2> QED BY <1>1, <1>3, <2>1, StepFaithful DEF NextItem
<1>4. CASE PrevItem
  <2>1. Stepped(db, PrevIndexItem(db), -1, n, pairs)
    BY <1>2, PrevFacts
  <2> QED BY <1>1, <1>4, <2>1, StepFaithful DEF PrevItem
<1> QED BY <1>3, <1>4

(* A cursor that dangles is known to be lost.                              *)
LEMMA WildFaithful == ASSUME IdxInv, WildItem PROVE Faithful
<1>1. PICK n : Opened(n)
  BY OpenedFacts DEF WildItem, Do
<1>2. PICK ki \in UsedPairs \cup {Zeros} : Do("next", [db EXCEPT !.ret = ki])
  BY DEF WildItem
<1> DEFINE t == [db EXCEPT !.ret = ki]
<1>3. Core(db, t) /\ Quiet(db, t) /\ t.idxError = db.idxError /\ t.ret = ki
  BY <1>1 DEF Opened, Base, Core, Quiet, Rec, Flds
<1> HIDE DEF t
<1>4. Reads(db, t, n, pairs) /\ CursorOf(t) = CursorOf(db)
  BY <1>1, <1>3, CoreReads DEF Opened
<1>5. Good(t, n, pairs)
  BY <1>1, <1>4, ReadsGood DEF Opened
<1>6. IdxInv' /\ pairs' = pairs /\ db' = t /\ cursor' = CursorOf(t)
  BY <1>2, <1>5, DoGood DEF t
<1>7. cursor = -1
  <2>1. \A j, q : ~At(db, j, q)
    BY <1>1, AtLink DEF Opened, WildItem
  <2> QED BY <1>1, <2>1, CursorNowhere DEF Opened, WildItem
<1>8. ki \in KeyItem \cup {Sorted!Nothing}
  BY <1>1, SameWords DEF Opened
<1>9. Sorted!MoveLost
  BY <1>1, <1>3, <1>4, <1>6, <1>7, <1>8 DEF Sorted!MoveLost, Sorted!LOST, Opened
<1> QED BY <1>3, <1>6, <1>9 DEF Faithful, Sorted!Next, Quiet

-----------------------------------------------------------------------------
(* The calls that change the index.                                        *)

LEMMA OrderedBySorted ==
  ASSUME NEW u, NEW l, SortedBy(u, l), Len(l) \in Nat
  PROVE  Sorted!Ordered(l)
<1>1. ASSUME NEW p \in 1..Len(l) - 1
      PROVE p \in 1..Len(l) /\ p + 1 \in 1..Len(l) /\ p < p + 1
  OBVIOUS
<1> QED BY <1>1 DEF Sorted!Ordered, SortedBy

LEMMA AddFaithful ==
  ASSUME WellUsed, IdxInv, NEW ki \in UsedPairs, Add(ki)
  PROVE  Faithful
<1>1. PICK n : Opened(n)
  BY OpenedFacts DEF Add, Do
<1> DEFINE t == AddIndexItem(db, ki)
<1>2. /\ Do("add", t) /\ n <= MaxBlocks /\ ki \in KeyItem
      /\ ki \in Uses[db.isUnique].pairs
  BY <1>1 DEF Add, Opened
<1>3. AddOutcome(db, t, ki, n, pairs)
  BY <1>1, <1>2, AddFacts DEF Opened, WellUsed
<1> HIDE DEF t
<1>4. Sorted!With(ki.key) = Has(pairs, ki.key)
  BY <1>1 DEF Sorted!With, Has, Opened
<1>5. CASE Added(db, t, ki, n, pairs)
  <2>1. PICK p \in 1..Len(pairs) + 1, k \in {n, n + 1} :
          Good(t, k, InsertAt(pairs, p, ki)) /\ Pushes(db, t, p)
    BY <1>5 DEF Added
  <2>2. /\ IdxInv' /\ pairs' = InsertAt(pairs, p, ki) /\ db' = t
        /\ cursor' = CursorOf(t) /\ cursor = CursorOf(db)
    BY <1>1, <1>2, <2>1, DoGood DEF Opened
  <2>3. Sorted!MayLose(IF cursor >= p THEN cursor + 1 ELSE cursor)
    BY <2>1, <2>2 DEF Pushes, Pushed, Sorted!MayLose, Sorted!NOSCAN, Sorted!LOST
  <2>4. Sorted!Ordered(pairs')
    <3>1. Laid(t, pairs') /\ SortedBy(t.isUnique, pairs')
      BY <2>1, <2>2, GoodFacts
    <3> QED BY <3>1, OrderedBySorted DEF Laid
  <2>5. Sorted!Add(ki)
    BY <1>4, <1>5, <2>2, <2>3, <2>4, SameWords DEF Added, Sorted!Add
  <2> QED BY <1>2, <1>5, <2>2, <2>5 DEF Faithful, Sorted!Next, Added
<1>6. CASE KeyRefused(db, t, ki, n, pairs)
  <2>1. /\ IdxInv' /\ pairs' = pairs /\ db' = t /\ cursor' = CursorOf(t)
    BY <1>2, <1>6, DoGood DEF KeyRefused
  <2>2. Sorted!RefuseKey(ki)
    BY <1>4, <1>6, <2>1, SameWords DEF KeyRefused, Sorted!RefuseKey
  <2> QED BY <1>2, <1>6, <2>1, <2>2 DEF Faithful, Sorted!Next, KeyRefused
<1>7. CASE ErrorRefused(db, t, n, pairs)
  <2>1. /\ IdxInv' /\ pairs' = pairs /\ db' = t /\ cursor' = CursorOf(t)
    BY <1>2, <1>7, DoGood DEF ErrorRefused
  <2>2. Sorted!MayLose(cursor)
    BY <1>1, <1>7, <2>1
    DEF ErrorRefused, Drift, Sorted!MayLose, Sorted!NOSCAN, Sorted!LOST, Opened
  <2>3. Sorted!RefuseAfterError
    BY <1>7, <2>1, <2>2, SameWords DEF ErrorRefused, Sorted!RefuseAfterError
  <2> QED BY <1>7, <2>1, <2>3 DEF Faithful, Sorted!Next, ErrorRefused
<1> QED BY <1>3, <1>5, <1>6, <1>7 DEF AddOutcome

LEMMA DeleteFaithful ==
  ASSUME WellUsed, IdxInv, NEW ki \in UsedPairs, Delete(ki)
  PROVE  Faithful
<1>1. PICK n : Opened(n)
  BY OpenedFacts DEF Delete, Do
<1> DEFINE t == DeleteIndexItem(db, ki)
<1>2. /\ Do("delete", t) /\ ki \in KeyItem /\ ki.key \in Nat /\ db.shell # <<>>
  BY <1>1 DEF Delete, Opened
<1>3. "delete" \in Uses[db.isUnique].calls
  BY <1>2 DEF Do, Calls
<1>4. db.isUnique /\ ki.item \notin 1..MaxBlocks
  BY <1>1, <1>3 DEF WellUsed, DeletesAreUnique, ItemsAreNoBlocks, Opened
<1>5. DeleteOutcome(db, t, ki, n, pairs)
  BY <1>1, <1>2, <1>4, DeleteFacts DEF Opened
<1> HIDE DEF t
<1>6. CASE Deleted(db, t, ki, n, pairs)
  <2>1. PICK p \in 1..Len(pairs) : pairs[p] = ki /\ Good(t, n, RemoveAt(pairs, p))
    BY <1>6 DEF Deleted
  <2>2. /\ IdxInv' /\ pairs' = RemoveAt(pairs, p) /\ db' = t
        /\ cursor' = CursorOf(t) /\ cursor = CursorOf(db)
    BY <1>1, <1>2, <2>1, DoGood DEF Opened
  <2>3. p \in Sorted!With(ki.key)
    BY <1>1, <2>1 DEF Sorted!With, Opened
  <2>4. Base(t, n, pairs') /\ DOMAIN pairs' = 1..Len(pairs')
    BY <2>1, <2>2, GoodFacts DEF Laid
  <2>5. IF cursor = 0 THEN cursor' = 0 ELSE cursor' \in DOMAIN pairs' \cup {-1}
    <3>1. t.isSequential = db.isSequential
      BY <1>6 DEF Deleted
    <3>2. CASE db.isSequential
      BY <1>1, <2>2, <2>4, <3>1, <3>2, CursorType DEF Opened
    <3>3. CASE ~db.isSequential
      BY <1>1, <2>2, <2>4, <3>1, <3>3, CursorType DEF Opened
    <3> QED BY <3>2, <3>3
  <2>6. Sorted!Delete(ki)
    BY <1>6, <2>1, <2>2, <2>3, <2>5, SameWords
    DEF Deleted, Sorted!Delete, Sorted!NOSCAN, Sorted!LOST
  <2> QED BY <1>2, <1>6, <2>2, <2>6 DEF Faithful, Sorted!Next, Deleted
<1>7. CASE NotDeleted(db, t, ki, n, pairs)
  <2>1. /\ IdxInv' /\ pairs' = pairs /\ db' = t /\ cursor' = CursorOf(t)
    BY <1>2, <1>7, DoGood DEF NotDeleted
  <2>2. Sorted!MayLose(cursor)
    BY <1>1, <1>7, <2>1
    DEF NotDeleted, Drift, Sorted!MayLose, Sorted!NOSCAN, Sorted!LOST, Opened
  <2>3. Sorted!DeleteAbsent(ki)
    BY <1>1, <1>7, <2>1, <2>2, SameWords DEF NotDeleted, Sorted!DeleteAbsent, Opened
  <2> QED BY <1>2, <1>7, <2>1, <2>3 DEF Faithful, Sorted!Next, NotDeleted
<1>8. CASE DeleteRefused(db, t, n, pairs)
  <2>1. /\ IdxInv' /\ pairs' = pairs /\ db' = t /\ cursor' = CursorOf(t)
    BY <1>2, <1>8, DoGood DEF DeleteRefused
  <2>2. Sorted!DeleteFails
    BY <1>1, <1>8, <2>1, SameWords DEF DeleteRefused, Sorted!DeleteFails, Opened
  <2> QED BY <1>8, <2>1, <2>2 DEF Faithful, Sorted!Next, DeleteRefused
<1> QED BY <1>5, <1>6, <1>7, <1>8 DEF DeleteOutcome

-----------------------------------------------------------------------------
(* The invariant, and what follows from it.                                *)

LEMMA IndexSteps ==
  ASSUME WellUsed, IdxInv, [Next]_vars
  PROVE  IdxInv' /\ [Sorted!Next /\ UNCHANGED db.isUnique]_(Sorted!vars)
<1>1. CASE UNCHANGED vars
  BY <1>1 DEF vars, IdxInv, Sorted!vars
<1>2. CASE Next
  <2>1. Faithful
    BY <1>2, OpenFaithful, CloseFaithful, ClearFaithful, SearchExactFaithful,
       SearchFaithful, EndFaithful, MoveFaithful, WildFaithful, AddFaithful,
       DeleteFaithful DEF Next
  <2> QED BY <2>1 DEF Faithful
<1> QED BY <1>1, <1>2

LEMMA IndexInvariant == ASSUME WellUsed PROVE Spec => []IdxInv
<1>1. IdxInv /\ [Next]_vars => IdxInv'
  BY IndexSteps
<1> QED BY <1>1, InitFaithful, PTL DEF Spec

(* Open or closed, the blocks of the index are those of its treeKeys.      *)
HeldBy(n) ==
  /\ n \in Nat \ {0} /\ db.numItems = Len(pairs)
  /\ Named(db, n) /\ Chain(db.cache, BlocksOf(db)) /\ Keyed(db)

LEMMA InvariantFacts == ASSUME IdxInv PROVE \E n : HeldBy(n)
<1>1. PICK n : IF isOpen THEN Good(db, n, pairs) ELSE Shut(db, n, pairs)
  BY DEF IdxInv
<1>2. CASE isOpen
  BY <1>1, <1>2, GoodFacts, BaseFacts DEF HeldBy, Good, Base, Listed
<1>3. CASE ~isOpen
  <2>1. Shut(db, n, pairs)
    BY <1>1, <1>3
  <2>2. n \in Nat \ {0}
    BY <2>1, Numbers DEF Shut
  <2>3. Named(db, n)
    BY <2>1, <2>2, NamedFacts DEF Shut
  <2> QED BY <2>1, <2>2, <2>3 DEF HeldBy, Shut, Listed
<1> QED BY <1>2, <1>3

LEMMA CountKept == IdxInv => NumItemsExact
BY InvariantFacts DEF HeldBy, NumItemsExact

LEMMA ShellKept == IdxInv => ShellNamesFirstKeys
<1> SUFFICES ASSUME IdxInv PROVE ShellNamesFirstKeys
  OBVIOUS
<1>1. PICK n : HeldBy(n)
  BY InvariantFacts
<1>2. /\ DOMAIN db.shell = 1..Len(db.shell) /\ Len(db.shell) \in Nat
      /\ DOMAIN BlocksOf(db) = 1..Len(db.shell) /\ Len(BlocksOf(db)) = Len(db.shell)
      /\ \A j \in 1..Len(db.shell) : BlocksOf(db)[j] = db.shell[j].item
  BY <1>1 DEF HeldBy, Named
<1> SUFFICES ASSUME NEW i \in DOMAIN db.shell
             PROVE  LET b == Logical(db.cache, db.shell[i].item)
                    IN /\ b.list # <<>> /\ b.list[1].key = db.shell[i].key
                       /\ b.prevBlock = (IF i = 1 THEN 0 ELSE db.shell[i - 1].item)
                       /\ b.nextBlock =
                            (IF i = Len(db.shell) THEN 0 ELSE db.shell[i + 1].item)
  BY DEF ShellNamesFirstKeys
<1> DEFINE b == Logical(db.cache, db.shell[i].item)
<1>3. b.list # <<>> /\ b.list[1].key = db.shell[i].key
  BY <1>1, <1>2 DEF HeldBy, Keyed, ListAt
<1>4. /\ b.prevBlock = Before(BlocksOf(db), i) /\ b.nextBlock = Behind(BlocksOf(db), i)
  BY <1>1, <1>2 DEF HeldBy, Chain
<1>5. i # 1 => i - 1 \in 1..Len(db.shell)
  BY <1>2
<1>6. i # Len(db.shell) => i + 1 \in 1..Len(db.shell)
  BY <1>2
<1>7. Before(BlocksOf(db), i) = IF i = 1 THEN 0 ELSE db.shell[i - 1].item
  BY <1>2, <1>5 DEF Before
<1>8. Behind(BlocksOf(db), i) = IF i = Len(db.shell) THEN 0 ELSE db.shell[i + 1].item
  BY <1>2, <1>6 DEF Behind
<1> QED BY <1>3, <1>4, <1>7, <1>8

LEMMA ScanKept == IdxInv => ScanIsExact
<1> SUFFICES ASSUME IdxInv, cursor > 0
             PROVE  LET next == NextIndexItem(db)
                        prev == PrevIndexItem(db)
                    IN /\ next.ret = PairAt(cursor + 1)
                       /\ CursorOf(next) = Min({cursor + 1, Len(pairs)})
                       /\ prev.ret = PairAt(cursor - 1)
                       /\ CursorOf(prev) = Max({cursor - 1, 1})
                       /\ next.ret = Zeros => next.eof
  BY DEF ScanIsExact
<1>1. isOpen
  <2>1. SUFFICES ASSUME ~isOpen PROVE FALSE
    OBVIOUS
  <2>2. PICK n : Shut(db, n, pairs)
    BY <2>1 DEF IdxInv
  <2>3. cursor = 0
    BY <2>2 DEF IdxInv, Shut, CursorOf
  <2> QED BY <2>3
<1>2. PICK n : Opened(n)
  BY <1>1, OpenedFacts
<1>3. /\ Base(db, n, pairs) /\ Full(db) /\ pairs \in Seq(KeyItem)
      /\ cursor = CursorOf(db) /\ DOMAIN pairs = 1..Len(pairs) /\ Len(pairs) \in Nat
  BY <1>2, GoodFacts DEF Opened, Comparable
<1>4. PICK j, q : At(db, j, q)
  BY <1>3, CursorType
<1>5. ~Dangling(db) /\ cursor \in 1..Len(pairs)
  BY <1>3, <1>4, AtLink, CursorAt
<1> DEFINE next == NextIndexItem(db)
           prev == PrevIndexItem(db)
           d == cursor + 1
           e == cursor - 1
           m == Len(pairs)
<1>6. Stepped(db, next, 1, n, pairs) /\ Stepped(db, prev, -1, n, pairs)
  BY <1>3, <1>5, NextFacts, PrevFacts
<1> HIDE DEF next, prev
<1>7. cursor \in Nat /\ d \in Int /\ e \in Int /\ m \in Nat /\ cursor + -1 = e
  BY <1>5, <1>3
<1>8. /\ d \in 1..m => CursorOf(next) = d /\ next.ret = pairs[d]
      /\ d \notin 1..m => CursorOf(next) = cursor /\ next.ret = Zeros /\ next.eof
  BY <1>3, <1>6 DEF Stepped
<1>9. /\ e \in 1..m => CursorOf(prev) = e /\ prev.ret = pairs[e]
      /\ e \notin 1..m => CursorOf(prev) = cursor /\ prev.ret = Zeros
  BY <1>3, <1>6, <1>7 DEF Stepped
<1>10. /\ d \in 1..m => Min({d, m}) = d
       /\ d \notin 1..m => Min({d, m}) = cursor
  <2>1. d \in 1..m => d <= m
    BY <1>7
  <2>2. d \notin 1..m => m <= d /\ m = cursor
    BY <1>5, <1>7
  <2>3. (d <= m => Min({d, m}) = d) /\ (m <= d => Min({d, m}) = m)
    <3> HIDE DEF d, m
    <3> QED BY <1>7, MinOfTwo
  <2> QED BY <2>1, <2>2, <2>3
<1>11. /\ e \in 1..m => Max({e, 1}) = e
       /\ e \notin 1..m => Max({e, 1}) = cursor
  <2> DEFINE one == 1
  <2>1. e \in 1..m => one <= e
    BY <1>7
  <2>2. e \notin 1..m => e <= one /\ one = cursor
    BY <1>5, <1>7
  <2>3. (one <= e => Max({e, one}) = e) /\ (e <= one => Max({e, one}) = one)
    <3>1. one \in Int
      OBVIOUS
    <3> HIDE DEF e, one
    <3> QED BY <1>7, <3>1, MinOfTwo
  <2> QED BY <2>1, <2>2, <2>3
<1>12. \A p \in 1..m : pairs[p] # Zeros
  BY <1>3, UsesAssumption
<1>13. next.ret = Zeros => next.eof
  BY <1>8, <1>12
<1>14. next.ret = PairAt(d) /\ prev.ret = PairAt(e)
  BY <1>3, <1>8, <1>9 DEF PairAt
<1>15. CursorOf(next) = Min({d, m}) /\ CursorOf(prev) = Max({e, 1})
  BY <1>8, <1>9, <1>10, <1>11
<1> QED BY <1>13, <1>14, <1>15 DEF next, prev

-----------------------------------------------------------------------------
(* hdr->numItems, counted up and down by addIndexItem and deleteIndexItem, *)
(* is the number of pairs in the blocks.                                   *)
THEOREM NumItemsKept == ASSUME WellUsed PROVE Spec => []NumItemsExact
BY IndexInvariant, CountKept, PTL

(* The shell of an index, kept through splits and the unlinking of blocks, *)
(* says of every block what is in it and what it is linked to.             *)
THEOREM ShellKeysKept == ASSUME WellUsed PROVE Spec => []ShellNamesFirstKeys
BY IndexInvariant, ShellKept, PTL

(* nextIndexItem and prevIndexItem go from every pair to its neighbours,   *)
(* whatever calls came before and wherever the blocks end.                 *)
THEOREM ScanKeepsExact == ASSUME WellUsed PROVE Spec => []ScanIsExact
BY IndexInvariant, ScanKept, PTL

(* index.c over its blocks, its cache and its file implements the sorted   *)
(* list its callers take it for.                                           *)
THEOREM ImplementsSortedIndex == ASSUME WellUsed PROVE Spec => IsSortedIndex
<1>1. IdxInv /\ [Next]_vars => IdxInv' /\ [Sorted!Next
      /\ UNCHANGED db.isUnique]_(Sorted!vars)
  BY IndexSteps
<1> QED BY <1>1, InitFaithful, PTL DEF Spec, IsSortedIndex, Sorted!Spec
=============================================================================
