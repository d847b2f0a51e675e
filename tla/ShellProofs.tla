----------------------------- MODULE ShellProofs -----------------------------
(***************************************************************************)
(* The theorems of ShellSort, and those of Container, where the links of   *)
(* a shell carry records.  The invariant of a shell (ShellOk) says that    *)
(* its list is in order, and that, as long as every node still points at a *)
(* link of the list, the nodes rise through it and every pointer of a      *)
(* level leads to a node behind its own.  A shell in that state is Fine.   *)
(* The searches need no more: a walk that only ever goes to a node below   *)
(* its key cannot pass the place of the key.                               *)
(***************************************************************************)
EXTENDS ShellSort, Container, ListFacts

-----------------------------------------------------------------------------
(* A sequence of links, and the order of two of its links.                 *)
Lnk         == [key : Int, id : Int] \cup [key : Int, val : Int, id : Int]
Distinct(q) == \A i, j \in DOMAIN q : q[i] = q[j] => i = j
Sorted(q)   == q \in Seq(Lnk) /\ Distinct(q) /\ Ordered(q)

Before(q, x, y) == \E i, j \in DOMAIN q : i < j /\ q[i] = x /\ q[j] = y

(* Where x is in q: Pos in the list of links, NodeAt in the nodes.         *)
Place(q, x) == SelectInSeq(q, LAMBDA m : m = x)

LEMMA PlaceFacts ==
  ASSUME NEW S, NEW q \in Seq(S), NEW x \in ToSet(q)
  PROVE  Place(q, x) \in 1..Len(q) /\ q[Place(q, x)] = x
<1> DEFINE I == {i \in 1..Len(q) : q[i] = x}
<1>1. Place(q, x) = IF I # {} THEN Min(I) ELSE 0
  BY DEF Place, SelectInSeq
<1>2. Len(q) \in Nat /\ DOMAIN q = 1..Len(q)
  BY LenProperties
<1>3. I # {} /\ I \in SUBSET Nat
  BY <1>2 DEF ToSet
<1>4. Min(I) \in I
  <2> HIDE DEF I
  <2> QED BY <1>3, MinOfSome
<1> QED BY <1>1, <1>3, <1>4

LEMMA PlaceIs ==
  ASSUME NEW S, NEW q \in Seq(S), Distinct(q), NEW i \in DOMAIN q
  PROVE  Place(q, q[i]) = i
<1>1. q[i] \in ToSet(q) /\ DOMAIN q = 1..Len(q)
  BY LenProperties DEF ToSet
<1>2. Place(q, q[i]) \in DOMAIN q /\ q[Place(q, q[i])] = q[i]
  BY <1>1, PlaceFacts
<1> QED BY <1>2 DEF Distinct

LEMMA BeforePlaces ==
  ASSUME NEW S, NEW q \in Seq(S), Distinct(q), NEW x \in ToSet(q), NEW y \in ToSet(q)
  PROVE  Before(q, x, y) <=> Place(q, x) < Place(q, y)
<1>1. DOMAIN q = 1..Len(q) /\ Len(q) \in Nat
  BY LenProperties
<1>2. /\ Place(q, x) \in DOMAIN q /\ q[Place(q, x)] = x
      /\ Place(q, y) \in DOMAIN q /\ q[Place(q, y)] = y
  BY <1>1, PlaceFacts
<1> QED BY <1>1, <1>2 DEF Before, Distinct

LEMMA BeforeOrder ==
  ASSUME NEW S, NEW q \in Seq(S), Distinct(q), NEW x, NEW y, NEW z
  PROVE  /\ Before(q, x, y) => x # y /\ x \in ToSet(q) /\ y \in ToSet(q)
         /\ Before(q, x, y) /\ Before(q, y, z) => Before(q, x, z)
<1>1. DOMAIN q = 1..Len(q) /\ Len(q) \in Nat
  BY LenProperties
<1>2. Before(q, x, y) => x # y /\ x \in ToSet(q) /\ y \in ToSet(q)
  BY <1>1 DEF Before, Distinct, ToSet
<1>3. ASSUME Before(q, x, y), Before(q, y, z) PROVE Before(q, x, z)
  <2>1. PICK i \in DOMAIN q, j \in DOMAIN q : i < j /\ q[i] = x /\ q[j] = y
    BY <1>3 DEF Before
  <2>2. PICK l \in DOMAIN q, m \in DOMAIN q : l < m /\ q[l] = y /\ q[m] = z
    BY <1>3 DEF Before
  <2>3. j = l
    BY <2>1, <2>2 DEF Distinct
  <2>4. i < m
    BY <1>1, <2>1, <2>2, <2>3
  <2> QED BY <2>1, <2>2, <2>4 DEF Before
<1> QED BY <1>2, <1>3

LEMMA BeforeKeys ==
  ASSUME NEW q, Sorted(q), NEW x \in ToSet(q), NEW y \in ToSet(q)
  PROVE  /\ x \in Lnk /\ x.key \in Int
         /\ x.key < y.key => Before(q, x, y)
         /\ Before(q, x, y) => x.key <= y.key
<1>1. DOMAIN q = 1..Len(q) /\ Len(q) \in Nat /\ \A i \in DOMAIN q : q[i] \in Lnk
  BY LenProperties DEF Sorted
<1>2. \A l \in Lnk : l.key \in Int
  BY DEF Lnk
<1>3. PICK i \in DOMAIN q : q[i] = x
  BY DEF ToSet
<1>4. PICK j \in DOMAIN q : q[j] = y
  BY DEF ToSet
<1>5. i < j \/ i = j \/ j < i
  BY <1>1
<1>6. x.key \in Int /\ y.key \in Int /\ x \in Lnk
  BY <1>1, <1>2, <1>3, <1>4
<1>7. j < i => y.key <= x.key
  BY <1>3, <1>4 DEF Sorted, Ordered
<1>8. x.key < y.key => i < j
  BY <1>3, <1>4, <1>5, <1>6, <1>7
<1>9. Before(q, x, y) => x.key <= y.key
  BY DEF Before, Sorted, Ordered
<1> QED BY <1>3, <1>4, <1>6, <1>8, <1>9 DEF Before

(* A link more, at its place by its key, and a link less.                  *)
Kept(q, t, C) == \A x, y \in C : Before(q, x, y) => Before(t, x, y)

GrownAt(S, q, i, e, t) ==
  /\ t \in Seq(S) /\ Len(t) = Len(q) + 1
  /\ \A j \in 1..Len(q) + 1 : t[j] = IF j < i THEN q[j] ELSE IF j = i THEN e ELSE q[j - 1]

LEMMA InsertGrows ==
  ASSUME NEW S, NEW q \in Seq(S), NEW i \in 1..Len(q) + 1, NEW e \in S
  PROVE  GrownAt(S, q, i, e, InsertAt(q, i, e))
BY InsertAtShape DEF GrownAt

LEMMA InsertSorts ==
  ASSUME NEW q, Sorted(q), NEW p \in 0..Len(q), NEW l \in Lnk, l \notin ToSet(q),
         \A i \in 1..p : q[i].key <= l.key,
         \A i \in p + 1..Len(q) : l.key <= q[i].key
  PROVE  LET t == InsertAt(q, p + 1, l)
         IN /\ Sorted(t) /\ ToSet(t) = ToSet(q) \cup {l} /\ Kept(q, t, ToSet(q))
            /\ Len(t) = Len(q) + 1
<1> DEFINE t == InsertAt(q, p + 1, l)
           F(j) == IF j <= p THEN j ELSE j + 1
<1>1. q \in Seq(Lnk) /\ Len(q) \in Nat /\ DOMAIN q = 1..Len(q)
  BY LenProperties DEF Sorted
<1>2. /\ t \in Seq(Lnk) /\ Len(t) = Len(q) + 1
      /\ \A j \in 1..Len(q) + 1 :
           t[j] = IF j < p + 1 THEN q[j] ELSE IF j = p + 1 THEN l ELSE q[j - 1]
  <2>1. p + 1 \in 1..Len(q) + 1
    BY <1>1
  <2>2. GrownAt(Lnk, q, p + 1, l, t)
    BY <1>1, <2>1, InsertGrows
  <2> HIDE DEF t
  <2> QED BY <2>2 DEF GrownAt
<1>3. DOMAIN t = 1..Len(q) + 1
  BY <1>2, LenProperties
<1> HIDE DEF t
<1>4. \A j \in 1..Len(q) : F(j) \in DOMAIN t /\ t[F(j)] = q[j]
  BY <1>1, <1>2, <1>3
<1>5. p + 1 \in DOMAIN t /\ t[p + 1] = l
  BY <1>1, <1>2, <1>3
<1>6. \A j \in DOMAIN t : j = p + 1 \/ \E i \in 1..Len(q) : j = F(i)
  <2>1. TAKE j \in DOMAIN t
  <2>2. j < p + 1 => j \in 1..Len(q) /\ j = F(j)
    BY <1>1, <1>3, <2>1
  <2>3. j > p + 1 => j - 1 \in 1..Len(q) /\ j = F(j - 1)
    BY <1>1, <1>3, <2>1
  <2> QED BY <1>1, <1>3, <2>2, <2>3
<1>7. \A i, j \in 1..Len(q) : (i < j <=> F(i) < F(j)) /\ F(i) # p + 1
        /\ (i <= p => F(i) < p + 1) /\ (i > p => p + 1 < F(i))
  BY <1>1
<1> HIDE DEF F
<1>8. Distinct(t)
  BY <1>1, <1>4, <1>5, <1>6 DEF Distinct, Sorted, ToSet
<1>9. Ordered(t)
  <2>1. SUFFICES ASSUME NEW i \in DOMAIN t, NEW j \in DOMAIN t, i < j
                 PROVE  t[i].key <= t[j].key
    BY DEF Ordered
  <2>2. i \in Int /\ j \in Int
    BY <1>3
  <2>3. CASE i = p + 1
    <3>1. PICK b \in 1..Len(q) : j = F(b)
      BY <1>6, <2>1, <2>2, <2>3
    <3>2. ~(b <= p)
      BY <1>7, <2>1, <2>2, <2>3, <3>1
    <3>3. b \in p + 1..Len(q)
      BY <3>2, <1>1
    <3> QED BY <1>4, <1>5, <2>3, <3>1, <3>3
  <2>4. CASE j = p + 1
    <3>1. PICK a \in 1..Len(q) : i = F(a)
      BY <1>6, <2>1, <2>2, <2>4
    <3>2. ~(a > p)
      BY <1>7, <2>1, <2>2, <2>4, <3>1
    <3>3. a \in 1..p
      BY <3>2, <1>1
    <3> QED BY <1>4, <1>5, <2>4, <3>1, <3>3
  <2>5. CASE i # p + 1 /\ j # p + 1
    <3>1. PICK a \in 1..Len(q), b \in 1..Len(q) : i = F(a) /\ j = F(b)
      BY <1>6, <2>5
    <3>2. a < b
      BY <1>7, <2>1, <3>1
    <3> QED BY <1>1, <1>4, <3>1, <3>2 DEF Sorted, Ordered
  <2> QED BY <2>3, <2>4, <2>5
<1>10. ToSet(t) = ToSet(q) \cup {l}
  BY <1>1, <1>4, <1>5, <1>6 DEF ToSet
<1>11. Kept(q, t, ToSet(q))
  BY <1>1, <1>4, <1>7 DEF Kept, Before
<1> QED BY <1>2, <1>8, <1>9, <1>10, <1>11 DEF Sorted, t

LEMMA RemoveSorts ==
  ASSUME NEW q, Sorted(q), NEW p \in 1..Len(q)
  PROVE  LET t == RemoveAt(q, p)
         IN Sorted(t) /\ ToSet(t) = ToSet(q) \ {q[p]} /\ Kept(q, t, ToSet(t))
<1> DEFINE t == RemoveAt(q, p)
           F(j) == IF j < p THEN j ELSE j + 1
           G(j) == IF j < p THEN j ELSE j - 1
<1>1. q \in Seq(Lnk) /\ Len(q) \in Nat /\ DOMAIN q = 1..Len(q)
  BY LenProperties DEF Sorted
<1>2. ShrunkAt(Lnk, q, p, t)
  BY <1>1, RemoveShrinks
<1> HIDE DEF t
<1>3. t \in Seq(Lnk) /\ DOMAIN t = 1..Len(q) - 1
  BY <1>2 DEF ShrunkAt
<1>4. \A j \in DOMAIN t : F(j) \in DOMAIN q /\ F(j) # p /\ t[j] = q[F(j)]
  BY <1>1, <1>2, <1>3 DEF ShrunkAt
<1>5. \A i \in DOMAIN q : i # p => G(i) \in DOMAIN t /\ F(G(i)) = i
  BY <1>1, <1>3
<1>6. /\ \A i, j \in DOMAIN t : (i < j => F(i) < F(j)) /\ (F(i) = F(j) => i = j)
      /\ \A i, j \in DOMAIN q : i # p /\ j # p /\ i < j => G(i) < G(j)
  BY <1>1, <1>3
<1> HIDE DEF F, G
<1>7. Distinct(t)
  BY <1>4, <1>6 DEF Distinct, Sorted
<1>8. Ordered(t)
  BY <1>4, <1>6 DEF Ordered, Sorted
<1>9. ToSet(t) = ToSet(q) \ {q[p]}
  BY <1>1, <1>4, <1>5 DEF ToSet, Distinct, Sorted
<1>10. Kept(q, t, ToSet(t))
  <2>1. SUFFICES ASSUME NEW x \in ToSet(t), NEW y \in ToSet(t), Before(q, x, y)
                 PROVE  Before(t, x, y)
    BY DEF Kept
  <2>2. PICK i \in DOMAIN q, j \in DOMAIN q : i < j /\ q[i] = x /\ q[j] = y
    BY <2>1 DEF Before
  <2>3. i # p /\ j # p
    BY <1>9, <2>1, <2>2
  <2>4. G(i) \in DOMAIN t /\ G(j) \in DOMAIN t /\ t[G(i)] = x /\ t[G(j)] = y
    BY <1>4, <1>5, <2>2, <2>3
  <2> QED BY <1>6, <2>2, <2>3, <2>4 DEF Before
<1> QED BY <1>3, <1>7, <1>8, <1>9, <1>10 DEF Sorted, t

-----------------------------------------------------------------------------
(* Recursive functions over 0..N.                                          *)
LEMMA BoundedInduction ==
  ASSUME NEW N \in Nat, NEW T, 0 \in T, \A n \in 1..N : n - 1 \in T => n \in T
  PROVE  \A n \in 0..N : n \in T
<1> DEFINE U == {n \in Nat : n <= N => n \in T}
<1>1. 0 \in U
  OBVIOUS
<1>2. ASSUME NEW n \in Nat, n \in U PROVE n + 1 \in U
  <2>1. SUFFICES ASSUME n + 1 <= N PROVE n + 1 \in T
    OBVIOUS
  <2>2. n + 1 \in 1..N /\ (n + 1) - 1 = n /\ n \in T
    BY <1>2, <2>1
  <2> QED BY <2>2
<1>3. Nat \subseteq U
  <2> HIDE DEF U
  <2> QED BY <1>1, <1>2, NumberInduction
<1>4. \A n \in 0..N : n \in Nat /\ n <= N
  OBVIOUS
<1> QED BY <1>3, <1>4

LEMMA RunsExist ==
  ASSUME NEW U, NEW b \in U, NEW N \in Nat, NEW G \in [1..N -> [U -> U]]
  PROVE  \E f : Runs(f, U, b, N, G)
<1>1. PICK h \in [SUBSET (1..N) -> U] : Folds(h, b, N, G)
  BY FoldExists
<1>2. FoldsIn(h, U, b, N, G)
  <2>1. {} \in SUBSET (1..N)
    OBVIOUS
  <2> QED BY <1>1, <2>1 DEF Folds, FoldsIn
<1>3. \E f : Runs(f, U, b, N, G) /\ f[N] = h[1..N]
  BY <1>2, FoldRuns
<1> QED BY <1>3

LEMMA StrideFacts == \A i \in 0..NODE_LEVEL : Stride[i] \in Nat \ {0}
<1> DEFINE U == Nat \ {0}
           N == NODE_LEVEL
           G == [i \in 1..N |-> [u \in U |-> RESTRUCT * u]]
           Eq(g) == g = [i \in 0..N |-> IF i = 0 THEN 1 ELSE RESTRUCT * g[i - 1]]
<1>1. N \in Nat /\ RESTRUCT \in Nat \ {0} /\ 1 \in U
  BY ShellAssumption
<1>2. \A u \in U : RESTRUCT * u \in U
  BY <1>1
<1>3. G \in [1..N -> [U -> U]]
  BY <1>2
<1>4. \A i \in 1..N, u \in U : G[i][u] = RESTRUCT * u
  OBVIOUS
<1> HIDE DEF G, U
<1>5. PICK f : Runs(f, U, 1, N, G)
  BY <1>1, <1>3, RunsExist
<1>6. Eq(f)
  <2>1. \A i \in 1..N : i - 1 \in 0..N
    BY <1>1
  <2>2. \A i \in 0..N : f[i] = IF i = 0 THEN 1 ELSE RESTRUCT * f[i - 1]
    BY <1>4, <1>5, <2>1 DEF Runs
  <2> QED BY <1>5, <2>2 DEF Runs
<1>7. Stride = CHOOSE g : Eq(g)
  BY DEF Stride
<1>8. Eq(Stride)
  <2> HIDE DEF Eq
  <2> QED BY <1>6, <1>7
<1>9. Stride[0] = 1 /\ \A i \in 1..N : Stride[i] = RESTRUCT * Stride[i - 1]
  BY <1>1, <1>8
<1> DEFINE T == {j \in Nat : Stride[j] \in U}
<1>10. 0 \in T
  BY <1>1, <1>9
<1>11. ASSUME NEW n \in 1..N, n - 1 \in T PROVE n \in T
  BY <1>1, <1>2, <1>9, <1>11
<1> HIDE DEF T, N
<1>12. \A i \in 0..N : i \in T
  BY <1>1, <1>10, <1>11, BoundedInduction
<1> QED BY <1>12 DEF U, T, N

-----------------------------------------------------------------------------
(* Nodes that rise through the list q, and levels that lead on.            *)
Rising(q, nodes) ==
  \A i, j \in DOMAIN nodes : i < j => Before(q, nodes[i], nodes[j])

LevelsLead(q, nodes, level) ==
  /\ level \in [ToSet(nodes) -> [Levels -> ToSet(nodes) \cup {TAIL}]]
  /\ \A n \in ToSet(nodes), i \in Levels : level[n][i] # TAIL => Before(q, n, level[n][i])

Leads(q, nodes, level) ==
  /\ nodes \in Seq(ToSet(q))
  /\ Rising(q, nodes)
  /\ LevelsLead(q, nodes, level)

LEMMA RisingDistinct ==
  ASSUME NEW q, Sorted(q), NEW nodes \in Seq(ToSet(q)), Rising(q, nodes)
  PROVE  /\ Distinct(nodes) /\ DOMAIN nodes = 1..Len(nodes) /\ Len(nodes) \in Nat
         /\ \A i \in DOMAIN nodes : nodes[i] \in ToSet(q) /\ nodes[i] \in ToSet(nodes)
         /\ ToSet(nodes) \subseteq ToSet(q)
<1>1. DOMAIN nodes = 1..Len(nodes) /\ Len(nodes) \in Nat
      /\ \A i \in DOMAIN nodes : nodes[i] \in ToSet(q)
  BY LenProperties
<1>2. Distinct(nodes)
  <2>1. SUFFICES ASSUME NEW i \in DOMAIN nodes, NEW j \in DOMAIN nodes, i < j
                 PROVE  nodes[i] # nodes[j]
    BY <1>1 DEF Distinct
  <2>2. Before(q, nodes[i], nodes[j])
    BY <2>1 DEF Rising
  <2> QED BY <2>2, BeforeOrder DEF Sorted
<1> QED BY <1>1, <1>2 DEF ToSet

LEMMA LeadsKept ==
  ASSUME NEW q, Sorted(q), NEW t, Sorted(t), NEW nodes, NEW level, Leads(q, nodes, level),
         ToSet(nodes) \subseteq ToSet(t), Kept(q, t, ToSet(nodes))
  PROVE  Leads(t, nodes, level)
<1>1. /\ DOMAIN nodes = 1..Len(nodes)
      /\ \A i \in DOMAIN nodes : nodes[i] \in ToSet(nodes)
      /\ Len(nodes) \in Nat
  BY RisingDistinct DEF Leads
<1>2. nodes \in Seq(ToSet(t))
  <2>1. nodes = [i \in 1..Len(nodes) |-> nodes[i]]
    BY <1>1 DEF Leads
  <2>2. \A i \in 1..Len(nodes) : nodes[i] \in ToSet(t)
    BY <1>1
  <2> QED BY <1>1, <2>1, <2>2
<1>3. Rising(t, nodes)
  BY <1>1 DEF Leads, Rising, Kept
<1>4. LevelsLead(t, nodes, level)
  BY DEF Leads, LevelsLead, Kept
<1> QED BY <1>2, <1>3, <1>4 DEF Leads

-----------------------------------------------------------------------------
(* The records, and the invariant of a shell.                              *)
Rec(s) == s = [lh |-> s.lh, nodes |-> s.nodes, level |-> s.level, node |-> s.node,
               thresh |-> s.thresh, isUnique |-> s.isUnique, error |-> s.error, ret |-> s.ret]
Lst(l) == l = [type |-> l.type, links |-> l.links, cur |-> l.cur, sorter |-> l.sorter]

(* Nothing is said of the nodes of a shell that lost the link of one.      *)
ShellOk(s) ==
  /\ Rec(s) /\ Lst(s.lh)
  /\ Sorted(Links(s))
  /\ Intact(s) => Leads(Links(s), s.nodes, s.level)
  /\ s.isUnique => Intact(s)

LEMMA LeadsIntact ==
  ASSUME NEW s, Sorted(Links(s)), Leads(Links(s), s.nodes, s.level)
  PROVE  Intact(s)
BY RisingDistinct DEF Leads, Intact

(* Every RESTRUCT-th link.                                                 *)
LEMMA EveryFacts ==
  ASSUME NEW s, Sorted(Links(s)), Len(Links(s)) >= RESTRUCT
  PROVE  NodesEvery(s) \in Seq(ToSet(Links(s))) /\ Rising(Links(s), NodesEvery(s))
<1> DEFINE q == Links(s)
           N == 1 + (Len(q) - 1) \div RESTRUCT
           At(j) == 1 + (j - 1) * RESTRUCT
<1>1. RESTRUCT \in Nat \ {0}
  BY ShellAssumption
<1>2. q \in Seq(Lnk) /\ Len(q) \in Nat /\ DOMAIN q = 1..Len(q)
  BY LenProperties DEF Sorted
<1>3. NodesEvery(s) = [j \in 1..N |-> q[At(j)]]
  BY DEF NodesEvery
<1>4. /\ (Len(q) - 1) \div RESTRUCT \in Nat
      /\ ((Len(q) - 1) \div RESTRUCT) * RESTRUCT <= Len(q) - 1
  <2>1. Len(q) - 1 \in Nat
    BY <1>1, <1>2
  <2> HIDE DEF q
  <2> QED BY <1>1, <2>1
<1>5. N \in Nat
  BY <1>4
<1> HIDE DEF q
<1>6. \A j \in 1..N : At(j) \in DOMAIN q
  <2>1. TAKE j \in 1..N
  <2> DEFINE d == (Len(q) - 1) \div RESTRUCT
  <2>2. j - 1 \in Nat /\ j - 1 <= d /\ d \in Nat
    BY <1>4, <1>5
  <2>3. d * RESTRUCT <= Len(q) - 1
    BY <1>4
  <2> HIDE DEF d
  <2>4. (j - 1) * RESTRUCT <= d * RESTRUCT /\ (j - 1) * RESTRUCT \in Nat
    BY <1>1, <2>2
  <2>5. d * RESTRUCT \in Nat
    BY <1>1, <2>2
  <2> QED BY <1>2, <2>3, <2>4, <2>5
<1>7. \A i, j \in 1..N : i < j => At(i) < At(j)
  <2>1. TAKE i, j \in 1..N
  <2>2. HAVE i < j
  <2>3. i - 1 \in Nat /\ j - 1 \in Nat /\ i - 1 < j - 1
    BY <1>5, <2>2
  <2>4. (i - 1) * RESTRUCT < (j - 1) * RESTRUCT
    BY <1>1, <2>3
  <2>5. (i - 1) * RESTRUCT \in Nat /\ (j - 1) * RESTRUCT \in Nat
    BY <1>1, <2>3
  <2> QED BY <2>4, <2>5
<1> HIDE DEF At, N
<1>8. \A j \in 1..N : q[At(j)] \in ToSet(q)
  BY <1>6 DEF ToSet
<1>9. NodesEvery(s) \in Seq(ToSet(q))
  BY <1>3, <1>5, <1>8
<1>10. Rising(q, NodesEvery(s))
  BY <1>3, <1>6, <1>7 DEF Rising, Before
<1> QED BY <1>9, <1>10 DEF q

LEMMA Restructures ==
  ASSUME NEW s, Rec(s), Sorted(Links(s))
  PROVE  LET t == restructureShellNodes(s)
         IN /\ Rec(t) /\ t.lh = s.lh /\ t.isUnique = s.isUnique
            /\ Leads(Links(t), t.nodes, t.level) /\ Intact(t)
            /\ t.thresh = s.thresh /\ t.error = s.error /\ t.ret = s.ret
<1> DEFINE t == restructureShellNodes(s)
           q == Links(s)
           nodes == t.nodes
<1>1. /\ Rec(t) /\ t.lh = s.lh /\ t.isUnique = s.isUnique
      /\ t.thresh = s.thresh /\ t.error = s.error /\ t.ret = s.ret
      /\ nodes = IF Len(q) < RESTRUCT THEN <<>> ELSE NodesEvery(s)
      /\ t.level = [l \in ToSet(nodes) |-> [i \in Levels |-> LevelOf(nodes, Place(nodes, l), i)]]
  <2> DEFINE new == IF Len(Links(s)) < RESTRUCT THEN <<>> ELSE NodesEvery(s)
             lev == [l \in ToSet(new) |-> [i \in Levels |-> LevelOf(new, Place(new, l), i)]]
             cur == IF new = <<>> THEN HEAD ELSE Last(new)
  <2>1. t = [s EXCEPT !.nodes = new, !.level = lev, !.node = cur]
    BY DEF restructureShellNodes, Place
  <2> HIDE DEF t, new, lev, cur
  <2>2. /\ Rec(t) /\ t.lh = s.lh /\ t.isUnique = s.isUnique
        /\ t.thresh = s.thresh /\ t.error = s.error /\ t.ret = s.ret
        /\ nodes = new /\ t.level = lev
    BY <2>1 DEF Rec
  <2> QED BY <2>2 DEF new, lev
<1> HIDE DEF t
<1>2. Links(t) = q
  BY <1>1 DEF Links
<1>3. q \in Seq(Lnk) /\ Len(q) \in Nat /\ RESTRUCT \in Nat \ {0}
  BY LenProperties, ShellAssumption DEF Sorted
<1>4. nodes \in Seq(ToSet(q)) /\ Rising(q, nodes)
  <2>1. CASE Len(q) < RESTRUCT
    BY <1>1, <2>1 DEF Rising
  <2>2. CASE ~(Len(q) < RESTRUCT)
    <3>1. Len(q) >= RESTRUCT
      BY <1>3, <2>2
    <3> QED BY <1>1, <2>2, <3>1, EveryFacts
  <2> QED BY <2>1, <2>2
<1> HIDE DEF nodes, q
<1>5. /\ Distinct(nodes) /\ DOMAIN nodes = 1..Len(nodes) /\ Len(nodes) \in Nat
      /\ \A i \in DOMAIN nodes : nodes[i] \in ToSet(nodes)
  BY <1>4, RisingDistinct DEF q
<1>6. LevelsLead(q, nodes, t.level)
  <2>1. ASSUME NEW n \in ToSet(nodes), NEW i \in Levels, t.level[n][i] # TAIL
        PROVE  t.level[n][i] \in ToSet(nodes) /\ Before(q, n, t.level[n][i])
    <3>1. PICK j \in DOMAIN nodes : n = nodes[j]
      BY DEF ToSet
    <3>2. Place(nodes, n) = j
      BY <1>4, <1>5, <3>1, PlaceIs
    <3>3. t.level[n][i] = LevelOf(nodes, j, i)
      BY <1>1, <3>2
    <3>4. Stride[i + 1] \in Nat \ {0}
      <4>1. i + 1 \in 0..NODE_LEVEL
        BY ShellAssumption DEF Levels
      <4> QED BY <4>1, StrideFacts
    <3>5. j + Stride[i + 1] <= Len(nodes) /\ t.level[n][i] = nodes[j + Stride[i + 1]]
      BY <2>1, <3>3 DEF LevelOf
    <3>6. j + Stride[i + 1] \in DOMAIN nodes /\ j < j + Stride[i + 1]
      BY <1>5, <3>4, <3>5
    <3> QED BY <1>4, <1>5, <3>1, <3>5, <3>6 DEF Rising
  <2>2. \A n \in ToSet(nodes), i \in Levels : t.level[n][i] \in ToSet(nodes) \cup {TAIL}
    BY <2>1
  <2>3. t.level \in [ToSet(nodes) -> [Levels -> ToSet(nodes) \cup {TAIL}]]
    BY <1>1, <2>2
  <2> QED BY <2>1, <2>3 DEF LevelsLead
<1>7. Leads(Links(t), t.nodes, t.level)
  BY <1>2, <1>4, <1>6 DEF Leads, nodes
<1>8. Intact(t)
  BY <1>2, <1>7, LeadsIntact DEF q
<1> QED BY <1>1, <1>7, <1>8 DEF t

(* A shell whose nodes are all links of its list.                          *)
Fine(s) ==
  /\ Rec(s) /\ Lst(s.lh)
  /\ Sorted(Links(s))
  /\ Leads(Links(s), s.nodes, s.level)

LEMMA FineOk ==
  ASSUME NEW s
  PROVE  /\ Fine(s) => ShellOk(s) /\ Intact(s)
         /\ ShellOk(s) /\ Intact(s) => Fine(s)
BY LeadsIntact DEF Fine, ShellOk

LEMMA FineNodes ==
  ASSUME NEW s, Fine(s)
  PROVE  /\ s.nodes \in Seq(ToSet(Links(s))) /\ Distinct(s.nodes)
         /\ DOMAIN s.nodes = 1..Len(s.nodes) /\ Len(s.nodes) \in Nat
         /\ \A i \in DOMAIN s.nodes : s.nodes[i] \in ToSet(Links(s)) /\ s.nodes[i] \in ToSet(s.nodes)
         /\ \A n \in ToSet(s.nodes) : n \in Lnk /\ n \in ToSet(Links(s)) /\ n.key \in Int
         /\ Links(s) \in Seq(Lnk) /\ Len(Links(s)) \in Nat /\ DOMAIN Links(s) = 1..Len(Links(s))
         /\ Distinct(Links(s)) /\ \A n \in ToSet(Links(s)) : n.key \in Int
<1>1. Links(s) \in Seq(Lnk) /\ Len(Links(s)) \in Nat /\ DOMAIN Links(s) = 1..Len(Links(s))
      /\ Distinct(Links(s)) /\ \A i \in DOMAIN Links(s) : Links(s)[i] \in Lnk
  BY LenProperties DEF Fine, Sorted
<1>2. /\ s.nodes \in Seq(ToSet(Links(s))) /\ Distinct(s.nodes)
      /\ DOMAIN s.nodes = 1..Len(s.nodes) /\ Len(s.nodes) \in Nat
      /\ \A i \in DOMAIN s.nodes : s.nodes[i] \in ToSet(Links(s)) /\ s.nodes[i] \in ToSet(s.nodes)
      /\ ToSet(s.nodes) \subseteq ToSet(Links(s))
  BY RisingDistinct DEF Fine, Leads
<1>3. \A n \in ToSet(Links(s)) : n \in Lnk /\ n.key \in Int
  BY <1>1 DEF ToSet, Lnk
<1> QED BY <1>1, <1>2, <1>3

LEMMA Balances ==
  ASSUME NEW s, Fine(s), NEW heavy
  PROVE  LET t == Balance(s, heavy)
         IN /\ Fine(t) /\ t.lh = s.lh /\ t.isUnique = s.isUnique
            /\ t.error = s.error /\ t.ret = s.ret
<1> DEFINE u == [s EXCEPT !.thresh = 0]
           v == [s EXCEPT !.thresh = @ + 1]
           t == Balance(s, heavy)
<1>1. /\ Rec(u) /\ u.lh = s.lh /\ u.isUnique = s.isUnique /\ u.error = s.error /\ u.ret = s.ret
      /\ u.nodes = s.nodes /\ u.level = s.level
  BY DEF Fine, Rec
<1>2. /\ Rec(v) /\ v.lh = s.lh /\ v.isUnique = s.isUnique /\ v.error = s.error /\ v.ret = s.ret
      /\ v.nodes = s.nodes /\ v.level = s.level
  BY DEF Fine, Rec
<1>3. t \in {s, restructureShellNodes(u), v}
  BY DEF Balance
<1> HIDE DEF t, u, v
<1>4. CASE t = s
  BY <1>4 DEF t
<1>5. CASE t = v
  BY <1>2, <1>5 DEF t, Fine, Links
<1>6. CASE t = restructureShellNodes(u)
  <2>1. Sorted(Links(u))
    BY <1>1 DEF Fine, Links
  <2>2. /\ Rec(t) /\ t.lh = u.lh /\ t.isUnique = u.isUnique
        /\ Leads(Links(t), t.nodes, t.level) /\ t.error = u.error /\ t.ret = u.ret
    BY <1>1, <1>6, <2>1, Restructures
  <2>3. Links(t) = Links(s) /\ t.lh = s.lh
    BY <1>1, <2>2 DEF Links
  <2> QED BY <1>1, <2>2, <2>3 DEF Fine, t
<1> QED BY <1>3, <1>4, <1>5, <1>6

(* The order of the nodes in the list is the one they have as nodes.       *)
LEMMA NodesOrder ==
  ASSUME NEW s, Fine(s), NEW x \in ToSet(s.nodes), NEW y \in ToSet(s.nodes)
  PROVE  Before(Links(s), x, y) <=> Place(s.nodes, x) < Place(s.nodes, y)
<1> DEFINE q == Links(s)
           a == Place(s.nodes, x)
           b == Place(s.nodes, y)
<1>1. /\ s.nodes \in Seq(ToSet(q)) /\ DOMAIN s.nodes = 1..Len(s.nodes)
      /\ Len(s.nodes) \in Nat /\ q \in Seq(Lnk) /\ Distinct(q)
  BY FineNodes
<1>2. a \in DOMAIN s.nodes /\ s.nodes[a] = x /\ b \in DOMAIN s.nodes /\ s.nodes[b] = y
  BY <1>1, PlaceFacts
<1>3. a < b => Before(q, x, y)
  BY <1>2 DEF Fine, Leads, Rising
<1>4. b < a => Before(q, y, x)
  BY <1>2 DEF Fine, Leads, Rising
<1>5. ~Before(q, x, x) /\ (Before(q, x, y) => ~Before(q, y, x))
  BY <1>1, BeforeOrder
<1>6. a < b \/ a = b \/ b < a
  BY <1>1, <1>2
<1> HIDE DEF a, b, q
<1>7. a = b => x = y
  BY <1>2
<1> QED BY <1>3, <1>4, <1>5, <1>6, <1>7 DEF a, b, q

-----------------------------------------------------------------------------
(* The walk along a level.                                                 *)
PathSteps(s, i, n, k, path) ==
  /\ path[0] = n
  /\ \A j \in 1..Len(s.nodes) :
       path[j] = IF Ahead(s, i, path[j - 1], k) THEN s.level[path[j - 1]][i] ELSE path[j - 1]
  /\ \A j \in 0..Len(s.nodes) : path[j] \in ToSet(s.nodes)

LEMMA AheadFacts ==
  ASSUME NEW s, Fine(s), NEW i \in Levels, NEW n \in ToSet(s.nodes), NEW k, Ahead(s, i, n, k)
  PROVE  /\ s.level[n][i] \in ToSet(s.nodes) /\ Before(Links(s), n, s.level[n][i])
         /\ k > s.level[n][i].key
BY DEF Ahead, Fine, Leads, LevelsLead

LEMMA PathRuns ==
  ASSUME NEW s, Fine(s), NEW i \in Levels, NEW n \in ToSet(s.nodes), NEW k
  PROVE  PathSteps(s, i, n, k, Path(s, i, n, k))
<1> DEFINE N == Len(s.nodes)
           U == ToSet(s.nodes)
           G == [j \in 1..N |-> [p \in U |-> IF Ahead(s, i, p, k) THEN s.level[p][i] ELSE p]]
           Eq(g) == g = [j \in 0..N |->
                          IF j = 0 THEN n
                          ELSE LET p == g[j - 1]
                               IN IF Ahead(s, i, p, k) THEN s.level[p][i] ELSE p]
           path == Path(s, i, n, k)
<1>1. N \in Nat
  BY FineNodes
<1>2. \A p \in U : (IF Ahead(s, i, p, k) THEN s.level[p][i] ELSE p) \in U
  BY AheadFacts
<1>3. G \in [1..N -> [U -> U]]
  BY <1>2
<1>4. \A j \in 1..N, p \in U : G[j][p] = IF Ahead(s, i, p, k) THEN s.level[p][i] ELSE p
  OBVIOUS
<1> HIDE DEF G
<1>5. PICK f : Runs(f, U, n, N, G)
  BY <1>1, <1>3, RunsExist
<1>6. \A j \in 1..N : j - 1 \in 0..N
  BY <1>1
<1>7. Eq(f)
  <2>1. \A j \in 1..N : f[j] = IF Ahead(s, i, f[j - 1], k) THEN s.level[f[j - 1]][i] ELSE f[j - 1]
    BY <1>4, <1>5, <1>6 DEF Runs
  <2>2. \A j \in 0..N : j # 0 => j \in 1..N
    BY <1>1
  <2> QED BY <1>5, <2>1, <2>2 DEF Runs
<1>8. path = CHOOSE g : Eq(g)
  BY DEF Path
<1>9. Eq(path)
  <2> HIDE DEF Eq
  <2> QED BY <1>7, <1>8
<1> HIDE DEF path
<1>10. path[0] = n /\ \A j \in 1..N :
         path[j] = IF Ahead(s, i, path[j - 1], k) THEN s.level[path[j - 1]][i] ELSE path[j - 1]
  <2>1. 0 \in 0..N /\ \A j \in 1..N : j \in 0..N /\ j # 0
    BY <1>1
  <2> QED BY <1>9, <2>1
<1> DEFINE T == {j \in Nat : path[j] \in U}
<1>11. 0 \in T
  BY <1>10
<1>12. ASSUME NEW j \in 1..N, j - 1 \in T PROVE j \in T
  BY <1>1, <1>2, <1>10, <1>12
<1>13. \A j \in 0..N : j \in T
  <2> HIDE DEF T
  <2> QED BY <1>1, <1>11, <1>12, BoundedInduction
<1> QED BY <1>10, <1>13 DEF PathSteps, path

(* Where the walk stops once it has no node ahead.                         *)
LEMMA PathStays ==
  ASSUME NEW s, Fine(s), NEW i \in Levels, NEW n, NEW k, NEW path, PathSteps(s, i, n, k, path),
         NEW a \in 0..Len(s.nodes), ~Ahead(s, i, path[a], k)
  PROVE  \A j \in a..Len(s.nodes) : path[j] = path[a]
<1> DEFINE N == Len(s.nodes)
           T == {j \in Nat : j >= a => path[j] = path[a]}
<1>1. N \in Nat /\ a \in Nat
  BY FineNodes
<1>2. 0 \in T
  BY <1>1
<1>3. ASSUME NEW j \in 1..N, j - 1 \in T PROVE j \in T
  <2>1. j \in Nat /\ (j >= a => j = a \/ j - 1 >= a)
    BY <1>1
  <2>2. j - 1 >= a => path[j - 1] = path[a]
    BY <1>3
  <2>3. j - 1 >= a => path[j] = path[a]
    BY <2>2 DEF PathSteps
  <2> QED BY <2>1, <2>3
<1>4. \A j \in 0..N : j \in T
  <2> HIDE DEF T
  <2> QED BY <1>1, <1>2, <1>3, BoundedInduction
<1>5. \A j \in a..N : j \in 0..N /\ j >= a
  BY <1>1
<1> QED BY <1>4, <1>5

(* As long as there is one ahead, the place of the node grows.             *)
LEMMA PathGrows ==
  ASSUME NEW s, Fine(s), NEW i \in Levels, NEW n, NEW k, NEW path, PathSteps(s, i, n, k, path),
         \A j \in 0..Len(s.nodes) : Ahead(s, i, path[j], k)
  PROVE  FALSE
<1> DEFINE N == Len(s.nodes)
           At(x) == Place(s.nodes, x)
           T == {j \in Nat : At(path[j]) > j}
<1>1. N \in Nat /\ s.nodes \in Seq(ToSet(Links(s)))
  BY FineNodes
<1>2. \A j \in 0..N : path[j] \in ToSet(s.nodes) /\ At(path[j]) \in 1..N
  BY <1>1, PlaceFacts DEF PathSteps
<1>3. ASSUME NEW j \in 1..N PROVE At(path[j - 1]) < At(path[j])
  <2>1. j - 1 \in 0..N /\ j \in 0..N
    BY <1>1
  <2>2. Before(Links(s), path[j - 1], path[j])
    BY <1>2, <2>1, AheadFacts DEF PathSteps
  <2> QED BY <1>2, <2>1, <2>2, NodesOrder
<1>4. 0 \in T
  BY <1>1, <1>2
<1>5. ASSUME NEW j \in 1..N, j - 1 \in T PROVE j \in T
  <2>1. j \in 0..N /\ j - 1 \in 0..N /\ j \in Nat /\ j - 1 \in Nat
    BY <1>1
  <2>2. At(path[j - 1]) > j - 1 /\ At(path[j - 1]) \in Int /\ At(path[j]) \in Int
    BY <1>2, <1>5, <2>1
  <2> HIDE DEF At
  <2> QED BY <1>3, <2>1, <2>2
<1>6. \A j \in 0..N : j \in T
  <2> HIDE DEF T
  <2> QED BY <1>1, <1>4, <1>5, BoundedInduction
<1>7. N \in 0..N
  BY <1>1
<1>8. At(path[N]) > N /\ At(path[N]) \in 1..N
  BY <1>2, <1>6, <1>7
<1> QED BY <1>1, <1>8

(* So many steps are enough to reach the last node.                        *)
LEMMA PathEnds ==
  ASSUME NEW s, Fine(s), NEW i \in Levels, NEW n, NEW k, NEW path, PathSteps(s, i, n, k, path)
  PROVE  ~Ahead(s, i, path[Len(s.nodes)], k)
<1> DEFINE N == Len(s.nodes)
<1>1. N \in Nat
  BY FineNodes
<1>2. PICK a \in 0..N : ~Ahead(s, i, path[a], k)
  BY PathGrows
<1>3. path[N] = path[a]
  <2>1. N \in a..N
    BY <1>1
  <2> QED BY <1>2, <2>1, PathStays
<1> QED BY <1>2, <1>3

(* What the steps pass is below the key and behind the first node, unless  *)
(* no step is made.                                                        *)
LEMMA PathPasses ==
  ASSUME NEW s, Fine(s), NEW i \in Levels, NEW n, NEW k \in Int, NEW path,
         PathSteps(s, i, n, k, path)
  PROVE  IF Ahead(s, i, n, k)
         THEN \A j \in 1..Len(s.nodes) : path[j].key < k /\ Before(Links(s), n, path[j])
         ELSE \A j \in 0..Len(s.nodes) : path[j] = n
<1> DEFINE N == Len(s.nodes)
<1>1. N \in Nat /\ Links(s) \in Seq(Lnk) /\ Distinct(Links(s))
      /\ \A m \in ToSet(s.nodes) : m.key \in Int
  BY FineNodes
<1>2. path[0] = n /\ 0 \in 0..N
  BY <1>1 DEF PathSteps
<1>3. ASSUME ~Ahead(s, i, n, k) PROVE \A j \in 0..N : path[j] = n
  BY <1>2, <1>3, PathStays
<1>4. ASSUME Ahead(s, i, n, k)
      PROVE  \A j \in 1..N : path[j].key < k /\ Before(Links(s), n, path[j])
  <2> DEFINE T == {j \in Nat : j # 0 => path[j].key < k /\ Before(Links(s), n, path[j])}
  <2>1. 0 \in T
    OBVIOUS
  <2>2. ASSUME NEW j \in 1..N, j - 1 \in T PROVE j \in T
    <3>1. j - 1 \in 0..N /\ j \in 0..N /\ j \in Nat /\ (j - 1 = 0 \/ j - 1 # 0)
      BY <1>1
    <3>2. CASE Ahead(s, i, path[j - 1], k)
      <4>1. /\ path[j] \in ToSet(s.nodes) /\ k > path[j].key
            /\ Before(Links(s), path[j - 1], path[j])
        BY <3>1, <3>2, AheadFacts DEF PathSteps
      <4>2. path[j].key < k
        BY <1>1, <4>1
      <4>3. CASE j - 1 = 0
        BY <1>2, <3>1, <4>1, <4>2, <4>3
      <4>4. CASE j - 1 # 0
        <5>1. Before(Links(s), n, path[j - 1])
          BY <2>2, <4>4
        <5>2. Before(Links(s), n, path[j])
          BY <1>1, <4>1, <5>1, BeforeOrder
        <5> QED BY <3>1, <4>2, <5>2
      <4> QED BY <4>3, <4>4
    <3>3. CASE ~Ahead(s, i, path[j - 1], k)
      <4>1. path[j] = path[j - 1] /\ j - 1 # 0
        BY <1>2, <1>4, <3>3 DEF PathSteps
      <4> QED BY <2>2, <3>1, <4>1
    <3> QED BY <3>2, <3>3
  <2>3. \A j \in 0..N : j \in T
    <3> HIDE DEF T
    <3> QED BY <1>1, <2>1, <2>2, BoundedInduction
  <2>4. \A j \in 1..N : j \in 0..N /\ j # 0
    BY <1>1
  <2> QED BY <2>3, <2>4
<1> QED BY <1>3, <1>4

(* A walk that passes more than OUTPOINT nodes makes MIDPOINT steps.       *)
LEMMA SeenBound ==
  ASSUME NEW N \in Nat, NEW f
  PROVE  Cardinality({f[j] : j \in 0..N}) \in Nat /\ Cardinality({f[j] : j \in 0..N}) <= N + 1
<1> DEFINE T == {f[j] : j \in 0..N}
           g == [m \in 1..N + 1 |-> f[m - 1]]
<1>1. N + 1 \in Nat /\ \A m \in 1..N + 1 : m - 1 \in 0..N
  OBVIOUS
<1>2. \A x \in T : \E m \in 1..N + 1 : g[m] = x
  <2>1. TAKE x \in T
  <2>2. PICK j \in 0..N : x = f[j]
    OBVIOUS
  <2>3. j + 1 \in 1..N + 1 /\ (j + 1) - 1 = j
    OBVIOUS
  <2> QED BY <2>2, <2>3
<1>3. g \in [1..N + 1 -> T]
  BY <1>1
<1> HIDE DEF T, g
<1>4. ExistsSurjection(1..N + 1, T)
  BY <1>2, <1>3 DEF ExistsSurjection, Surjection
<1>5. IsFiniteSet(T) /\ Cardinality(T) <= N + 1
  BY <1>1, <1>4, FS_NatSurjection, FS_SurjCardinalityBound
<1>6. Cardinality(T) \in Nat
  BY <1>5, FS_CardinalityType
<1> QED BY <1>5, <1>6 DEF T

LEMMA PathMiddle ==
  ASSUME NEW s, Fine(s), NEW i \in Levels, NEW n, NEW k \in Int, NEW path,
         PathSteps(s, i, n, k, path),
         Cardinality({path[j] : j \in 0..Len(s.nodes)}) > OUTPOINT
  PROVE  /\ path[MIDPOINT] \in ToSet(s.nodes) /\ path[MIDPOINT].key < k
         /\ Before(Links(s), n, path[MIDPOINT])
<1> DEFINE N == Len(s.nodes)
           C == Cardinality({path[j] : j \in 0..N})
<1>1. N \in Nat /\ MIDPOINT \in Nat \ {0} /\ OUTPOINT \in Nat /\ MIDPOINT < OUTPOINT
  BY FineNodes, ShellAssumption
<1>2. C \in Nat /\ C <= N + 1 /\ C > OUTPOINT
  BY <1>1, SeenBound
<1>3. MIDPOINT \in 1..N /\ MIDPOINT \in 0..N
  <2> HIDE DEF N, C
  <2> QED BY <1>1, <1>2
<1>4. Ahead(s, i, n, k)
  <2>1. SUFFICES ASSUME ~Ahead(s, i, n, k) PROVE FALSE
    OBVIOUS
  <2>2. \A j \in 0..N : path[j] = n
    BY <2>1, PathPasses
  <2>3. {path[j] : j \in 0..N} = {n}
    BY <1>3, <2>2
  <2>4. C = 1
    BY <2>3, FS_Singleton
  <2> QED BY <1>1, <2>4
<1> QED BY <1>3, <1>4, PathPasses DEF PathSteps

-----------------------------------------------------------------------------
(* The levels change, and nothing else.                                    *)
LevelsOnly(s, t) ==
  /\ t.lh = s.lh /\ t.nodes = s.nodes /\ t.isUnique = s.isUnique
  /\ t.node = s.node /\ t.thresh = s.thresh /\ t.error = s.error /\ t.ret = s.ret

(* A node between another one and the one that this leads to.              *)
LEMMA Splices ==
  ASSUME NEW s, Fine(s), NEW i \in Levels, NEW n \in ToSet(s.nodes), NEW m \in ToSet(s.nodes),
         Before(Links(s), n, m),
         s.level[n][i] # TAIL => Before(Links(s), m, s.level[n][i])
  PROVE  LET t == Splice(s, i, n, m)
         IN /\ Fine(t) /\ LevelsOnly(s, t)
            /\ \A x \in ToSet(s.nodes), j \in Levels : j # i => t.level[x][j] = s.level[x][j]
<1> DEFINE t == Splice(s, i, n, m)
           C == ToSet(s.nodes)
<1>1. s.level \in [C -> [Levels -> C \cup {TAIL}]]
  BY DEF Fine, Leads, LevelsLead
<1>2. n # m
  BY FineNodes, BeforeOrder
<1>3. /\ t = [s EXCEPT !.level = [[s.level EXCEPT ![m][i] = s.level[n][i]] EXCEPT ![n][i] = m]]
  BY DEF Splice, Fine, Rec
<1> DEFINE L == [[s.level EXCEPT ![m][i] = s.level[n][i]] EXCEPT ![n][i] = m]
<1>4. L \in [C -> [Levels -> C \cup {TAIL}]]
  BY <1>1
<1>5. \A x \in C, j \in Levels :
        L[x][j] = IF x = m /\ j = i THEN s.level[n][i]
                  ELSE IF x = n /\ j = i THEN m ELSE s.level[x][j]
  BY <1>1, <1>2
<1> HIDE DEF L
<1>6. Rec(t) /\ LevelsOnly(s, t) /\ t.level = L
  BY <1>3 DEF Fine, Rec, LevelsOnly, L
<1>7. Links(t) = Links(s)
  BY <1>6 DEF Links, LevelsOnly
<1> HIDE DEF t
<1>8. LevelsLead(Links(s), s.nodes, L)
  <2>1. ASSUME NEW x \in C, NEW j \in Levels, L[x][j] # TAIL
        PROVE  Before(Links(s), x, L[x][j])
    BY <1>5, <2>1 DEF Fine, Leads, LevelsLead
  <2> QED BY <1>4, <2>1 DEF LevelsLead
<1>9. Fine(t)
  BY <1>6, <1>7, <1>8 DEF Fine, Leads, LevelsOnly
<1> QED BY <1>5, <1>6, <1>9 DEF t

-----------------------------------------------------------------------------
(* The way down the levels that addShellItem takes.                        *)
DownStep(s, b, i, k) ==
  LET n == Len(s.nodes)
      path == Path(b.s, i, b.node, k)
      next == b.s.level[path[n]][i]
      far  == i < NODE_LEVEL - 1
                /\ Cardinality({path[j] : j \in 0..n}) > OUTPOINT
  IN IF b.refused THEN b
     ELSE [s |-> IF far THEN Splice(b.s, i + 1, b.node, path[MIDPOINT]) ELSE b.s,
           node |-> path[n],
           refused |-> s.isUnique /\ next # TAIL /\ next.key = k]

(* What is reached at level i, unless it is NODE_LEVEL, where the way      *)
(* begins: a node that is not the first one is below the key, and the      *)
(* node it leads to is not.                                                *)
Down(s, b, i, k) ==
  /\ b = [s |-> b.s, node |-> b.node, refused |-> b.refused]
  /\ Fine(b.s) /\ LevelsOnly(s, b.s) /\ b.refused \in BOOLEAN
  /\ b.node \in ToSet(s.nodes)
  /\ b.node = Head(s.nodes) \/ b.node.key < k
  /\ ~b.refused /\ i # NODE_LEVEL => ~Ahead(b.s, i, b.node, k)
  /\ b.refused => s.isUnique /\ \E m \in ToSet(s.nodes) : m.key = k

LEMMA DownStart ==
  ASSUME NEW s, Fine(s), s.nodes # <<>>, NEW k \in Int
  PROVE  Down(s, [s |-> s, node |-> Head(s.nodes), refused |-> FALSE], NODE_LEVEL, k)
<1>1. Head(s.nodes) = s.nodes[1] /\ 1 \in DOMAIN s.nodes
  BY FineNodes
<1>2. Head(s.nodes) \in ToSet(s.nodes)
  BY <1>1 DEF ToSet
<1> QED BY <1>2 DEF Down, LevelsOnly

LEMMA DownSteps ==
  ASSUME NEW s, Fine(s), NEW k \in Int, NEW i \in Levels, NEW b, Down(s, b, i + 1, k)
  PROVE  Down(s, DownStep(s, b, i, k), i, k)
<1> DEFINE n == Len(s.nodes)
           path == Path(b.s, i, b.node, k)
           next == b.s.level[path[n]][i]
           far  == i < NODE_LEVEL - 1
                     /\ Cardinality({path[j] : j \in 0..n}) > OUTPOINT
           t == IF far THEN Splice(b.s, i + 1, b.node, path[MIDPOINT]) ELSE b.s
           c == DownStep(s, b, i, k)
<1>1. CASE b.refused
  <2>1. c = b
    BY <1>1 DEF DownStep
  <2> QED BY <1>1, <2>1 DEF Down
<1>2. CASE ~b.refused
  <2>1. c = [s |-> t, node |-> path[n], refused |-> s.isUnique /\ next # TAIL /\ next.key = k]
    BY <1>2 DEF DownStep
  <2>2. Fine(b.s) /\ b.s.nodes = s.nodes /\ b.node \in ToSet(b.s.nodes) /\ b.s.isUnique = s.isUnique
        /\ Links(b.s) = Links(s)
    BY DEF Down, LevelsOnly, Links
  <2>3. n \in Nat /\ NODE_LEVEL \in Nat /\ i \in Int /\ (i < NODE_LEVEL - 1 => i + 1 \in Levels)
    BY FineNodes, ShellAssumption DEF Levels
  <2>4. PathSteps(b.s, i, b.node, k, path)
    BY <2>2, PathRuns
  <2> HIDE DEF path
  <2>5. path[n] \in ToSet(s.nodes) /\ (path[n] = b.node \/ path[n].key < k)
        /\ ~Ahead(b.s, i, path[n], k)
    <3>1. n \in 0..n /\ (n = 0 \/ n \in 1..n)
      BY <2>3
    <3>2. n = 0 => path[n] = b.node
      BY <2>4 DEF PathSteps
    <3>3. path[n] \in ToSet(s.nodes)
      BY <2>2, <2>4, <3>1 DEF PathSteps
    <3>4. ~Ahead(b.s, i, path[n], k)
      BY <2>2, <2>4, PathEnds
    <3>5. path[n] = b.node \/ path[n].key < k
      BY <2>2, <2>4, <3>1, <3>2, PathPasses
    <3> QED BY <3>3, <3>4, <3>5
  <2>6. Fine(t) /\ LevelsOnly(b.s, t)
        /\ \A x \in ToSet(s.nodes) : t.level[x][i] = b.s.level[x][i]
    <3>1. CASE ~far
      BY <2>2, <3>1 DEF LevelsOnly
    <3>2. CASE far
      <4> DEFINE m == path[MIDPOINT]
                 up == b.s.level[b.node][i + 1]
      <4>1. m \in ToSet(s.nodes) /\ m.key < k /\ Before(Links(s), b.node, m)
        BY <2>2, <2>4, <3>2, PathMiddle
      <4>2. i + 1 \in Levels /\ i + 1 # NODE_LEVEL /\ i + 1 # i
        BY <2>3, <3>2
      <4>3. ~Ahead(b.s, i + 1, b.node, k)
        BY <1>2, <4>2 DEF Down
      <4>4. ASSUME up # TAIL PROVE Before(Links(s), m, up)
        <5>1. up \in ToSet(s.nodes) /\ ~(k > up.key)
          BY <2>2, <4>2, <4>3, <4>4 DEF Ahead, Fine, Leads, LevelsLead
        <5>2. up \in ToSet(Links(s)) /\ m \in ToSet(Links(s)) /\ up.key \in Int /\ m.key \in Int
          BY <4>1, <5>1, FineNodes
        <5>3. m.key < up.key
          BY <4>1, <5>1, <5>2
        <5> QED BY <5>2, <5>3, BeforeKeys DEF Fine
      <4>5. t = Splice(b.s, i + 1, b.node, m)
        BY <3>2
      <4> HIDE DEF m, up, t
      <4>6. up = b.s.level[b.node][i + 1]
        BY DEF up
      <4> QED BY <2>2, <4>1, <4>2, <4>4, <4>5, <4>6, Splices
    <3> QED BY <3>1, <3>2
  <2>11. s.isUnique /\ next # TAIL /\ next.key = k => \E m \in ToSet(s.nodes) : m.key = k
    BY <2>2, <2>5 DEF Fine, Leads, LevelsLead
  <2> HIDE DEF t, c, next
  <2>7. ~Ahead(t, i, path[n], k)
    BY <2>5, <2>6 DEF Ahead
  <2>8. LevelsOnly(s, t)
    BY <2>6 DEF Down, LevelsOnly
  <2>9. c.s = t /\ c.node = path[n] /\ c.refused \in BOOLEAN
        /\ c = [s |-> c.s, node |-> c.node, refused |-> c.refused]
    BY <2>1
  <2>10. c.node = Head(s.nodes) \/ c.node.key < k
    BY <2>5, <2>9 DEF Down
  <2>12. c.refused = (s.isUnique /\ next # TAIL /\ next.key = k)
    BY <2>1
  <2> QED BY <2>5, <2>6, <2>7, <2>8, <2>9, <2>10, <2>11, <2>12 DEF Down, c
<1> QED BY <1>1, <1>2

LEMMA DescentFacts ==
  ASSUME NEW s, Fine(s), s.nodes # <<>>, NEW k \in Int
  PROVE  Down(s, AddDescent(s, k), 0, k)
<1> DEFINE N == NODE_LEVEL
           C == ToSet(s.nodes)
           LV == [C -> [Levels -> C \cup {TAIL}]]
           SS == {[s EXCEPT !.level = L] : L \in LV}
           U == [s : SS, node : C, refused : BOOLEAN]
           b0 == [s |-> s, node |-> Head(s.nodes), refused |-> FALSE]
           D(b, i) == Down(s, b, i, k)
           G == [m \in 1..N |-> [b \in U |->
                  IF D(b, N - m + 1) THEN DownStep(s, b, N - m, k) ELSE b]]
           n == Len(s.nodes)
           Eq(at) == at = [i \in 0..N |->
             IF i = N THEN b0
             ELSE LET b == at[i + 1]
                      path == Path(b.s, i, b.node, k)
                      next == b.s.level[path[n]][i]
                      far  == i < N - 1 /\ Cardinality({path[j] : j \in 0..n}) > OUTPOINT
                  IN IF b.refused THEN b
                     ELSE [s |-> IF far THEN Splice(b.s, i + 1, b.node, path[MIDPOINT]) ELSE b.s,
                           node |-> path[n],
                           refused |-> s.isUnique /\ next # TAIL /\ next.key = k]]
           c == CHOOSE at : Eq(at)
<1>1. N \in Nat \ {0} /\ Levels = 0..N - 1
  BY ShellAssumption DEF Levels
<1>2. AddDescent(s, k) = c[0]
  BY DEF AddDescent
<1>3. \A at : Eq(at) <=> at = [i \in 0..N |-> IF i = N THEN b0 ELSE DownStep(s, at[i + 1], i, k)]
  BY DEF DownStep
<1> HIDE DEF Eq
<1>4. D(b0, N)
  BY DownStart
<1>5. \A b, i : i \in Levels /\ D(b, i + 1) => D(DownStep(s, b, i, k), i)
  BY DownSteps
<1>6. \A b, i : D(b, i) => b \in U
  <2>1. SUFFICES ASSUME NEW b, NEW i, D(b, i) PROVE b \in U
    OBVIOUS
  <2>2. /\ b = [s |-> b.s, node |-> b.node, refused |-> b.refused]
        /\ Fine(b.s) /\ LevelsOnly(s, b.s) /\ b.refused \in BOOLEAN /\ b.node \in C
    BY <2>1 DEF Down
  <2>3. b.s.level \in LV
    BY <2>2 DEF Fine, Leads, LevelsLead, LevelsOnly
  <2>4. b.s = [s EXCEPT !.level = b.s.level]
    BY <2>2 DEF Fine, Rec, LevelsOnly
  <2>5. b.s \in SS
    BY <2>3, <2>4
  <2> HIDE DEF SS, C
  <2> QED BY <2>2, <2>5
<1> HIDE DEF D, U, b0
<1>7. \A m \in 1..N : N - m \in Levels /\ N - m + 1 = (N - m) + 1
  BY <1>1
<1>8. G \in [1..N -> [U -> U]]
  <2>1. ASSUME NEW m \in 1..N, NEW b \in U
        PROVE  (IF D(b, N - m + 1) THEN DownStep(s, b, N - m, k) ELSE b) \in U
    BY <1>5, <1>6, <1>7
  <2> QED BY <2>1
<1>9. \A m \in 1..N, b \in U :
        G[m][b] = IF D(b, N - m + 1) THEN DownStep(s, b, N - m, k) ELSE b
  OBVIOUS
<1> HIDE DEF G
<1>10. PICK f : Runs(f, U, b0, N, G)
  BY <1>1, <1>4, <1>6, <1>8, RunsExist
<1>11. \A m \in 0..N : D(f[m], N - m)
  <2> DEFINE T == {m \in Nat : D(f[m], N - m)}
  <2>1. 0 \in T
    BY <1>1, <1>4, <1>10 DEF Runs
  <2>2. ASSUME NEW m \in 1..N, m - 1 \in T PROVE m \in T
    <3>1. m - 1 \in 0..N /\ m \in Nat /\ N - (m - 1) = N - m + 1
      BY <1>1
    <3>2. D(f[m - 1], N - m + 1)
      BY <2>2, <3>1
    <3>3. f[m] = DownStep(s, f[m - 1], N - m, k)
      BY <1>9, <1>10, <3>1, <3>2 DEF Runs
    <3> QED BY <1>5, <1>7, <3>1, <3>2, <3>3
  <2>3. \A m \in 0..N : m \in T
    <3> HIDE DEF T
    <3> QED BY <1>1, <2>1, <2>2, BoundedInduction
  <2> QED BY <2>3
<1>12. \A m \in 1..N : f[m] = DownStep(s, f[m - 1], N - m, k)
  <2>1. TAKE m \in 1..N
  <2>2. m - 1 \in 0..N /\ N - (m - 1) = N - m + 1
    BY <1>1
  <2>3. D(f[m - 1], N - m + 1)
    BY <1>11, <2>2
  <2> QED BY <1>9, <1>10, <2>2, <2>3 DEF Runs
<1> DEFINE g == [i \in 0..N |-> f[N - i]]
<1>13. Eq(g)
  <2>1. ASSUME NEW i \in 0..N
        PROVE  f[N - i] = IF i = N THEN b0 ELSE DownStep(s, g[i + 1], i, k)
    <3>1. CASE i = N
      <4>1. N - i = 0
        BY <1>1, <3>1
      <4> QED BY <1>10, <3>1, <4>1 DEF Runs
    <3>2. CASE i # N
      <4>1. N - i \in 1..N /\ N - (N - i) = i /\ i + 1 \in 0..N /\ N - (i + 1) = (N - i) - 1
        BY <1>1, <3>2
      <4>2. g[i + 1] = f[(N - i) - 1]
        BY <4>1
      <4> HIDE DEF g
      <4>3. f[N - i] = DownStep(s, f[(N - i) - 1], i, k)
        BY <1>12, <4>1
      <4> QED BY <3>2, <4>2, <4>3
    <3> QED BY <3>1, <3>2
  <2>2. g = [i \in 0..N |-> IF i = N THEN b0 ELSE DownStep(s, g[i + 1], i, k)]
    BY <2>1
  <2> HIDE DEF g
  <2> QED BY <1>3, <2>2
<1>14. Eq(c)
  <2> HIDE DEF g
  <2> QED BY <1>13
<1> HIDE DEF c
<1>15. c[N] = b0 /\ \A i \in Levels : c[i] = DownStep(s, c[i + 1], i, k)
  <2>1. c = [i \in 0..N |-> IF i = N THEN b0 ELSE DownStep(s, c[i + 1], i, k)]
    BY <1>3, <1>14
  <2>2. N \in 0..N /\ \A i \in Levels : i \in 0..N /\ i # N
    BY <1>1
  <2> QED BY <2>1, <2>2
<1> DEFINE T == {m \in Nat : D(c[N - m], N - m)}
<1>16. 0 \in T
  BY <1>1, <1>4, <1>15
<1>17. ASSUME NEW m \in 1..N, m - 1 \in T PROVE m \in T
  <2>1. N - (m - 1) = (N - m) + 1 /\ m \in Nat
    BY <1>1
  <2>2. D(c[(N - m) + 1], (N - m) + 1)
    BY <1>17, <2>1
  <2> QED BY <1>5, <1>7, <1>15, <2>1, <2>2
<1>18. \A m \in 0..N : m \in T
  <2> HIDE DEF T
  <2> QED BY <1>1, <1>16, <1>17, BoundedInduction
<1>19. D(c[0], 0)
  <2>1. N \in 0..N /\ N - N = 0
    BY <1>1
  <2> QED BY <1>18, <2>1
<1> QED BY <1>2, <1>19 DEF D

-----------------------------------------------------------------------------
(* Nodes put between two others.                                           *)
LEMMA RisingJoins ==
  ASSUME NEW q, Sorted(q), NEW a \in Seq(ToSet(q)), NEW z \in Seq(ToSet(q)),
         Rising(q, a), Rising(q, z),
         \A x \in ToSet(a), y \in ToSet(z) : Before(q, x, y)
  PROVE  a \o z \in Seq(ToSet(q)) /\ Rising(q, a \o z) /\ ToSet(a \o z) = ToSet(a) \cup ToSet(z)
<1> DEFINE t == a \o z
<1>1. /\ Len(a) \in Nat /\ DOMAIN a = 1..Len(a) /\ Len(z) \in Nat /\ DOMAIN z = 1..Len(z)
      /\ t \in Seq(ToSet(q)) /\ Len(t) = Len(a) + Len(z) /\ DOMAIN t = 1..Len(a) + Len(z)
      /\ \A i \in 1..Len(t) : t[i] = IF i <= Len(a) THEN a[i] ELSE z[i - Len(a)]
  BY LenProperties, ConcatProperties
<1> HIDE DEF t
<1>2. \A i \in DOMAIN t : \/ i \in DOMAIN a /\ t[i] = a[i]
                          \/ i > Len(a) /\ i - Len(a) \in DOMAIN z /\ t[i] = z[i - Len(a)]
  BY <1>1
<1>3. /\ \A i \in DOMAIN a : i \in DOMAIN t /\ t[i] = a[i]
      /\ \A i \in DOMAIN z : Len(a) + i \in DOMAIN t /\ t[Len(a) + i] = z[i]
  <2>1. \A i \in DOMAIN z : Len(a) + i \in DOMAIN t /\ ~(Len(a) + i <= Len(a))
           /\ (Len(a) + i) - Len(a) = i
    BY <1>1
  <2> QED BY <1>1, <2>1
<1>4. ToSet(t) = ToSet(a) \cup ToSet(z)
  BY <1>2, <1>3 DEF ToSet
<1>5. Rising(q, t)
  <2>1. SUFFICES ASSUME NEW i \in DOMAIN t, NEW j \in DOMAIN t, i < j
                 PROVE  Before(q, t[i], t[j])
    BY DEF Rising
  <2>2. CASE i \in DOMAIN a /\ t[i] = a[i] /\ j \in DOMAIN a /\ t[j] = a[j]
    BY <2>1, <2>2 DEF Rising
  <2>3. CASE /\ i \in DOMAIN a /\ t[i] = a[i]
             /\ j > Len(a) /\ j - Len(a) \in DOMAIN z /\ t[j] = z[j - Len(a)]
    BY <2>3 DEF ToSet
  <2>4. CASE /\ i > Len(a) /\ i - Len(a) \in DOMAIN z /\ t[i] = z[i - Len(a)]
             /\ j > Len(a) /\ j - Len(a) \in DOMAIN z /\ t[j] = z[j - Len(a)]
    <3>1. i - Len(a) < j - Len(a)
      BY <1>1, <2>1
    <3> QED BY <2>4, <3>1 DEF Rising
  <2>5. CASE i > Len(a) /\ j \in DOMAIN a
    BY <1>1, <2>1, <2>5
  <2> QED BY <1>2, <2>2, <2>3, <2>4, <2>5
<1> QED BY <1>1, <1>4, <1>5 DEF t

LEMMA RisingCut ==
  ASSUME NEW q, Sorted(q), NEW nodes \in Seq(ToSet(q)), Rising(q, nodes),
         NEW b \in 1..Len(nodes) + 1
  PROVE  LET a == SubSeq(nodes, 1, b - 1)
             z == SubSeq(nodes, b, Len(nodes))
         IN /\ a \in Seq(ToSet(q)) /\ z \in Seq(ToSet(q)) /\ Rising(q, a) /\ Rising(q, z)
            /\ \A x \in ToSet(a) : b > 1 /\ (x = nodes[b - 1] \/ Before(q, x, nodes[b - 1]))
            /\ \A y \in ToSet(z) : b <= Len(nodes) /\ (y = nodes[b] \/ Before(q, nodes[b], y))
            /\ \A x \in ToSet(a), y \in ToSet(z) : Before(q, x, y)
            /\ ToSet(a) \cup ToSet(z) = ToSet(nodes)
<1> DEFINE N == Len(nodes)
           a == SubSeq(nodes, 1, b - 1)
           z == SubSeq(nodes, b, N)
<1>1. N \in Nat /\ DOMAIN nodes = 1..N
  BY LenProperties
<1>2. /\ a \in Seq(ToSet(q)) /\ z \in Seq(ToSet(q)) /\ Len(a) = b - 1 /\ Len(z) = N - b + 1
      /\ \A k \in 1..b - 1 : a[k] = nodes[k]
      /\ \A k \in 1..N - b + 1 : z[k] = nodes[b - 1 + k]
  BY CutFacts
<1>3. DOMAIN a = 1..b - 1 /\ DOMAIN z = 1..N - b + 1
  BY <1>2, LenProperties
<1> HIDE DEF a, z
<1>4. \A i \in DOMAIN a : i \in DOMAIN nodes /\ a[i] = nodes[i] /\ i < b
        /\ b - 1 \in DOMAIN nodes /\ (i = b - 1 \/ i < b - 1)
  BY <1>1, <1>2, <1>3
<1>5. \A i \in DOMAIN z : b - 1 + i \in DOMAIN nodes /\ z[i] = nodes[b - 1 + i] /\ b - 1 + i >= b
        /\ b \in DOMAIN nodes /\ (b - 1 + i = b \/ b < b - 1 + i)
  <2>1. TAKE i \in DOMAIN z
  <2>2. i \in 1..N - b + 1
    BY <1>3
  <2>3. /\ b - 1 + i \in 1..N /\ b - 1 + i >= b /\ b \in 1..N
        /\ (b - 1 + i = b \/ b < b - 1 + i)
    BY <1>1, <2>2
  <2> QED BY <1>1, <1>2, <2>2, <2>3
<1>6. \A i \in DOMAIN nodes : \/ i \in DOMAIN a /\ nodes[i] = a[i]
                              \/ i - b + 1 \in DOMAIN z /\ nodes[i] = z[i - b + 1]
  <2>1. TAKE i \in DOMAIN nodes
  <2>2. CASE i < b
    BY <1>1, <1>2, <1>3, <2>2
  <2>3. CASE ~(i < b)
    <3>1. i - b + 1 \in 1..N - b + 1 /\ b - 1 + (i - b + 1) = i
      BY <1>1, <2>3
    <3> QED BY <1>2, <1>3, <3>1
  <2> QED BY <2>2, <2>3
<1>7. Rising(q, a)
  BY <1>4 DEF Rising
<1>8. Rising(q, z)
  <2>1. \A i, j \in DOMAIN z : i < j => b - 1 + i < b - 1 + j
    BY <1>1, <1>3
  <2> QED BY <1>5, <2>1 DEF Rising
<1>9. \A x \in ToSet(a) : b > 1 /\ (x = nodes[b - 1] \/ Before(q, x, nodes[b - 1]))
  <2>1. TAKE x \in ToSet(a)
  <2>2. PICK i \in DOMAIN a : x = a[i]
    BY DEF ToSet
  <2> QED BY <1>1, <1>3, <1>4, <2>2 DEF Rising
<1>10. \A y \in ToSet(z) : b <= N /\ (y = nodes[b] \/ Before(q, nodes[b], y))
  <2>1. TAKE y \in ToSet(z)
  <2>2. PICK i \in DOMAIN z : y = z[i]
    BY DEF ToSet
  <2> QED BY <1>1, <1>3, <1>5, <2>2 DEF Rising
<1>11. \A x \in ToSet(a), y \in ToSet(z) : Before(q, x, y)
  <2>1. TAKE x \in ToSet(a), y \in ToSet(z)
  <2>2. PICK i \in DOMAIN a : x = a[i]
    BY DEF ToSet
  <2>3. PICK j \in DOMAIN z : y = z[j]
    BY DEF ToSet
  <2>4. i < b - 1 + j
    BY <1>1, <1>3, <2>2, <2>3
  <2> QED BY <1>4, <1>5, <2>2, <2>3, <2>4 DEF Rising
<1>12. ToSet(a) \cup ToSet(z) = ToSet(nodes)
  BY <1>4, <1>5, <1>6 DEF ToSet
<1> QED BY <1>2, <1>7, <1>8, <1>9, <1>10, <1>11, <1>12 DEF a, z

(* The links that get a node.                                              *)
NewAt(mids, m) == mids.start + (m - 1) * OUTPOINT + MIDPOINT

LEMMA NewNodes ==
  ASSUME NEW s, Fine(s), NEW b \in 1..Len(s.nodes) + 1, NEW mids, mids.number \in Nat,
         mids.start \in Nat,
         \A m \in 1..mids.number :
           /\ NewAt(mids, m) \in DOMAIN Links(s)
           /\ b > 1 => Before(Links(s), s.nodes[b - 1], Links(s)[NewAt(mids, m)])
           /\ b <= Len(s.nodes) => Before(Links(s), Links(s)[NewAt(mids, m)], s.nodes[b])
  PROVE  LET t == newShellNodes(s, b, mids)
         IN /\ Fine(t) /\ t.lh = s.lh /\ t.isUnique = s.isUnique
            /\ t.error = s.error /\ t.ret = s.ret
<1> DEFINE q == Links(s)
           C == ToSet(s.nodes)
           M == mids.number
           new == [m \in 1..M |-> q[NewAt(mids, m)]]
           a == SubSeq(s.nodes, 1, b - 1)
           z == SubSeq(s.nodes, b, Len(s.nodes))
           L == [l \in DOMAIN s.level \cup ToSet(new) |->
                   IF l \in ToSet(new) THEN NoLevel ELSE s.level[l]]
           t == newShellNodes(s, b, mids)
<1>1. t = IF new = <<>> THEN s
          ELSE [s EXCEPT !.nodes = (a \o new) \o z, !.level = L, !.node = Last(new)]
  <2>1. (b - 1) + 1 = b
    BY FineNodes
  <2> QED BY <2>1 DEF newShellNodes, NewAt, Fine, Rec
<1>2. CASE new = <<>>
  BY <1>1, <1>2
<1>3. CASE new # <<>>
  <2>1. /\ q \in Seq(Lnk) /\ Sorted(q) /\ Distinct(q) /\ DOMAIN q = 1..Len(q) /\ Len(q) \in Nat
        /\ s.nodes \in Seq(ToSet(q)) /\ Rising(q, s.nodes) /\ Len(s.nodes) \in Nat
    BY FineNodes DEF Fine, Leads
  <2>2. new \in Seq(ToSet(q)) /\ DOMAIN new = 1..M
    <3>1. \A m \in 1..M : q[NewAt(mids, m)] \in ToSet(q)
      BY DEF ToSet
    <3> QED BY <3>1
  <2>3. \A i, j \in 1..M : i < j => NewAt(mids, i) < NewAt(mids, j)
    <3>1. TAKE i, j \in 1..M
    <3>2. HAVE i < j
    <3>3. OUTPOINT \in Nat \ {0} /\ MIDPOINT \in Nat
      BY ShellAssumption
    <3>4. i - 1 \in Nat /\ j - 1 \in Nat /\ i - 1 < j - 1
      BY <3>2
    <3>5. (i - 1) * OUTPOINT \in Nat /\ (j - 1) * OUTPOINT \in Nat
          /\ (i - 1) * OUTPOINT < (j - 1) * OUTPOINT
      BY <3>3, <3>4
    <3> DEFINE x == (i - 1) * OUTPOINT
               y == (j - 1) * OUTPOINT
    <3>6. NewAt(mids, i) = mids.start + x + MIDPOINT /\ NewAt(mids, j) = mids.start + y + MIDPOINT
      BY DEF NewAt
    <3>7. x \in Nat /\ y \in Nat /\ x < y
      BY <3>5
    <3> HIDE DEF x, y
    <3> QED BY <3>3, <3>6, <3>7
  <2>4. Rising(q, new)
    <3>1. \A i \in 1..M : NewAt(mids, i) \in DOMAIN q /\ new[i] = q[NewAt(mids, i)]
      OBVIOUS
    <3> QED BY <2>2, <2>3, <3>1 DEF Rising, Before
  <2>5. /\ a \in Seq(ToSet(q)) /\ z \in Seq(ToSet(q)) /\ Rising(q, a) /\ Rising(q, z)
        /\ \A x \in ToSet(a) : b > 1 /\ (x = s.nodes[b - 1] \/ Before(q, x, s.nodes[b - 1]))
        /\ \A y \in ToSet(z) :
             b <= Len(s.nodes) /\ (y = s.nodes[b] \/ Before(q, s.nodes[b], y))
        /\ \A x \in ToSet(a), y \in ToSet(z) : Before(q, x, y)
        /\ ToSet(a) \cup ToSet(z) = C
    BY <2>1, RisingCut
  <2>6. \A x \in ToSet(new) : \E m \in 1..M : x = q[NewAt(mids, m)]
    BY <2>2 DEF ToSet
  <2> HIDE DEF a, z, new
  <2>7. \A x \in ToSet(a), y \in ToSet(new) : Before(q, x, y)
    <3>1. TAKE x \in ToSet(a), y \in ToSet(new)
    <3>2. Before(q, s.nodes[b - 1], y)
      BY <2>5, <2>6
    <3>3. x = s.nodes[b - 1] \/ Before(q, x, s.nodes[b - 1])
      BY <2>5
    <3> HIDE DEF q
    <3> QED BY <2>1, <3>2, <3>3, BeforeOrder
  <2>8. \A x \in ToSet(new), y \in ToSet(z) : Before(q, x, y)
    <3>1. TAKE x \in ToSet(new), y \in ToSet(z)
    <3>2. Before(q, x, s.nodes[b])
      BY <2>5, <2>6
    <3>3. y = s.nodes[b] \/ Before(q, s.nodes[b], y)
      BY <2>5
    <3> HIDE DEF q
    <3> QED BY <2>1, <3>2, <3>3, BeforeOrder
  <2> DEFINE c == a \o new
             nodes == c \o z
  <2>9. c \in Seq(ToSet(q)) /\ Rising(q, c) /\ ToSet(c) = ToSet(a) \cup ToSet(new)
    BY <2>1, <2>2, <2>4, <2>5, <2>7, RisingJoins
  <2>10. \A x \in ToSet(c), y \in ToSet(z) : Before(q, x, y)
    BY <2>5, <2>8, <2>9
  <2>11. nodes \in Seq(ToSet(q)) /\ Rising(q, nodes) /\ ToSet(nodes) = C \cup ToSet(new)
    <3>1. nodes \in Seq(ToSet(q)) /\ Rising(q, nodes) /\ ToSet(nodes) = ToSet(c) \cup ToSet(z)
      <4>1. Sorted(q) /\ z \in Seq(ToSet(q)) /\ Rising(q, z)
        BY <2>1, <2>5
      <4>2. c \in Seq(ToSet(q)) /\ Rising(q, c)
        BY <2>9
      <4> HIDE DEF c, q
      <4> QED BY <2>10, <4>1, <4>2, RisingJoins
    <3> QED BY <2>5, <2>9, <3>1
  <2>12. t = [s EXCEPT !.nodes = nodes, !.level = L, !.node = Last(new)]
    BY <1>1, <1>3
  <2> HIDE DEF c, nodes, t, C, q
  <2>13. LevelsLead(q, nodes, L)
    <3>1. s.level \in [C -> [Levels -> C \cup {TAIL}]]
          /\ \A n \in C, i \in Levels : s.level[n][i] # TAIL => Before(q, n, s.level[n][i])
      BY DEF Fine, Leads, LevelsLead, C, q
    <3> DEFINE D == C \cup ToSet(new)
    <3>2. \A l \in D : L[l] = IF l \in ToSet(new) THEN NoLevel ELSE s.level[l]
      BY <3>1
    <3>3. NoLevel \in [Levels -> D \cup {TAIL}] /\ \A i \in Levels : NoLevel[i] = TAIL
      BY DEF NoLevel
    <3>4. \A l \in C : s.level[l] \in [Levels -> D \cup {TAIL}]
      BY <3>1
    <3>5. DOMAIN s.level = C
      BY <3>1
    <3>6. L \in [D -> [Levels -> D \cup {TAIL}]]
      BY <3>3, <3>4, <3>5
    <3>7. ASSUME NEW n \in D, NEW i \in Levels, L[n][i] # TAIL PROVE Before(q, n, L[n][i])
      BY <3>1, <3>2, <3>3, <3>7
    <3> HIDE DEF L
    <3> QED BY <2>11, <3>6, <3>7 DEF LevelsLead
  <2> HIDE DEF L
  <2>14. /\ Rec(t) /\ t.lh = s.lh /\ t.isUnique = s.isUnique /\ t.error = s.error /\ t.ret = s.ret
         /\ t.nodes = nodes /\ t.level = L
    BY <2>12 DEF Fine, Rec
  <2>15. Links(t) = q
    BY <2>14 DEF Links, q
  <2>16. Fine(t)
    BY <2>1, <2>11, <2>13, <2>14, <2>15 DEF Fine, Leads
  <2> QED BY <2>14, <2>16 DEF t
<1> QED BY <1>2, <1>3

-----------------------------------------------------------------------------
(* Positions by key.                                                       *)
LEMMA AboveFacts ==
  ASSUME NEW q, Sorted(q), NEW k \in Int
  PROVE  /\ Above(q, k) \in 1..Len(q) + 1
         /\ \A i \in 1..Above(q, k) - 1 : q[i].key <= k
         /\ \A i \in Above(q, k)..Len(q) : k < q[i].key
<1> DEFINE S == {p \in DOMAIN q : k < q[p].key} \cup {Len(q) + 1}
<1>1. DOMAIN q = 1..Len(q) /\ Len(q) \in Nat /\ \A i \in DOMAIN q : q[i] \in Lnk
  BY LenProperties DEF Sorted
<1>2. \A i \in DOMAIN q : q[i].key \in Int
  BY <1>1 DEF Lnk
<1>3. S \in SUBSET Nat /\ S # {}
  BY <1>1
<1>4. Above(q, k) = Min(S)
  BY DEF Above
<1> DEFINE a == Above(q, k)
<1>5. a \in S /\ \A y \in S : a <= y
  <2> HIDE DEF S
  <2> QED BY <1>3, <1>4, MinOfSome
<1> HIDE DEF a
<1>6. a \in 1..Len(q) + 1
  BY <1>1, <1>5
<1>7. \A i \in 1..a - 1 : q[i].key <= k
  <2>1. TAKE i \in 1..a - 1
  <2>2. i \in DOMAIN q /\ ~(a <= i)
    BY <1>1, <1>6
  <2> QED BY <1>2, <1>5, <2>2
<1>8. \A i \in a..Len(q) : k < q[i].key
  <2>1. TAKE i \in a..Len(q)
  <2>2. i \in DOMAIN q /\ a \in DOMAIN q /\ (a = i \/ a < i)
    BY <1>1, <1>6
  <2>3. k < q[a].key
    BY <1>1, <1>5, <2>2
  <2>4. q[a].key <= q[i].key
    BY <1>2, <2>2 DEF Sorted, Ordered
  <2> QED BY <1>2, <2>2, <2>3, <2>4
<1> QED BY <1>6, <1>7, <1>8 DEF a

(* The first position at or behind `from' that is not below k.             *)
StopAt(q, from, k) == Min({p \in from..Len(q) : k <= q[p].key})

LEMMA StopFacts ==
  ASSUME NEW q, Sorted(q), NEW k \in Int, NEW from \in 1..Len(q), q[from].key < k,
         k <= q[Len(q)].key
  PROVE  /\ StopAt(q, from, k) \in from + 1..Len(q)
         /\ \A i \in 1..StopAt(q, from, k) - 1 : q[i].key < k
         /\ \A i \in StopAt(q, from, k)..Len(q) : k <= q[i].key
<1> DEFINE S == {p \in from..Len(q) : k <= q[p].key}
<1>1. DOMAIN q = 1..Len(q) /\ Len(q) \in Nat /\ \A i \in DOMAIN q : q[i] \in Lnk
  BY LenProperties DEF Sorted
<1>2. \A i \in DOMAIN q : q[i].key \in Int
  BY <1>1 DEF Lnk
<1>3. S \in SUBSET Nat /\ S # {}
  BY <1>1
<1> DEFINE a == StopAt(q, from, k)
<1>4. a = Min(S)
  BY DEF StopAt
<1>5. a \in S /\ \A y \in S : a <= y
  <2> HIDE DEF S, a
  <2> QED BY <1>3, <1>4, MinOfSome
<1> HIDE DEF a
<1>6. a \in from..Len(q) /\ k <= q[a].key
  BY <1>5
<1>7. a # from
  BY <1>1, <1>2, <1>6
<1>8. a \in from + 1..Len(q) /\ a \in DOMAIN q
  BY <1>1, <1>6, <1>7
<1>9. \A i \in 1..a - 1 : q[i].key < k
  <2>1. TAKE i \in 1..a - 1
  <2>2. i \in DOMAIN q /\ ~(a <= i) /\ (i \in from..Len(q) \/ i < from)
    BY <1>1, <1>8
  <2>3. CASE i \in from..Len(q)
    BY <1>2, <1>5, <2>2, <2>3
  <2>4. CASE i < from
    <3>1. q[i].key <= q[from].key
      BY <1>1, <2>2, <2>4 DEF Sorted, Ordered
    <3> QED BY <1>1, <1>2, <2>2, <3>1
  <2> QED BY <2>2, <2>3, <2>4
<1>10. \A i \in a..Len(q) : k <= q[i].key
  <2>1. TAKE i \in a..Len(q)
  <2>2. i \in DOMAIN q /\ (a = i \/ a < i)
    BY <1>1, <1>8
  <2>3. a < i => q[a].key <= q[i].key
    BY <1>8, <2>2 DEF Sorted, Ordered
  <2> QED BY <1>2, <1>6, <1>8, <2>2, <2>3
<1> QED BY <1>8, <1>9, <1>10 DEF a

-----------------------------------------------------------------------------
(* addShellItem: the link is added, or refused because another one has its *)
(* key.                                                                    *)
AddedTo(s, l, t) ==
  /\ Fine(t) /\ t.lh.type = s.lh.type /\ t.isUnique = s.isUnique
  /\ t.lh.cur \in Nat \cup {s.lh.cur}
  /\ \/ t.ret = NONE /\ t.lh = s.lh /\ t.error = "UNIQUE"
        /\ s.isUnique /\ \E m \in ToSet(Links(s)) : m.key = l.key
     \/ t.ret = OK /\ t.error = s.error /\ ToSet(Links(t)) = ToSet(Links(s)) \cup {l}
        /\ Len(Links(t)) = Len(Links(s)) + 1

LEMMA Inserts ==
  ASSUME NEW s, Fine(s), NEW l \in Lnk, l \notin ToSet(Links(s)), NEW p \in 0..Len(Links(s)),
         \A i \in 1..p : Links(s)[i].key <= l.key,
         \A i \in p + 1..Len(Links(s)) : l.key <= Links(s)[i].key, NEW n
  PROVE  AddedTo(s, l, InsertBehind(s, p, l, n))
<1> DEFINE q == Links(s)
           t == InsertBehind(s, p, l, n)
           lh == [s.lh EXCEPT !.cur = p]
           u == insertLinkHere(lh, l)
<1>1. q \in Seq(Lnk) /\ Len(q) \in Nat /\ Sorted(q) /\ p \in Int
  BY FineNodes DEF Fine
<1>2. lh.links = q /\ lh.cur = p /\ lh.type = s.lh.type /\ Lst(lh)
  BY DEF Fine, Lst, Links
<1>3. Min({p, Len(q)}) = p
  BY <1>1, MinOfTwo
<1> HIDE DEF lh
<1>4. u = [lh EXCEPT !.links = InsertAt(@, p + 1, l), !.cur = p + 1]
  BY <1>2, <1>3 DEF insertLinkHere
<1>5. u.links = InsertAt(q, p + 1, l) /\ u.type = s.lh.type /\ Lst(u) /\ u.cur \in Nat
  <2>1. p + 1 \in Nat
    BY <1>1
  <2> DEFINE x == p + 1
  <2> HIDE DEF x
  <2>2. u = [lh EXCEPT !.links = InsertAt(@, x, l), !.cur = x] /\ x \in Nat
    BY <1>4, <2>1 DEF x
  <2>3. u.links = InsertAt(q, x, l) /\ u.type = s.lh.type /\ Lst(u) /\ u.cur = x
    <3> HIDE DEF u
    <3> QED BY <1>2, <2>2 DEF Lst
  <2> QED BY <2>2, <2>3 DEF x
<1>6. t = [s EXCEPT !.lh = u, !.node = n, !.ret = OK]
  BY DEF InsertBehind, Fine, Rec, lh
<1> HIDE DEF u, t, q
<1>7. /\ Rec(t) /\ t.lh = u /\ t.nodes = s.nodes /\ t.level = s.level /\ t.ret = OK
      /\ t.error = s.error /\ t.isUnique = s.isUnique
  BY <1>6 DEF Fine, Rec
<1>8. Links(t) = InsertAt(q, p + 1, l)
  BY <1>5, <1>7 DEF Links
<1>9. Sorted(Links(t)) /\ ToSet(Links(t)) = ToSet(q) \cup {l} /\ Kept(q, Links(t), ToSet(q))
      /\ Len(Links(t)) = Len(q) + 1
  BY <1>1, <1>8, InsertSorts DEF q
<1>10. ToSet(s.nodes) \subseteq ToSet(q)
  BY FineNodes DEF q
<1>11. Leads(Links(t), s.nodes, s.level)
  <2>1. Leads(q, s.nodes, s.level)
    BY DEF Fine, q
  <2>2. Kept(q, Links(t), ToSet(s.nodes))
    BY <1>9, <1>10 DEF Kept
  <2> QED BY <1>1, <1>9, <1>10, <2>1, <2>2, LeadsKept
<1> QED BY <1>5, <1>7, <1>9, <1>11 DEF AddedTo, Fine, t, q

LEMMA Refuses ==
  ASSUME NEW s, Fine(s), NEW e
  PROVE  LET t == Refuse(s, e)
         IN /\ Fine(t) /\ t.lh = s.lh /\ t.isUnique = s.isUnique /\ t.ret = NONE /\ t.error = e
<1> DEFINE t == Refuse(s, e)
<1>1. /\ Rec(t) /\ t.lh = s.lh /\ t.isUnique = s.isUnique /\ t.ret = NONE /\ t.error = e
      /\ t.nodes = s.nodes /\ t.level = s.level
  <2>1. Rec(s) /\ t = [[s EXCEPT !.error = e] EXCEPT !.ret = NONE]
    BY DEF Refuse, Fine, Rec
  <2> HIDE DEF t
  <2> QED BY <2>1 DEF Rec
<1> HIDE DEF t
<1>2. Fine(t)
  BY <1>1 DEF Fine, Links
<1> QED BY <1>1, <1>2 DEF t

(* The same shell, but for its nodes.                                      *)
SameList(s, t) == t.lh = s.lh /\ t.isUnique = s.isUnique /\ t.error = s.error /\ t.ret = s.ret

LEMMA AddsLike ==
  ASSUME NEW s, NEW t, SameList(s, t), NEW l, NEW u, AddedTo(t, l, u)
  PROVE  AddedTo(s, l, u)
BY DEF SameList, AddedTo, Links

LEMMA RefusesEqual ==
  ASSUME NEW s, Fine(s), NEW t, Fine(t), SameList(s, t), NEW l, s.isUnique,
         NEW m \in ToSet(Links(s)), m.key = l.key
  PROVE  AddedTo(s, l, Refuse(t, "UNIQUE"))
<1> DEFINE u == Refuse(t, "UNIQUE")
<1>1. /\ Fine(u) /\ u.lh = t.lh /\ u.isUnique = t.isUnique /\ u.ret = NONE /\ u.error = "UNIQUE"
  BY Refuses
<1> HIDE DEF u
<1>2. \E x \in ToSet(Links(s)) : x.key = l.key
  OBVIOUS
<1> QED BY <1>1, <1>2 DEF SameList, AddedTo, u

LEMMA EndsFacts ==
  ASSUME NEW s, Fine(s), Links(s) # <<>>
  PROVE  LET q == Links(s)
         IN /\ Len(q) \in Nat \ {0} /\ DOMAIN q = 1..Len(q) /\ First(s) = q[1] /\ LastOf(s) = q[Len(q)]
            /\ First(s) \in ToSet(q) /\ LastOf(s) \in ToSet(q)
            /\ First(s).key \in Int /\ LastOf(s).key \in Int
            /\ \A i \in 1..Len(q) : First(s).key <= q[i].key /\ q[i].key <= LastOf(s).key
                                    /\ q[i].key \in Int /\ q[i] \in ToSet(q)
<1> DEFINE q == Links(s)
<1>1. q \in Seq(Lnk) /\ Len(q) \in Nat /\ DOMAIN q = 1..Len(q) /\ \A i \in DOMAIN q : q[i] \in Lnk
  BY LenProperties DEF Fine, Sorted
<1>2. q # <<>>
  OBVIOUS
<1>3. Len(q) # 0
  <2> HIDE DEF q
  <2> QED BY <1>1, <1>2, EmptySeq
<1>4. First(s) = q[1] /\ LastOf(s) = q[Len(q)]
  BY <1>1, <1>2, HeadTailProperties DEF First, LastOf, Last
<1>5. \A i \in DOMAIN q : q[i].key \in Int /\ q[i] \in ToSet(q)
  BY <1>1 DEF Lnk, ToSet
<1>6. 1 \in DOMAIN q /\ Len(q) \in DOMAIN q
  BY <1>1, <1>3
<1>7. \A i \in DOMAIN q : (i = 1 \/ 1 < i) /\ (i = Len(q) \/ i < Len(q))
  BY <1>1
<1>8. \A i \in DOMAIN q : q[1].key <= q[i].key /\ q[i].key <= q[Len(q)].key
  BY <1>5, <1>6, <1>7 DEF Fine, Sorted, Ordered
<1> QED BY <1>1, <1>3, <1>4, <1>5, <1>6, <1>8

LEMMA AddsFirst ==
  ASSUME NEW s, Fine(s), NEW l \in Lnk, l \notin ToSet(Links(s)), NEW n,
         Links(s) = <<>> \/ l.key < First(s).key
  PROVE  AddedTo(s, l, InsertBehind(s, 0, l, n))
<1>1. Len(Links(s)) \in Nat
  BY FineNodes
<1>2. l.key \in Int
  BY DEF Lnk
<1>3. CASE Links(s) = <<>>
  <2>1. Len(Links(s)) = 0
    BY <1>3, EmptySeq
  <2> QED BY <2>1, Inserts
<1>4. CASE Links(s) # <<>>
  <2>1. First(s).key \in Int /\ \A i \in 1..Len(Links(s)) : First(s).key <= Links(s)[i].key
                                                 /\ Links(s)[i].key \in Int
    BY <1>4, EndsFacts
  <2>2. \A i \in 0 + 1..Len(Links(s)) : l.key <= Links(s)[i].key
    BY <1>2, <1>4, <2>1
  <2>3. 0 \in 0..Len(Links(s)) /\ 1..0 = {}
    BY <1>1
  <2> QED BY <2>2, <2>3, Inserts
<1> QED BY <1>3, <1>4

(* Behind the links that are not above it.                                 *)
LEMMA AddsAbove ==
  ASSUME NEW s, Fine(s), NEW l \in Lnk, l \notin ToSet(Links(s)), NEW n
  PROVE  AddedTo(s, l, InsertBehind(s, Above(Links(s), l.key) - 1, l, n))
<1> DEFINE q == Links(s)
           p == Above(q, l.key) - 1
<1>1. Len(q) \in Nat /\ Sorted(q) /\ l.key \in Int
  BY FineNodes DEF Fine, Lnk
<1>2. /\ p + 1 \in 1..Len(q) + 1 /\ p \in 0..Len(q)
      /\ \A i \in 1..p : q[i].key <= l.key
      /\ \A i \in p + 1..Len(q) : l.key < q[i].key
  <2>1. /\ Above(q, l.key) \in 1..Len(q) + 1
        /\ \A i \in 1..Above(q, l.key) - 1 : q[i].key <= l.key
        /\ \A i \in Above(q, l.key)..Len(q) : l.key < q[i].key
    BY <1>1, AboveFacts
  <2>2. p + 1 = Above(q, l.key) /\ p \in 0..Len(q)
    BY <1>1, <2>1
  <2> QED BY <2>1, <2>2
<1>3. \A i \in p + 1..Len(q) : l.key <= q[i].key
  <2>1. TAKE i \in p + 1..Len(q)
  <2>2. i \in DOMAIN q /\ \A j \in DOMAIN q : q[j] \in Lnk
    BY <1>1, <1>2, LenProperties DEF Sorted
  <2>3. q[i].key \in Int
    BY <2>2 DEF Lnk
  <2> QED BY <1>1, <1>2, <2>3
<1> HIDE DEF p
<1>4. AddedTo(s, l, InsertBehind(s, p, l, n))
  BY <1>2, <1>3, Inserts
<1> QED BY <1>4 DEF p

LEMMA AddsWithoutNodes ==
  ASSUME NEW s, Fine(s), s.nodes = <<>>, NEW l \in Lnk, l \notin ToSet(Links(s))
  PROVE  AddedTo(s, l, AddWithoutNodes(s, l))
<1> DEFINE q == Links(s)
           k == l.key
           stop == Above(q, k)
           mids == [start |-> 0, number |-> 1]
           t == newShellNodes(s, 1, mids)
           u == AddWithoutNodes(s, l)
<1>1. CASE isEmptyList(s.lh) \/ k < First(s).key
  <2>1. u = InsertBehind(s, 0, l, s.node)
    BY <1>1 DEF AddWithoutNodes
  <2> QED BY <1>1, <2>1, AddsFirst DEF isEmptyList, Links
<1>2. CASE ~(isEmptyList(s.lh) \/ k < First(s).key)
  <2>1. q # <<>>
    BY <1>2 DEF isEmptyList, Links
  <2>2. First(s) \in ToSet(q)
    BY <2>1, EndsFacts
  <2>3. CASE k = First(s).key /\ s.isUnique
    <3>1. u = Refuse(s, "UNIQUE")
      BY <1>2, <2>3 DEF AddWithoutNodes
    <3> QED BY <2>2, <2>3, <3>1, RefusesEqual DEF SameList
  <2>4. CASE ~(k = First(s).key /\ s.isUnique) /\ (k = First(s).key \/ k >= LastOf(s).key)
    <3>1. u = InsertBehind(s, stop - 1, l, s.node)
      BY <1>2, <2>4 DEF AddWithoutNodes
    <3> QED BY <3>1, AddsAbove
  <2>5. CASE ~(k = First(s).key \/ k >= LastOf(s).key) /\ stop >= OUTPOINT
    <3>1. u = InsertBehind(t, stop - 1, l, t.node)
      BY <1>2, <2>5 DEF AddWithoutNodes
    <3>2. /\ Len(q) \in Nat /\ Sorted(q) /\ k \in Int /\ DOMAIN q = 1..Len(q)
          /\ LastOf(s) = q[Len(q)] /\ LastOf(s).key \in Int
      BY <2>1, EndsFacts DEF Fine, Lnk
    <3>3. stop \in 1..Len(q) + 1
      BY <3>2, AboveFacts
    <3>4. MIDPOINT \in DOMAIN q
      <4>1. MIDPOINT \in Nat \ {0} /\ OUTPOINT \in Nat /\ MIDPOINT < OUTPOINT
        BY ShellAssumption
      <4>2. MIDPOINT <= Len(q)
        BY <2>5, <3>2, <3>3, <4>1
      <4> QED BY <3>2, <4>1, <4>2
    <3>5. Fine(t) /\ SameList(s, t)
      <4>1. Len(s.nodes) = 0
        BY EmptySeq
      <4>2. \A m \in 1..1 : NewAt(mids, m) = MIDPOINT
        <5>1. MIDPOINT \in Nat /\ OUTPOINT \in Nat
          BY ShellAssumption
        <5> QED BY <5>1 DEF NewAt
      <4> QED BY <3>4, <4>1, <4>2, NewNodes DEF SameList
    <3> HIDE DEF t
    <3>6. Links(t) = q
      BY <3>5 DEF SameList, Links
    <3>7. AddedTo(t, l, u)
      BY <3>1, <3>5, <3>6, AddsAbove
    <3> QED BY <3>5, <3>7, AddsLike
  <2>6. CASE ~(k = First(s).key \/ k >= LastOf(s).key) /\ ~(stop >= OUTPOINT)
    <3>1. u = InsertBehind(s, stop - 1, l, s.node)
      BY <1>2, <2>6 DEF AddWithoutNodes
    <3> QED BY <3>1, AddsAbove
  <2> QED BY <2>3, <2>4, <2>5, <2>6
<1> QED BY <1>1, <1>2

-----------------------------------------------------------------------------
(* The walk from the node the levels led to.                               *)
LEMMA NodeAbove ==
  ASSUME NEW s, Fine(s), NEW a \in 1..Len(s.nodes), NEW k \in Int,
         a = 1 \/ s.nodes[a].key < k
  PROVE  LET n == Len(s.nodes)
             j == Min({i \in a..n : k <= s.nodes[i].key} \cup {n + 1})
         IN /\ j \in a..n + 1
            /\ \A i \in a..j - 1 : s.nodes[i].key < k
            /\ j <= n => k <= s.nodes[j].key
            /\ j = 1 \/ (j > a /\ s.nodes[j - 1].key < k)
<1> DEFINE n == Len(s.nodes)
           S == {i \in a..n : k <= s.nodes[i].key} \cup {n + 1}
           j == Min(S)
<1>1. n \in Nat /\ \A i \in 1..n : s.nodes[i].key \in Int
  BY FineNodes
<1>2. S \in SUBSET Nat /\ S # {}
  BY <1>1
<1>3. j \in S /\ \A y \in S : j <= y
  <2> HIDE DEF S
  <2> QED BY <1>2, MinOfSome
<1> HIDE DEF j
<1>4. j \in a..n + 1 /\ (j <= n => k <= s.nodes[j].key)
  BY <1>1, <1>3
<1>5. \A i \in a..j - 1 : s.nodes[i].key < k
  <2>1. TAKE i \in a..j - 1
  <2>2. i \in 1..n /\ i \in a..n /\ ~(j <= i)
    BY <1>1, <1>4
  <2> QED BY <1>1, <1>3, <2>2
<1>6. j = 1 \/ (j > a /\ s.nodes[j - 1].key < k)
  <2>1. CASE j = a
    <3>1. ~(s.nodes[a].key < k)
      BY <1>1, <1>4, <2>1
    <3> QED BY <2>1, <3>1
  <2>2. CASE j # a
    <3>1. j > a /\ j - 1 \in a..j - 1
      BY <1>1, <1>4, <2>2
    <3> QED BY <1>5, <3>1
  <2> QED BY <2>1, <2>2
<1> QED BY <1>4, <1>5, <1>6 DEF j

(* A link of the list where addShellItem starts to walk: the node before j *)
(* or the first link.                                                      *)
WalkFrom(s, j) == IF j = 1 THEN 1 ELSE Pos(s, s.nodes[j - 1])

LEMMA WalkFromFacts ==
  ASSUME NEW s, Fine(s), Links(s) # <<>>, NEW k \in Int, First(s).key < k, k < LastOf(s).key,
         NEW j \in 1..Len(s.nodes) + 1, j = 1 \/ s.nodes[j - 1].key < k,
         j <= Len(s.nodes) => k <= s.nodes[j].key
  PROVE  LET q == Links(s)
             start == WalkFrom(s, j)
             stop == StopAt(q, start, k)
         IN /\ start \in 1..Len(q) /\ stop \in start + 1..Len(q)
            /\ \A i \in 1..stop - 1 : q[i].key < k
            /\ \A i \in stop..Len(q) : k <= q[i].key
            /\ \A i \in start + 1..stop - 1 :
                 /\ i \in DOMAIN q
                 /\ j > 1 => Before(q, s.nodes[j - 1], q[i])
                 /\ j <= Len(s.nodes) => Before(q, q[i], s.nodes[j])
<1> DEFINE q == Links(s)
           start == WalkFrom(s, j)
           stop == StopAt(q, start, k)
<1>1. /\ Len(q) \in Nat \ {0} /\ DOMAIN q = 1..Len(q) /\ First(s) = q[1] /\ LastOf(s) = q[Len(q)]
      /\ \A i \in 1..Len(q) : q[i].key \in Int /\ q[i] \in ToSet(q)
      /\ q \in Seq(Lnk) /\ Sorted(q) /\ Len(s.nodes) \in Nat
  BY EndsFacts, FineNodes DEF Fine
<1>2. start \in 1..Len(q) /\ q[start].key < k /\ (j > 1 => q[start] = s.nodes[j - 1])
  <2>1. CASE j = 1
    BY <1>1, <2>1 DEF WalkFrom
  <2>2. CASE j # 1
    <3>1. j - 1 \in DOMAIN s.nodes
      BY <2>2, FineNodes
    <3>2. s.nodes[j - 1] \in ToSet(q)
      BY <3>1, FineNodes
    <3>3. start = Place(q, s.nodes[j - 1])
      BY <2>2 DEF WalkFrom, Pos, Place
    <3>4. start \in 1..Len(q) /\ q[start] = s.nodes[j - 1]
      BY <1>1, <3>2, <3>3, PlaceFacts
    <3> QED BY <2>2, <3>4
  <2> QED BY <2>1, <2>2
<1> HIDE DEF start
<1>3. k <= q[Len(q)].key
  BY <1>1
<1>4. /\ stop \in start + 1..Len(q)
      /\ \A i \in 1..stop - 1 : q[i].key < k
      /\ \A i \in stop..Len(q) : k <= q[i].key
  BY <1>1, <1>2, <1>3, StopFacts
<1> HIDE DEF stop
<1>5. ASSUME NEW i \in start + 1..stop - 1
      PROVE  /\ i \in DOMAIN q
             /\ j > 1 => Before(q, s.nodes[j - 1], q[i])
             /\ j <= Len(s.nodes) => Before(q, q[i], s.nodes[j])
  <2>1. i \in 1..stop - 1 /\ i \in DOMAIN q /\ start \in DOMAIN q /\ start < i
    BY <1>1, <1>2, <1>4
  <2>2. j > 1 => Before(q, s.nodes[j - 1], q[i])
    BY <1>2, <2>1 DEF Before
  <2>3. ASSUME j <= Len(s.nodes) PROVE Before(q, q[i], s.nodes[j])
    <3>1. j \in DOMAIN s.nodes
      BY <2>3, FineNodes
    <3>2. s.nodes[j] \in ToSet(q) /\ s.nodes[j].key \in Int
      BY <3>1, FineNodes
    <3>3. q[i].key < s.nodes[j].key /\ q[i] \in ToSet(q)
      BY <1>1, <1>4, <2>1, <2>3, <3>2
    <3> HIDE DEF q
    <3> QED BY <1>1, <3>2, <3>3, BeforeKeys
  <2> QED BY <2>1, <2>2, <2>3
<1> QED BY <1>2, <1>4, <1>5 DEF start, stop

(* OUTPOINT divides what is between.                                       *)
LEMMA MidsBetween ==
  ASSUME NEW start \in Nat, NEW stop \in Nat, start < stop,
         NEW m \in 1..(stop - start) \div OUTPOINT
  PROVE  start + (m - 1) * OUTPOINT + MIDPOINT \in start + 1..stop - 1
<1> DEFINE d == stop - start
           c == d \div OUTPOINT
<1>1. OUTPOINT \in Nat \ {0} /\ MIDPOINT \in Nat \ {0} /\ MIDPOINT < OUTPOINT
  BY ShellAssumption
<1>2. d \in Nat
  OBVIOUS
<1> HIDE DEF d
<1>3. c \in Nat /\ c * OUTPOINT <= d
  BY <1>1, <1>2
<1> HIDE DEF c
<1>4. m \in 1..c
  BY DEF c, d
<1>5. m \in Nat \ {0} /\ m <= c
  BY <1>3, <1>4
<1>6. m * OUTPOINT <= c * OUTPOINT /\ m * OUTPOINT \in Nat /\ c * OUTPOINT \in Nat
  BY <1>1, <1>3, <1>5
<1>7. (m - 1) * OUTPOINT = m * OUTPOINT - OUTPOINT
  BY <1>1, <1>5
<1>8. (m - 1) * OUTPOINT \in Nat
  BY <1>1, <1>5
<1> DEFINE x == (m - 1) * OUTPOINT
<1>9. x \in Nat /\ x + OUTPOINT <= d
  <2> DEFINE y == m * OUTPOINT
             z == c * OUTPOINT
  <2>1. x = y - OUTPOINT /\ y <= z /\ z <= d /\ y \in Nat /\ z \in Nat /\ x \in Nat
    BY <1>3, <1>6, <1>7, <1>8
  <2> HIDE DEF x, y, z
  <2> QED BY <1>1, <1>2, <2>1
<1> HIDE DEF x
<1>10. start + x + MIDPOINT \in start + 1..stop - 1
  BY <1>1, <1>9 DEF d
<1> QED BY <1>10 DEF x

LEMMA AddsBelow ==
  ASSUME NEW s, Fine(s), Links(s) # <<>>, NEW l \in Lnk, l \notin ToSet(Links(s)),
         First(s).key < l.key, l.key < LastOf(s).key,
         NEW from \in ToSet(s.nodes), from = Head(s.nodes) \/ from.key < l.key,
         ~Ahead(s, 0, from, l.key)
  PROVE  AddedTo(s, l, AddBelow(s, from, l))
<1> DEFINE q == Links(s)
           k == l.key
           n == Len(s.nodes)
           a == NodeAt(s, from)
           j == Min({i \in a..n : k <= s.nodes[i].key} \cup {n + 1})
           t == IF j - a >= OUTPOINT THEN Splice(s, 0, from, s.nodes[a + MIDPOINT]) ELSE s
           start == WalkFrom(s, j)
           stop == StopAt(q, start, k)
           mids == [start |-> start, number |-> (stop - start) \div OUTPOINT]
           u == newShellNodes(t, j, mids)
           last == IF stop - start >= OUTPOINT THEN u.node
                   ELSE IF j = 1 THEN HEAD ELSE s.nodes[j - 1]
           v == AddBelow(s, from, l)
<1>1. v = IF s.isUnique /\ j <= n /\ s.nodes[j].key = k THEN Refuse(t, "UNIQUE")
          ELSE IF s.isUnique /\ q[stop].key = k THEN Refuse(u, "UNIQUE")
          ELSE InsertBehind(u, stop - 1, l, last)
  BY DEF AddBelow, WalkFrom, StopAt
<1>2. /\ n \in Nat /\ DOMAIN s.nodes = 1..n /\ s.nodes \in Seq(ToSet(q)) /\ Distinct(s.nodes)
      /\ \A i \in DOMAIN s.nodes : s.nodes[i] \in ToSet(q) /\ s.nodes[i] \in ToSet(s.nodes)
      /\ k \in Int /\ Sorted(q) /\ from.key \in Int /\ Len(q) \in Nat
  BY FineNodes DEF Lnk, Fine
<1>3. a \in 1..n /\ s.nodes[a] = from /\ (a = 1 \/ from.key < k)
  <2>1. a = Place(s.nodes, from)
    BY DEF NodeAt, Place
  <2>2. a \in 1..n /\ s.nodes[a] = from
    BY <1>2, <2>1, PlaceFacts
  <2>3. from = Head(s.nodes) => a = 1
    <3>1. Head(s.nodes) = s.nodes[1] /\ 1 \in DOMAIN s.nodes
      BY <1>2, <2>2
    <3> QED BY <1>2, <2>1, <3>1, PlaceIs
  <2> QED BY <2>2, <2>3
<1> HIDE DEF a
<1>4. /\ j \in a..n + 1 /\ \A i \in a..j - 1 : s.nodes[i].key < k
      /\ j <= n => k <= s.nodes[j].key
      /\ j = 1 \/ (j > a /\ s.nodes[j - 1].key < k)
  BY <1>2, <1>3, NodeAbove
<1> HIDE DEF j
<1>5. j \in 1..n + 1
  BY <1>2, <1>3, <1>4
<1>6. Fine(t) /\ SameList(s, t) /\ t.nodes = s.nodes
  <2>1. CASE ~(j - a >= OUTPOINT)
    BY <2>1 DEF SameList
  <2>2. CASE j - a >= OUTPOINT
    <3> DEFINE b == a + MIDPOINT
               m == s.nodes[b]
               up == s.level[from][0]
    <3>1. MIDPOINT \in Nat \ {0} /\ OUTPOINT \in Nat /\ MIDPOINT < OUTPOINT
      BY ShellAssumption
    <3>2. b \in a..j - 1 /\ b \in DOMAIN s.nodes /\ a < b /\ a \in DOMAIN s.nodes
      BY <1>2, <1>3, <1>4, <2>2, <3>1
    <3>3. m.key < k /\ m \in ToSet(s.nodes) /\ m \in ToSet(q) /\ m.key \in Int
      BY <1>2, <1>4, <3>2, FineNodes
    <3>4. Before(q, from, m)
      BY <1>3, <3>2 DEF Fine, Leads, Rising
    <3>5. 0 \in Levels
      BY ShellAssumption DEF Levels
    <3>6. ASSUME up # TAIL PROVE Before(q, m, up)
      <4>1. up \in ToSet(s.nodes) /\ ~(k > up.key)
        BY <3>5, <3>6 DEF Ahead, Fine, Leads, LevelsLead
      <4>2. up \in ToSet(q) /\ up.key \in Int
        BY <4>1, FineNodes
      <4>3. m.key < up.key
        BY <1>2, <3>3, <4>1, <4>2
      <4> HIDE DEF m, up, q
      <4> QED BY <1>2, <3>3, <4>2, <4>3, BeforeKeys
    <3>7. t = Splice(s, 0, from, m)
      BY <2>2
    <3>8. up = s.level[from][0]
      OBVIOUS
    <3> HIDE DEF m, up, t
    <3>9. Fine(t) /\ LevelsOnly(s, t)
      BY <3>3, <3>4, <3>5, <3>6, <3>7, <3>8, Splices
    <3> QED BY <3>9 DEF LevelsOnly, SameList
  <2> QED BY <2>1, <2>2
<1> HIDE DEF t
<1>7. Links(t) = q
  BY <1>6 DEF SameList, Links
<1>8. /\ start \in 1..Len(q) /\ stop \in start + 1..Len(q)
      /\ \A i \in 1..stop - 1 : q[i].key < k
      /\ \A i \in stop..Len(q) : k <= q[i].key
      /\ \A i \in start + 1..stop - 1 :
           /\ i \in DOMAIN q
           /\ j > 1 => Before(q, s.nodes[j - 1], q[i])
           /\ j <= n => Before(q, q[i], s.nodes[j])
  <2>1. j = 1 \/ s.nodes[j - 1].key < k
    BY <1>4
  <2> QED BY <1>2, <1>4, <1>5, <2>1, WalkFromFacts
<1> HIDE DEF start, stop
<1>9. start \in Nat /\ stop \in Nat /\ start < stop /\ stop - 1 \in 0..Len(q)
      /\ stop \in 1..Len(q)
  BY <1>2, <1>8
<1>10. Fine(u) /\ SameList(t, u)
  <2>1. mids.number \in Nat
    <3>1. stop - start \in Nat /\ OUTPOINT \in Nat \ {0}
      BY <1>9, ShellAssumption
    <3> QED BY <3>1
  <2>2. ASSUME NEW m \in 1..mids.number
        PROVE  /\ NewAt(mids, m) \in DOMAIN q
               /\ j > 1 => Before(q, s.nodes[j - 1], q[NewAt(mids, m)])
               /\ j <= n => Before(q, q[NewAt(mids, m)], s.nodes[j])
    <3>1. NewAt(mids, m) \in start + 1..stop - 1
      BY <1>9, MidsBetween DEF NewAt
    <3> QED BY <1>8, <3>1
  <2>3. mids.start \in Nat
    BY <1>9
  <2> HIDE DEF mids, q, n
  <2>4. j \in 1..Len(t.nodes) + 1
    BY <1>5, <1>6 DEF n
  <2>5. \A m \in 1..mids.number :
          /\ NewAt(mids, m) \in DOMAIN Links(t)
          /\ j > 1 => Before(Links(t), t.nodes[j - 1], Links(t)[NewAt(mids, m)])
          /\ j <= Len(t.nodes) => Before(Links(t), Links(t)[NewAt(mids, m)], t.nodes[j])
    BY <1>6, <1>7, <2>2 DEF n
  <2> QED BY <1>6, <2>1, <2>3, <2>4, <2>5, NewNodes DEF SameList
<1> HIDE DEF u
<1>11. SameList(s, u) /\ Links(u) = q
  BY <1>6, <1>7, <1>10 DEF SameList, Links
<1>12. CASE s.isUnique /\ j <= n /\ s.nodes[j].key = k
  <2>1. v = Refuse(t, "UNIQUE")
    BY <1>1, <1>12
  <2>2. s.nodes[j] \in ToSet(q)
    BY <1>2, <1>5, <1>12
  <2> QED BY <1>6, <1>12, <2>1, <2>2, RefusesEqual
<1>13. CASE ~(s.isUnique /\ j <= n /\ s.nodes[j].key = k) /\ s.isUnique /\ q[stop].key = k
  <2>1. v = Refuse(u, "UNIQUE")
    BY <1>1, <1>13
  <2>2. q[stop] \in ToSet(q)
    BY <1>9, LenProperties DEF ToSet, Sorted, Fine
  <2> QED BY <1>10, <1>11, <1>13, <2>1, <2>2, RefusesEqual
<1>14. CASE /\ ~(s.isUnique /\ j <= n /\ s.nodes[j].key = k)
            /\ ~(s.isUnique /\ q[stop].key = k)
  <2>1. v = InsertBehind(u, stop - 1, l, last)
    BY <1>1, <1>14
  <2> DEFINE p == stop - 1
  <2>2. p \in 0..Len(q) /\ p + 1 = stop
    BY <1>9
  <2>3. \A i \in 1..p : q[i].key <= k
    <3>1. \A i \in 1..p : i \in 1..Len(q)
      BY <1>9
    <3>2. \A i \in 1..Len(q) : q[i].key \in Int
      BY EndsFacts
    <3>3. \A i \in 1..p : q[i].key < k
      BY <1>8
    <3> QED BY <1>2, <3>1, <3>2, <3>3
  <2>4. \A i \in p + 1..Len(q) : k <= q[i].key
    BY <1>8, <2>2
  <2> HIDE DEF p, q
  <2>5. AddedTo(u, l, InsertBehind(u, p, l, last))
    BY <1>10, <1>11, <2>2, <2>3, <2>4, Inserts DEF q
  <2>6. AddedTo(u, l, v)
    BY <2>1, <2>5 DEF p
  <2> QED BY <1>11, <2>6, AddsLike
<1> QED BY <1>12, <1>13, <1>14

LEMMA AddsWithNodes ==
  ASSUME NEW s, Fine(s), s.nodes # <<>>, NEW l \in Lnk, l \notin ToSet(Links(s))
  PROVE  AddedTo(s, l, AddWithNodes(s, l))
<1> DEFINE q == Links(s)
           k == l.key
           d == AddDescent(s, k)
           t == AddWithNodes(s, l)
<1>1. q # <<>>
  <2>1. s.nodes[1] \in ToSet(q)
    <3>1. 1 \in DOMAIN s.nodes
      BY FineNodes, EmptySeq
    <3> QED BY <3>1, FineNodes
  <2> QED BY <2>1 DEF ToSet
<1>2. /\ Len(q) \in Nat \ {0} /\ First(s) = q[1] /\ LastOf(s) = q[Len(q)]
      /\ First(s) \in ToSet(q) /\ LastOf(s) \in ToSet(q)
      /\ First(s).key \in Int /\ LastOf(s).key \in Int /\ k \in Int
      /\ \A i \in 1..Len(q) : First(s).key <= q[i].key /\ q[i].key <= LastOf(s).key
                              /\ q[i].key \in Int
  BY <1>1, EndsFacts DEF Lnk
<1>3. CASE k < First(s).key
  <2>1. t = InsertBehind(s, 0, l, Head(s.nodes))
    BY <1>3 DEF AddWithNodes
  <2> QED BY <1>3, <2>1, AddsFirst
<1>4. CASE ~(k < First(s).key) /\ s.isUnique /\ k \in {First(s).key, LastOf(s).key}
  <2>1. t = Refuse(s, "UNIQUE")
    BY <1>4 DEF AddWithNodes
  <2> QED BY <1>2, <1>4, <2>1, RefusesEqual DEF SameList
<1>5. CASE /\ ~(k < First(s).key) /\ ~(s.isUnique /\ k \in {First(s).key, LastOf(s).key})
           /\ k = First(s).key
  <2>1. t = InsertBehind(s, 1, l, Head(s.nodes))
    BY <1>5 DEF AddWithNodes
  <2>2. 1 \in 0..Len(q) /\ (\A i \in 1..1 : q[i].key <= k)
    BY <1>2, <1>5
  <2>3. \A i \in 1 + 1..Len(q) : k <= q[i].key
    BY <1>2, <1>5
  <2> QED BY <2>1, <2>2, <2>3, Inserts
<1>6. CASE /\ ~(k < First(s).key) /\ ~(s.isUnique /\ k \in {First(s).key, LastOf(s).key})
           /\ k # First(s).key /\ k >= LastOf(s).key
  <2>1. t = InsertBehind(s, Len(q), l, Last(s.nodes))
    BY <1>6 DEF AddWithNodes
  <2>2. Len(q) \in 0..Len(q) /\ Len(q) + 1..Len(q) = {}
    BY <1>2
  <2>3. \A i \in 1..Len(q) : q[i].key <= k
    BY <1>2, <1>6
  <2> QED BY <2>1, <2>2, <2>3, Inserts
<1>7. CASE /\ ~(k < First(s).key) /\ ~(s.isUnique /\ k \in {First(s).key, LastOf(s).key})
           /\ k # First(s).key /\ ~(k >= LastOf(s).key)
  <2>1. t = IF d.refused THEN Refuse(d.s, "UNIQUE") ELSE AddBelow(d.s, d.node, l)
    BY <1>7 DEF AddWithNodes
  <2>2. Down(s, d, 0, k)
    BY <1>2, DescentFacts
  <2> HIDE DEF d
  <2>3. Fine(d.s) /\ SameList(s, d.s) /\ d.s.nodes = s.nodes
    BY <2>2 DEF Down, LevelsOnly, SameList
  <2>4. Links(d.s) = q
    BY <2>3 DEF SameList, Links
  <2>5. CASE ~d.refused
    <3>1. ~Ahead(d.s, 0, d.node, k)
      <4>1. 0 # NODE_LEVEL
        BY ShellAssumption
      <4> QED BY <2>2, <2>5, <4>1 DEF Down
    <3>2. d.node \in ToSet(d.s.nodes) /\ (d.node = Head(d.s.nodes) \/ d.node.key < k)
      BY <2>2, <2>3 DEF Down
    <3>3. First(d.s).key < k /\ k < LastOf(d.s).key
      BY <1>2, <1>7, <2>4 DEF First, LastOf
    <3>4. AddedTo(d.s, l, AddBelow(d.s, d.node, l))
      BY <1>1, <2>3, <2>4, <3>1, <3>2, <3>3, AddsBelow
    <3> QED BY <2>1, <2>3, <2>5, <3>4, AddsLike
  <2>6. CASE d.refused
    <3>1. s.isUnique /\ \E m \in ToSet(q) : m.key = k
      BY <2>2, <2>6, FineNodes DEF Down
    <3> QED BY <2>1, <2>3, <2>6, <3>1, RefusesEqual
  <2> QED BY <2>5, <2>6
<1> QED BY <1>3, <1>4, <1>5, <1>6, <1>7

LEMMA Adds ==
  ASSUME NEW s, Fine(s), NEW l \in Lnk, l \notin ToSet(Links(s)), NEW heavy
  PROVE  AddedTo(s, l, addShellItem(s, l, heavy))
<1> DEFINE t == Balance(s, heavy)
<1>1. Fine(t) /\ SameList(s, t)
  BY Balances DEF SameList
<1>2. addShellItem(s, l, heavy) = IF t.nodes = <<>> THEN AddWithoutNodes(t, l) ELSE AddWithNodes(t, l)
  BY DEF addShellItem
<1> HIDE DEF t
<1>3. l \notin ToSet(Links(t))
  BY <1>1 DEF SameList, Links
<1>4. AddedTo(t, l, addShellItem(s, l, heavy))
  BY <1>1, <1>2, <1>3, AddsWithoutNodes, AddsWithNodes
<1> QED BY <1>1, <1>4, AddsLike

-----------------------------------------------------------------------------
(* A call that only looks.                                                 *)
Looks(s, t) ==
  /\ Rec(t) /\ Lst(t.lh)
  /\ t.lh.links = s.lh.links /\ t.lh.type = s.lh.type
  /\ t.nodes = s.nodes /\ t.level = s.level /\ t.isUnique = s.isUnique

LEMMA LooksKeeps ==
  ASSUME NEW s, NEW t, Looks(s, t)
  PROVE  /\ Links(t) = Links(s) /\ (Intact(s) => Intact(t))
         /\ ShellOk(s) => ShellOk(t)
         /\ Fine(s) => Fine(t)
BY DEF Looks, ShellOk, Fine, Links, Intact

LEMMA LooksAgain ==
  ASSUME NEW s, NEW t, NEW u, Looks(s, t), Looks(t, u)
  PROVE  Looks(s, u)
BY DEF Looks

LEMMA Answers ==
  ASSUME NEW s, Rec(s), Lst(s.lh)
  PROVE  /\ Looks(s, s) /\ Looks(s, Nothing(s)) /\ Looks(s, Taken(s))
         /\ \A e : Looks(s, Refuse(s, e))
         /\ \A p : Looks(s, Answer(s, p))
         /\ \A p, n : Looks(s, Found(s, p, n))
         /\ \A p, n : Looks(s, Answer([s EXCEPT !.node = n], p))
<1>1. Looks(s, s) /\ Looks(s, Nothing(s))
  BY DEF Looks, Nothing, Rec
<1>2. Looks(s, Taken(s))
  <2> DEFINE c == [s.lh EXCEPT !.cur = 0]
  <2>1. Lst(c) /\ c.links = s.lh.links /\ c.type = s.lh.type
    BY DEF Lst
  <2>2. Taken(s) = [s EXCEPT !.ret = OK, !.error = "NOERROR", !.lh = c]
    BY DEF Taken, Rec
  <2> HIDE DEF c
  <2> QED BY <2>1, <2>2 DEF Looks, Rec
<1>3. ASSUME NEW e PROVE Looks(s, Refuse(s, e))
  <2>1. Refuse(s, e) = [s EXCEPT !.error = e, !.ret = NONE]
    BY DEF Refuse
  <2> QED BY <2>1 DEF Looks, Rec
<1>4. ASSUME NEW p PROVE Looks(s, Answer(s, p))
  BY DEF Looks, Answer, Rec
<1>5. ASSUME NEW p, NEW n PROVE Looks(s, Found(s, p, n))
  <2> DEFINE c == [s.lh EXCEPT !.cur = p]
  <2>1. Lst(c) /\ c.links = s.lh.links /\ c.type = s.lh.type
    BY DEF Lst
  <2>2. Found(s, p, n) = [s EXCEPT !.lh = c, !.node = n, !.ret = Links(s)[p]]
    BY DEF Found, Rec
  <2> HIDE DEF c
  <2> QED BY <2>1, <2>2 DEF Looks, Rec
<1>6. ASSUME NEW p, NEW n PROVE Looks(s, Answer([s EXCEPT !.node = n], p))
  <2> DEFINE r == [s EXCEPT !.node = n]
  <2>1. Looks(s, r)
    BY DEF Looks, Rec
  <2> HIDE DEF r
  <2>2. Looks(r, Answer(r, p))
    BY <2>1 DEF Looks, Answer, Rec
  <2>3. Looks(s, Answer(r, p))
    BY <2>1, <2>2, LooksAgain
  <2> QED BY <2>3 DEF r
<1> QED BY <1>1, <1>2, <1>3, <1>4, <1>5, <1>6

LEMMA FindLooks ==
  ASSUME NEW s, Rec(s), Lst(s.lh), NEW k
  PROVE  Looks(s, FindIn(s, k))
<1>1. \A p, n : Looks(s, FindAt(s, k, p, n))
  BY Answers DEF FindAt
<1> QED BY <1>1, Answers DEF FindIn

LEMMA QueryLooks ==
  ASSUME NEW s, Rec(s), Lst(s.lh), NEW k
  PROVE  Looks(s, QueryIn(s, k))
<1>1. \A p, n : Looks(s, QueryAt(s, k, p, n))
  BY Answers DEF QueryAt
<1>2. \A p : Looks(s, QueryWithoutNodes(s, k, p))
  BY Answers DEF QueryWithoutNodes
<1> QED BY <1>1, <1>2, Answers DEF QueryIn

(* So the shell is as good as before.                                      *)
Keeps(s, t) ==
  Fine(t) /\ Links(t) = Links(s) /\ t.lh.type = s.lh.type /\ t.isUnique = s.isUnique

LEMMA FindKeeps ==
  ASSUME NEW s, Fine(s), NEW k, NEW heavy
  PROVE  Keeps(s, findShellItem(s, k, heavy)) /\ Keeps(s, queryShellItem(s, k, heavy))
<1> DEFINE u == Balance(s, heavy)
<1>1. Fine(u) /\ u.lh = s.lh /\ u.isUnique = s.isUnique
  BY Balances
<1>2. findShellItem(s, k, heavy) = FindIn(u, k) /\ queryShellItem(s, k, heavy) = QueryIn(u, k)
  BY DEF findShellItem, queryShellItem
<1> HIDE DEF u
<1>3. ASSUME NEW t, Looks(u, t) PROVE Keeps(s, t)
  <2>1. Fine(t) /\ Links(t) = Links(u)
    BY <1>1, <1>3, LooksKeeps
  <2> QED BY <1>1, <1>3, <2>1 DEF Looks, Links, Keeps
<1>4. Looks(u, FindIn(u, k)) /\ Looks(u, QueryIn(u, k))
  BY <1>1, FindLooks, QueryLooks DEF Fine
<1> QED BY <1>2, <1>3, <1>4

-----------------------------------------------------------------------------
(* Where a search finds its link.                                          *)
LEMMA NotBelowFacts ==
  ASSUME NEW q, Sorted(q), NEW k \in Int
  PROVE  LET p == NotBelow(q, k)
         IN /\ p \in 1..Len(q) + 1
            /\ \A i \in 1..p - 1 : q[i].key < k
            /\ \A i \in p..Len(q) : k <= q[i].key
<1> DEFINE S == {p \in DOMAIN q : k <= q[p].key} \cup {Len(q) + 1}
           a == NotBelow(q, k)
<1>1. DOMAIN q = 1..Len(q) /\ Len(q) \in Nat /\ \A i \in DOMAIN q : q[i] \in Lnk
  BY LenProperties DEF Sorted
<1>2. \A i \in DOMAIN q : q[i].key \in Int
  BY <1>1 DEF Lnk
<1>3. S \in SUBSET Nat /\ S # {}
  BY <1>1
<1>4. a = Min(S)
  BY DEF NotBelow
<1>5. a \in S /\ \A y \in S : a <= y
  <2> HIDE DEF S
  <2> QED BY <1>3, <1>4, MinOfSome
<1> HIDE DEF a
<1>6. a \in 1..Len(q) + 1
  BY <1>1, <1>5
<1>7. \A i \in 1..a - 1 : q[i].key < k
  <2>1. TAKE i \in 1..a - 1
  <2>2. i \in DOMAIN q /\ ~(a <= i)
    BY <1>1, <1>6
  <2> QED BY <1>2, <1>5, <2>2
<1>8. \A i \in a..Len(q) : k <= q[i].key
  <2>1. TAKE i \in a..Len(q)
  <2>2. i \in DOMAIN q /\ a \in DOMAIN q /\ (a = i \/ a < i)
    BY <1>1, <1>6
  <2>3. k <= q[a].key
    BY <1>1, <1>5, <2>2
  <2>4. a < i => q[a].key <= q[i].key
    BY <2>2 DEF Sorted, Ordered
  <2> QED BY <1>2, <2>2, <2>3, <2>4
<1> QED BY <1>6, <1>7, <1>8 DEF a

(* No other position parts the keys below k from the rest.                 *)
LEMMA OnePlace ==
  ASSUME NEW q, Sorted(q), NEW k \in Int, NEW a \in 1..Len(q),
         \A i \in 1..a - 1 : q[i].key < k, k <= q[a].key
  PROVE  NotBelow(q, k) = a
<1> DEFINE p == NotBelow(q, k)
<1>1. Len(q) \in Nat /\ \A i \in 1..Len(q) : q[i].key \in Int
  <2>1. DOMAIN q = 1..Len(q) /\ Len(q) \in Nat /\ \A i \in DOMAIN q : q[i] \in Lnk
    BY LenProperties DEF Sorted
  <2> QED BY <2>1 DEF Lnk
<1>2. /\ p \in 1..Len(q) + 1
      /\ \A i \in 1..p - 1 : q[i].key < k
      /\ \A i \in p..Len(q) : k <= q[i].key
  BY NotBelowFacts
<1> HIDE DEF p
<1>3. CASE p < a
  <2>1. p \in 1..a - 1 /\ p \in p..Len(q) /\ p \in 1..Len(q)
    BY <1>1, <1>2, <1>3
  <2> QED BY <1>1, <1>2, <2>1
<1>4. CASE a < p
  <2>1. a \in 1..p - 1 /\ a \in 1..Len(q)
    BY <1>1, <1>2, <1>4
  <2> QED BY <1>1, <1>2, <2>1
<1> QED BY <1>1, <1>2, <1>3, <1>4 DEF p

LEMMA HeldThere ==
  ASSUME NEW q, Sorted(q), NEW k \in Int
  PROVE  k \in {l.key : l \in ToSet(q)} <=>
           NotBelow(q, k) <= Len(q) /\ q[NotBelow(q, k)].key = k
<1> DEFINE p == NotBelow(q, k)
<1>1. DOMAIN q = 1..Len(q) /\ Len(q) \in Nat /\ \A i \in 1..Len(q) : q[i].key \in Int
  <2>1. DOMAIN q = 1..Len(q) /\ Len(q) \in Nat /\ \A i \in DOMAIN q : q[i] \in Lnk
    BY LenProperties DEF Sorted
  <2> QED BY <2>1 DEF Lnk
<1>2. /\ p \in 1..Len(q) + 1
      /\ \A i \in 1..p - 1 : q[i].key < k
      /\ \A i \in p..Len(q) : k <= q[i].key
  BY NotBelowFacts
<1> HIDE DEF p
<1>3. ASSUME NEW i \in 1..Len(q), q[i].key = k PROVE p <= Len(q) /\ q[p].key = k
  <2>1. i \notin 1..p - 1
    BY <1>1, <1>2, <1>3
  <2>2. p <= i /\ p \in 1..Len(q) /\ p \in p..Len(q)
    BY <1>1, <1>2, <2>1
  <2>3. p = i \/ q[p].key <= q[i].key
    BY <1>1, <2>2 DEF Sorted, Ordered
  <2> QED BY <1>1, <1>2, <1>3, <2>2, <2>3
<1>4. ASSUME p <= Len(q), q[p].key = k PROVE \E i \in 1..Len(q) : q[i].key = k
  BY <1>1, <1>2, <1>4
<1> QED BY <1>1, <1>3, <1>4 DEF ToSet, p

-----------------------------------------------------------------------------
(* A way down N levels, each step of which depends on the level.           *)
WalksDown(at, U, b, N, G) ==
  /\ at \in [0..N -> U]
  /\ \A i \in 0..N : at[i] = IF i = N THEN b ELSE G[i][at[i + 1]]

LEMMA WayDown ==
  ASSUME NEW U, NEW b \in U, NEW N \in Nat, NEW G \in [0..N - 1 -> [U -> U]]
  PROVE  \E at : WalksDown(at, U, b, N, G)
<1> DEFINE H == [m \in 1..N |-> G[N - m]]
<1>1. H \in [1..N -> [U -> U]]
  OBVIOUS
<1>2. \A m \in 1..N : H[m] = G[N - m]
  OBVIOUS
<1> HIDE DEF H
<1>3. PICK f : Runs(f, U, b, N, H)
  BY <1>1, RunsExist
<1> DEFINE g == [i \in 0..N |-> f[N - i]]
<1>4. \A i \in 0..N : f[N - i] = IF i = N THEN b ELSE G[i][g[i + 1]]
  <2>1. TAKE i \in 0..N
  <2>2. CASE i = N
    <3>1. N - i = 0
      BY <2>2
    <3> QED BY <1>3, <2>2, <3>1 DEF Runs
  <2>3. CASE i # N
    <3>1. N - i \in 1..N /\ N - (N - i) = i /\ i + 1 \in 0..N /\ N - (i + 1) = (N - i) - 1
      BY <2>3
    <3>2. g[i + 1] = f[(N - i) - 1]
      BY <3>1
    <3> HIDE DEF g
    <3>3. f[N - i] = G[i][f[(N - i) - 1]]
      BY <1>2, <1>3, <3>1 DEF Runs
    <3> QED BY <2>3, <3>2, <3>3
  <2> QED BY <2>2, <2>3
<1>5. \A i \in 0..N : g[i] = IF i = N THEN b ELSE G[i][g[i + 1]]
  BY <1>4
<1>6. \A i \in 0..N : N - i \in 0..N /\ f[N - i] \in U
  BY <1>3 DEF Runs
<1>7. g \in [0..N -> U]
  BY <1>6
<1> HIDE DEF g
<1>8. WalksDown(g, U, b, N, G)
  BY <1>5, <1>7 DEF WalksDown
<1> QED BY <1>8

(* The node a search leaves level 0 on is below the key, or the first one. *)
LEMMA DescendFacts ==
  ASSUME NEW s, Fine(s), s.nodes # <<>>, NEW k \in Int
  PROVE  /\ Descend(s, k) \in ToSet(s.nodes)
         /\ Descend(s, k) = Head(s.nodes) \/ Descend(s, k).key < k
<1> DEFINE N == NODE_LEVEL
           n == Len(s.nodes)
           U == ToSet(s.nodes)
           b == Head(s.nodes)
           G == [i \in 0..N - 1 |-> [x \in U |-> Path(s, i, x, k)[n]]]
           Eq(at) == at = [i \in 0..N |-> IF i = N THEN b ELSE Path(s, i, at[i + 1], k)[n]]
           c == CHOOSE at : Eq(at)
           Low(x) == x \in U /\ (x = b \/ x.key < k)
<1>1. N \in Nat \ {0} /\ Levels = 0..N - 1 /\ n \in Nat
  BY ShellAssumption, FineNodes DEF Levels
<1>2. Descend(s, k) = c[0]
  BY DEF Descend
<1>3. Low(b)
  <2>1. b = s.nodes[1] /\ 1 \in DOMAIN s.nodes
    BY FineNodes
  <2> QED BY <2>1 DEF ToSet
<1>4. ASSUME NEW i \in Levels, NEW x \in U
      PROVE  /\ Path(s, i, x, k)[n] \in U
             /\ Path(s, i, x, k)[n] = x \/ Path(s, i, x, k)[n].key < k
  <2> DEFINE path == Path(s, i, x, k)
  <2>1. PathSteps(s, i, x, k, path)
    BY PathRuns
  <2> HIDE DEF path
  <2>2. n \in 0..n /\ (n = 0 \/ n \in 1..n)
    BY <1>1
  <2>3. path[n] \in U /\ (n = 0 => path[n] = x)
    BY <2>1, <2>2 DEF PathSteps
  <2>4. IF Ahead(s, i, x, k) THEN \A j \in 1..n : path[j].key < k
        ELSE \A j \in 0..n : path[j] = x
    BY <2>1, PathPasses
  <2>5. path[n] = x \/ path[n].key < k
    BY <2>2, <2>3, <2>4
  <2> QED BY <2>3, <2>5 DEF path
<1>5. G \in [0..N - 1 -> [U -> U]]
  BY <1>1, <1>4
<1>6. \A i \in 0..N - 1, x \in U : G[i][x] = Path(s, i, x, k)[n]
  OBVIOUS
<1> HIDE DEF G
<1>7. PICK g \in [0..N -> U] :
         \A i \in 0..N : g[i] = IF i = N THEN b ELSE G[i][g[i + 1]]
  <2>1. PICK g : WalksDown(g, U, b, N, G)
    BY <1>1, <1>3, <1>5, WayDown
  <2> QED BY <2>1 DEF WalksDown
<1>8. Eq(g)
  <2>1. \A i \in 0..N : i # N => i \in 0..N - 1 /\ g[i + 1] \in U
    BY <1>1, <1>7
  <2>2. \A i \in 0..N : i # N => G[i][g[i + 1]] = Path(s, i, g[i + 1], k)[n]
    BY <1>6, <2>1
  <2> QED BY <1>7, <2>2
<1>9. Eq(c)
  <2> HIDE DEF Eq
  <2> QED BY <1>8
<1> HIDE DEF c
<1>10. c[N] = b /\ \A i \in Levels : c[i] = Path(s, i, c[i + 1], k)[n]
  <2>1. N \in 0..N /\ \A i \in Levels : i \in 0..N /\ i # N
    BY <1>1
  <2> QED BY <1>9, <2>1
<1> DEFINE T == {m \in Nat : Low(c[N - m])}
<1>11. 0 \in T
  BY <1>1, <1>3, <1>10
<1>12. ASSUME NEW m \in 1..N, m - 1 \in T PROVE m \in T
  <2>1. N - (m - 1) = (N - m) + 1 /\ m \in Nat /\ N - m \in Levels
    BY <1>1
  <2>2. Low(c[(N - m) + 1])
    BY <1>12, <2>1
  <2>3. c[N - m] = Path(s, N - m, c[(N - m) + 1], k)[n]
    BY <1>10, <2>1
  <2>4. Low(c[N - m])
    BY <1>4, <2>1, <2>2, <2>3
  <2> QED BY <2>1, <2>4
<1>13. \A m \in 0..N : m \in T
  <2> HIDE DEF T
  <2> QED BY <1>1, <1>11, <1>12, BoundedInduction
<1>14. Low(c[0])
  <2>1. N \in 0..N /\ N - N = 0
    BY <1>1
  <2> QED BY <1>13, <2>1
<1> QED BY <1>2, <1>14

(* The walk from that node along the nodes and then the links.             *)
SearchFrom(s, k, j, start) ==
  LET p == Pos(s, s.nodes[j - 1])
  IN /\ j \in 2..Len(s.nodes) + 1
     /\ j = 2 \/ s.nodes[j - 1].key < k
     /\ start = IF j = 2 /\ Len(s.nodes) > 1 THEN 1 ELSE p
     /\ p \in 1..Len(Links(s)) /\ Links(s)[p] = s.nodes[j - 1]
     /\ Locate(s, k).pos = StopAt(Links(s), start, k)

LEMMA LocateStarts ==
  ASSUME NEW s, Fine(s), s.nodes # <<>>, Links(s) # <<>>, NEW k \in Int
  PROVE  \E j, start : SearchFrom(s, k, j, start)
<1> DEFINE q == Links(s)
           n == Len(s.nodes)
           x == Descend(s, k)
           a == NodeAt(s, x)
           S == {i \in a + 1..n : k <= s.nodes[i].key} \cup {n + 1}
           j == Min(S)
           start == IF j = 2 /\ n > 1 THEN 1 ELSE Pos(s, s.nodes[j - 1])
<1>1. /\ n \in Nat /\ DOMAIN s.nodes = 1..n /\ Distinct(s.nodes)
      /\ s.nodes \in Seq(ToSet(q))
      /\ \A i \in 1..n : s.nodes[i] \in ToSet(q) /\ s.nodes[i].key \in Int
  BY FineNodes
<1>2. q \in Seq(Lnk)
  BY DEF Fine, Sorted
<1>3. x \in ToSet(s.nodes) /\ (x = s.nodes[1] \/ x.key < k)
  <2>1. Head(s.nodes) = s.nodes[1]
    BY <1>1
  <2> QED BY <2>1, DescendFacts
<1>4. a \in 1..n /\ s.nodes[a] = x
  BY <1>1, <1>3, PlaceFacts DEF NodeAt, Place
<1>5. a = 1 \/ s.nodes[a].key < k
  BY <1>1, <1>3, <1>4 DEF Distinct
<1> HIDE DEF a, x
<1>6. S \in SUBSET Nat /\ S # {}
  BY <1>1, <1>4
<1>7. j \in S /\ \A y \in S : j <= y
  <2> HIDE DEF S
  <2> QED BY <1>6, MinOfSome
<1> HIDE DEF j
<1>8. j \in a + 1..n + 1 /\ j - 1 \in 1..n /\ j \in Nat
  BY <1>1, <1>4, <1>7
<1>9. j = 2 \/ s.nodes[j - 1].key < k
  <2>1. CASE j - 1 = a
    BY <1>4, <1>5, <1>8, <2>1
  <2>2. CASE j - 1 # a
    <3>1. j - 1 \in a + 1..n /\ ~(j <= j - 1)
      BY <1>1, <1>4, <1>8, <2>2
    <3>2. ~(k <= s.nodes[j - 1].key)
      BY <1>7, <3>1
    <3> QED BY <1>1, <1>8, <3>2
  <2> QED BY <2>1, <2>2
<1>10. Pos(s, s.nodes[j - 1]) \in 1..Len(q) /\ q[Pos(s, s.nodes[j - 1])] = s.nodes[j - 1]
  BY <1>1, <1>2, <1>8, PlaceFacts DEF Pos, Place
<1>11. Locate(s, k).pos = StopAt(q, start, k)
  <2>1. Locate(s, k) = LocateBefore(s, k, j)
    BY DEF Locate, a, x, j
  <2>2. LocateBefore(s, k, j).pos = StopAt(q, start, k)
    BY DEF LocateBefore, Reached, StopAt
  <2> QED BY <2>1, <2>2
<1>12. j \in 2..n + 1
  BY <1>1, <1>4, <1>8
<1> QED BY <1>8, <1>9, <1>10, <1>11, <1>12 DEF SearchFrom

LEMMA LocateInList ==
  ASSUME NEW s, Fine(s), s.nodes # <<>>, Links(s) # <<>>, NEW k \in Int, k < LastOf(s).key
  PROVE  Locate(s, k).pos \in 1..Len(Links(s))
<1> DEFINE q == Links(s)
<1>1. PICK j, start : SearchFrom(s, k, j, start)
  BY LocateStarts
<1> DEFINE B == {p \in start..Len(q) : k <= q[p].key}
<1>2. Len(q) \in Nat \ {0} /\ k <= q[Len(q)].key
  BY EndsFacts
<1>3. start \in 1..Len(q)
  BY <1>1, <1>2 DEF SearchFrom
<1>4. B \in SUBSET Nat /\ B # {}
  BY <1>2, <1>3
<1>5. Min(B) \in B
  <2> HIDE DEF B
  <2> QED BY <1>4, MinOfSome
<1>6. Locate(s, k).pos = Min(B)
  BY <1>1 DEF SearchFrom, StopAt
<1> QED BY <1>3, <1>5, <1>6

LEMMA BeforeOrFirst ==
  ASSUME NEW p \in Nat \ {0}
  PROVE  Max({p - 1, 1}) = IF p = 1 THEN 1 ELSE p - 1
BY MaxIs

(* A search returns a link of the list, or NULL.                           *)
Returning(s, t) ==
  /\ t.ret \in ToSet(Links(s)) \cup {NONE}
  /\ s.lh.cur \in Nat => t.lh.cur \in Nat

LEMMA ReturnsLink ==
  ASSUME NEW s, Rec(s), Lst(s.lh)
  PROVE  /\ Returning(s, Nothing(s))
         /\ \A e : Returning(s, Refuse(s, e))
         /\ \A p \in DOMAIN Links(s) : \A n :
              /\ p \in Nat => Returning(s, Found(s, p, n))
              /\ Returning(s, Answer(s, p))
              /\ Returning(s, Answer([s EXCEPT !.node = n], p))
<1>1. \A p \in DOMAIN Links(s) : Links(s)[p] \in ToSet(Links(s))
  BY DEF ToSet
<1>2. Returning(s, Nothing(s)) /\ \A e : Returning(s, Refuse(s, e))
  BY DEF Returning, Nothing, Refuse, Rec
<1>3. \A p \in DOMAIN Links(s) : \A n : /\ Returning(s, Answer(s, p))
                                         /\ Returning(s, Answer([s EXCEPT !.node = n], p))
  <2>1. TAKE p \in DOMAIN Links(s)
  <2> TAKE n
  <2> DEFINE r == [s EXCEPT !.node = n]
  <2>2. r.lh = s.lh /\ Rec(r)
    BY DEF Rec
  <2> HIDE DEF r
  <2>3. /\ Answer(s, p).ret = Links(s)[p] /\ Answer(s, p).lh = s.lh
        /\ Answer(r, p).ret = Links(s)[p] /\ Answer(r, p).lh = s.lh
    BY <2>2 DEF Answer, Rec, Links
  <2> QED BY <1>1, <2>3 DEF Returning, r
<1>4. ASSUME NEW p \in DOMAIN Links(s), p \in Nat, NEW n PROVE Returning(s, Found(s, p, n))
  <2> DEFINE c == [s.lh EXCEPT !.cur = p]
  <2>1. c.cur = p
    BY DEF Lst
  <2>2. Found(s, p, n) = [s EXCEPT !.lh = c, !.node = n, !.ret = Links(s)[p]]
    BY DEF Found, Rec
  <2> HIDE DEF c
  <2>3. Found(s, p, n).lh = c /\ Found(s, p, n).ret = Links(s)[p]
    BY <2>2 DEF Rec
  <2> QED BY <1>1, <1>4, <2>1, <2>3 DEF Returning
<1> QED BY <1>2, <1>3, <1>4

LEMMA FindReturns ==
  ASSUME NEW s, Fine(s), NEW k \in Int
  PROVE  Returning(s, FindIn(s, k)) /\ Returning(s, QueryIn(s, k))
<1> DEFINE q == Links(s)
           p == FirstEqual(s, k)
<1>1. /\ q \in Seq(Lnk) /\ Len(q) \in Nat /\ DOMAIN q = 1..Len(q) /\ Sorted(q)
      /\ Rec(s) /\ Lst(s.lh)
  BY FineNodes DEF Fine
<1>2. p \in 1..Len(q) + 1 /\ \A i \in 1..p - 1 : q[i].key < k
  BY <1>1, NotBelowFacts DEF FirstEqual
<1> HIDE DEF p
<1>3. \A i \in 1..Len(q) : \A n : FindAt(s, k, i, n) \in {Found(s, i, n), Nothing(s)}
  BY DEF FindAt
<1>4. \A i \in 1..Len(q) : \A n : /\ Returning(s, Found(s, i, n)) /\ Returning(s, Answer(s, i))
                                   /\ Returning(s, Answer([s EXCEPT !.node = n], i))
                                   /\ Returning(s, FindAt(s, k, i, n))
  BY <1>1, <1>3, ReturnsLink
<1>5. \A i \in 1..Len(q) : Max({i - 1, 1}) \in 1..Len(q)
  <2>1. TAKE i \in 1..Len(q)
  <2>2. Max({i - 1, 1}) = IF i = 1 THEN 1 ELSE i - 1
    BY <1>1, <2>1, BeforeOrFirst
  <2> QED BY <1>1, <2>1, <2>2
<1>6. \A i \in 1..Len(q) : \A n : Returning(s, QueryAt(s, k, i, n))
  BY <1>4, <1>5 DEF QueryAt
<1>7. CASE s.nodes = <<>>
  <2>1. ~(p <= Len(q)) => FindAt(s, k, p, s.node) = Nothing(s)
    BY DEF FindAt
  <2>2. p <= Len(q) => p \in 1..Len(q)
    BY <1>1, <1>2
  <2>3. Returning(s, FindIn(s, k))
    BY <1>1, <1>4, <1>7, <2>1, <2>2, ReturnsLink DEF FindIn, p
  <2>4. q # <<>> => Len(q) \in 1..Len(q)
    BY <1>1, EmptySeq
  <2>5. q # <<>> => Returning(s, QueryWithoutNodes(s, k, p))
    <3>1. p > Len(q) \/ p \in 1..Len(q)
      BY <1>1, <1>2
    <3> QED BY <1>4, <1>5, <2>4, <3>1 DEF QueryWithoutNodes
  <2> QED BY <1>1, <1>7, <2>3, <2>5, ReturnsLink DEF QueryIn, p
<1>8. CASE s.nodes # <<>>
  <2>1. q # <<>>
    <3>1. s.nodes[1] \in ToSet(q)
      BY <1>8, FineNodes, EmptySeq
    <3> QED BY <3>1 DEF ToSet
  <2>2. /\ Len(q) \in 1..Len(q) /\ 1 \in 1..Len(q) /\ LastOf(s) = q[Len(q)]
        /\ First(s).key \in Int /\ LastOf(s).key \in Int
    BY <2>1, EndsFacts
  <2>3. k = LastOf(s).key => p \in 1..Len(q)
    BY <1>1, <1>2, <2>2
  <2>4. k < LastOf(s).key => Locate(s, k).pos \in 1..Len(q)
    BY <1>8, <2>1, LocateInList
  <2>5. k < LastOf(s).key \/ k = LastOf(s).key \/ k > LastOf(s).key
    BY <2>2
  <2>6. Returning(s, FindIn(s, k))
    BY <1>1, <1>4, <1>8, <2>2, <2>3, <2>4, <2>5, ReturnsLink DEF FindIn, p
  <2>7. Returning(s, QueryIn(s, k))
    BY <1>1, <1>4, <1>6, <1>8, <2>1, <2>2, <2>3, <2>4, <2>5, ReturnsLink DEF QueryIn, p
  <2> QED BY <2>6, <2>7
<1> QED BY <1>7, <1>8

LEMMA FindsLink ==
  ASSUME NEW s, Fine(s), NEW k \in Int, NEW heavy
  PROVE  /\ Returning(s, findShellItem(s, k, heavy))
         /\ Returning(s, queryShellItem(s, k, heavy))
<1>1. Fine(Balance(s, heavy)) /\ Balance(s, heavy).lh = s.lh
  BY Balances
<1> QED BY <1>1, FindReturns DEF Returning, Links, findShellItem, queryShellItem

-----------------------------------------------------------------------------
(* removeShellItem.                                                        *)
LEMMA TakesOut ==
  ASSUME NEW s, Fine(s), s.lh.type = "UNSORTED", NEW l \in ToSet(Links(s))
  PROVE  LET t == TakeOut(s, l)
         IN /\ Rec(t) /\ Lst(t.lh) /\ t.lh.type = "UNSORTED" /\ t.isUnique = s.isUnique
            /\ Sorted(Links(t)) /\ ToSet(Links(t)) = ToSet(Links(s)) \ {l}
            /\ t.lh.cur \in Nat /\ t.ret = l
            /\ Intact(t) => Leads(Links(t), t.nodes, t.level)
<1> DEFINE q == Links(s)
           p == Pos(s, l)
           c == [s.lh EXCEPT !.cur = p]
           r == removeLink(c)
           t == TakeOut(s, l)
<1>1. q \in Seq(Lnk) /\ Len(q) \in Nat /\ DOMAIN q = 1..Len(q) /\ Sorted(q)
  BY FineNodes DEF Fine
<1>2. p \in 1..Len(q) /\ q[p] = l
  <2>1. p = Place(q, l)
    BY DEF Pos, Place
  <2> QED BY <1>1, <2>1, PlaceFacts
<1>3. Lst(c) /\ c.links = q /\ c.type = "UNSORTED" /\ c.cur = p
  BY DEF Fine, Lst, Links
<1> HIDE DEF c, p
<1>4. taken(c) = p
  BY <1>1, <1>2, <1>3 DEF taken
<1>5. Len(c.links) # 0
  BY <1>1, <1>2, <1>3
<1>6. \E x \in Nat : r = [c EXCEPT !.links = RemoveAt(q, p), !.cur = x]
  <2> DEFINE x == IF Len(c.links) = 1 THEN 0 ELSE p
  <2>1. r = [c EXCEPT !.links = RemoveAt(q, p), !.cur = x]
    BY <1>3, <1>4, <1>5 DEF removeLink, Lst
  <2>2. x \in Nat
    BY <1>2
  <2> QED BY <2>1, <2>2
<1>7. Lst(r) /\ r.links = RemoveAt(q, p) /\ r.type = "UNSORTED" /\ r.cur \in Nat
  BY <1>3, <1>6 DEF Lst
<1>8. t = [s EXCEPT !.lh = r, !.ret = l]
  BY DEF TakeOut, Fine, Rec, c, p
<1> HIDE DEF r, t, q
<1>9. /\ Rec(t) /\ t.lh = r /\ t.nodes = s.nodes /\ t.level = s.level /\ t.isUnique = s.isUnique
      /\ t.ret = l
  BY <1>8 DEF Fine, Rec
<1>10. Links(t) = RemoveAt(q, p)
  BY <1>7, <1>9 DEF Links
<1>11. Sorted(Links(t)) /\ ToSet(Links(t)) = ToSet(q) \ {l} /\ Kept(q, Links(t), ToSet(Links(t)))
  BY <1>1, <1>2, <1>10, RemoveSorts
<1>12. ASSUME Intact(t) PROVE Leads(Links(t), t.nodes, t.level)
  <2>1. ToSet(s.nodes) \subseteq ToSet(Links(t))
    BY <1>9, <1>12 DEF Intact
  <2>2. Kept(q, Links(t), ToSet(s.nodes))
    BY <1>11, <2>1 DEF Kept
  <2>3. Leads(q, s.nodes, s.level)
    BY DEF Fine, q
  <2> QED BY <1>1, <1>9, <1>11, <2>1, <2>2, <2>3, LeadsKept
<1> QED BY <1>7, <1>9, <1>11, <1>12 DEF t, q

(* The link is gone, or all are still there.                               *)
RemovedFrom(s, l, t) ==
  /\ ShellOk(t) /\ t.lh.type = "UNSORTED" /\ t.isUnique = s.isUnique
  /\ s.lh.cur \in Nat => t.lh.cur \in Nat
  /\ \/ t.ret = NONE /\ Links(t) = Links(s)
     \/ t.ret = l /\ ToSet(Links(t)) = ToSet(Links(s)) \ {l}

LEMMA Removes ==
  ASSUME NEW s, Fine(s), s.lh.type = "UNSORTED", NEW l \in ToSet(Links(s))
  PROVE  RemovedFrom(s, l, removeShellItem(s, l))
<1> DEFINE t == removeShellItem(s, l)
           u == IF s.isUnique THEN findShellItem(s, l.key, FALSE)
                ELSE queryShellItem(s, l.key, FALSE)
           v == TakeOut(u, l)
           w == restructureShellNodes(v)
<1>1. t \in {Refuse(u, "CORRUPT"), w} \/ (~s.isUnique /\ t = v)
  BY DEF removeShellItem, RemoveFound, RemoveQueried
<1>2. /\ Fine(u) /\ Links(u) = Links(s) /\ u.lh.type = "UNSORTED" /\ u.isUnique = s.isUnique
      /\ s.lh.cur \in Nat => u.lh.cur \in Nat
  <2>1. Keeps(s, u)
    BY FindKeeps
  <2>2. l.key \in Int
    BY FineNodes
  <2> QED BY <2>1, <2>2, FindsLink DEF Keeps, Returning
<1> HIDE DEF u, t
<1>3. /\ Rec(v) /\ Lst(v.lh) /\ v.lh.type = "UNSORTED" /\ v.isUnique = s.isUnique
      /\ Sorted(Links(v)) /\ (Intact(v) => Leads(Links(v), v.nodes, v.level))
      /\ ToSet(Links(v)) = ToSet(Links(s)) \ {l} /\ v.lh.cur \in Nat /\ v.ret = l
  BY <1>2, TakesOut
<1> HIDE DEF v
<1>4. CASE t = Refuse(u, "CORRUPT")
  <2>1. Fine(t) /\ t.lh = u.lh /\ t.isUnique = u.isUnique /\ t.ret = NONE
    BY <1>2, <1>4, Refuses
  <2>2. Links(t) = Links(u)
    BY <2>1 DEF Links
  <2> QED BY <1>2, <2>1, <2>2, FineOk DEF RemovedFrom, t
<1>5. CASE t = w
  <2>1. /\ Rec(t) /\ t.lh = v.lh /\ t.isUnique = v.isUnique
        /\ Leads(Links(t), t.nodes, t.level) /\ Intact(t) /\ t.ret = v.ret
    BY <1>3, <1>5, Restructures
  <2>2. Links(t) = Links(v)
    BY <2>1 DEF Links
  <2>3. ShellOk(t)
    BY <1>3, <2>1, <2>2 DEF ShellOk
  <2> QED BY <1>3, <2>1, <2>2, <2>3 DEF RemovedFrom, t
<1>6. CASE ~s.isUnique /\ t = v
  <2>1. ShellOk(t)
    BY <1>3, <1>6 DEF ShellOk
  <2> QED BY <1>3, <1>6, <2>1 DEF RemovedFrom, t
<1> QED BY <1>1, <1>4, <1>5, <1>6

-----------------------------------------------------------------------------
(* retrieveShell: the records a file holds make the list they were.        *)
ListOf(recs) ==
  [type |-> "UNSORTED", links |-> recs, cur |-> Len(recs), sorter |-> FALSE]

LEMMA ReadsOne ==
  ASSUME NEW recs \in Seq(Lnk), NEW l \in Lnk
  PROVE  insertLink(lastLink(ListOf(recs)), l) = ListOf(Append(recs, l))
<1> DEFINE b == ListOf(recs)
           n == Len(recs)
           t == InsertAt(recs, n + 1, l)
           c == [type |-> "UNSORTED", links |-> t, cur |-> n + 1, sorter |-> FALSE]
<1>1. n \in Nat /\ DOMAIN recs = 1..n
  BY LenProperties
<1>2. /\ b = [type |-> b.type, links |-> b.links, cur |-> b.cur, sorter |-> b.sorter]
      /\ b.type = "UNSORTED" /\ b.links = recs /\ b.cur = n /\ b.sorter = FALSE
  BY DEF ListOf
<1> HIDE DEF b
<1>3. lastLink(b) = b
  BY <1>2 DEF lastLink
<1>4. insertLink(b, l) = c
  <2>1. Min({n, n}) = n
    BY <1>1, MinOfTwo
  <2> HIDE DEF n
  <2>2. insertLink(b, l) = insertLinkHere(b, l)
    BY <1>2 DEF insertLink
  <2>3. insertLinkHere(b, l) = [[b EXCEPT !.links = t] EXCEPT !.cur = n + 1]
    BY <1>2, <2>1 DEF insertLinkHere, n
  <2> HIDE DEF t
  <2> QED BY <1>2, <2>2, <2>3
<1>5. /\ t \in Seq(Lnk) /\ Len(t) = Len(recs) + 1
      /\ \A j \in 1..Len(recs) + 1 :
           t[j] = IF j < Len(recs) + 1 THEN recs[j] ELSE IF j = Len(recs) + 1 THEN l ELSE recs[j - 1]
  <2>1. GrownAt(Lnk, recs, n + 1, l, t)
    BY <1>1, InsertGrows
  <2> HIDE DEF t
  <2> QED BY <2>1 DEF GrownAt
<1> HIDE DEF t
<1>6. t = Append(recs, l)
  <2> DEFINE u == Append(recs, l)
  <2>1. /\ u \in Seq(Lnk) /\ Len(u) = Len(recs) + 1
        /\ \A j \in 1..Len(recs) : u[j] = recs[j]
        /\ u[Len(recs) + 1] = l
    BY AppendProperties
  <2> HIDE DEF u
  <2>2. \A j \in 1..Len(recs) + 1 : t[j] = u[j]
    BY <1>1, <1>5, <2>1
  <2>3. t = u
    BY <1>1, <1>5, <2>1, <2>2, SeqEqual
  <2> QED BY <2>3 DEF u
<1>7. Len(Append(recs, l)) = n + 1
  BY <1>5, <1>6
<1>8. ListOf(Append(recs, l)) = c
  BY <1>6, <1>7 DEF ListOf, t
<1> QED BY <1>3, <1>4, <1>8 DEF b

LEMMA ReadsAll ==
  ASSUME NEW recs \in Seq(Lnk)
  PROVE  retrieved(recs) = ListOf(recs)
<1> DEFINE N == Len(recs)
           U == {ListOf(r) : r \in Seq(Lnk)}
           b == InitList("UNSORTED", FALSE)
           Op(l, r) == insertLink(lastLink(l), r)
           G == [i \in 1..N |-> [u \in U |-> Op(u, recs[i])]]
           Eq(h) == h = [s \in SUBSET DOMAIN recs |->
                          IF s = {} THEN b ELSE Op(h[s \ {Max(s)}], recs[Max(s)])]
           c == CHOOSE g : Eq(g)
<1>1. retrieved(recs) = c[DOMAIN recs]
  BY DEF retrieved, fileReadBlock, FoldLeft, MapThenFoldSet
<1>2. N \in Nat /\ DOMAIN recs = 1..N /\ \A i \in 1..N : recs[i] \in Lnk
  BY LenProperties
<1>3. b = ListOf(<<>>) /\ <<>> \in Seq(Lnk)
  BY DEF InitList, ListOf
<1>4. \A r \in Seq(Lnk), l \in Lnk : Op(ListOf(r), l) = ListOf(Append(r, l)) /\ Append(r, l) \in Seq(Lnk)
  BY ReadsOne, AppendProperties
<1> HIDE DEF Op, b
<1>5. G \in [1..N -> [U -> U]] /\ b \in U
  <2>1. \A u \in U, l \in Lnk : Op(u, l) \in U
    BY <1>4, ZenonT(40)
  <2> HIDE DEF U
  <2>2. G \in [1..N -> [U -> U]]
    BY <1>2, <2>1
  <2> QED BY <1>3, <2>2 DEF U
<1>6. \A i \in 1..N, u \in U : G[i][u] = Op(u, recs[i])
  OBVIOUS
<1> HIDE DEF G, U
<1>7. \A s \in SUBSET (1..N) : s # {} => Max(s) \in 1..N
  BY <1>2, MaxExists
<1>8. PICK h \in [SUBSET (1..N) -> U] : Folds(h, b, N, G)
  BY <1>2, <1>5, FoldExists
<1>9. Eq(h)
  <2>1. ASSUME NEW s \in SUBSET (1..N)
        PROVE  h[s] = IF s = {} THEN b ELSE Op(h[s \ {Max(s)}], recs[Max(s)])
    <3>1. s # {} => Max(s) \in 1..N /\ h[s \ {Max(s)}] \in U
      BY <1>7
    <3>2. h[s] = IF s = {} THEN b ELSE G[Max(s)][h[s \ {Max(s)}]]
      BY <1>8 DEF Folds
    <3> QED BY <1>6, <3>1, <3>2
  <2> QED BY <1>2, <2>1
<1>10. Eq(c)
  <2> HIDE DEF Eq
  <2> QED BY <1>9
<1>11. \A s \in SUBSET (1..N) : c[s] = IF s = {} THEN b ELSE Op(c[s \ {Max(s)}], recs[Max(s)])
  BY <1>2, <1>10
<1> HIDE DEF c, Eq
<1>12. FoldsIn(c, U, b, N, G)
  <2>1. ASSUME NEW s \in SUBSET (1..N), s # {}, c[s \ {Max(s)}] \in U
        PROVE  c[s] = G[Max(s)][c[s \ {Max(s)}]]
    BY <1>6, <1>7, <1>11, <2>1
  <2>2. c[{}] = b
    BY <1>11
  <2> QED BY <2>1, <2>2 DEF FoldsIn
<1>13. PICK f : Runs(f, U, b, N, G) /\ f[N] = c[1..N]
  <2>1. N \in Nat /\ b \in U /\ G \in [1..N -> [U -> U]]
    BY <1>2, <1>5
  <2>2. ASSUME NEW g, FoldsIn(g, U, b, N, G)
        PROVE  \E f : Runs(f, U, b, N, G) /\ f[N] = g[1..N]
    <3> HIDE DEF N
    <3> QED BY <2>1, <2>2, FoldRuns
  <2> QED BY <1>12, <2>2
<1>14. \A i \in 1..N : f[i] = Op(f[i - 1], recs[i])
  <2>1. \A i \in 1..N : i - 1 \in 0..N
    BY <1>2
  <2> QED BY <1>6, <1>13, <2>1 DEF Runs
<1> DEFINE Upto(n) == \E r \in Seq(Lnk) : /\ f[n] = ListOf(r) /\ Len(r) = n
                                          /\ \A i \in 1..n : r[i] = recs[i]
           T == {n \in Nat : Upto(n)}
<1>15. 0 \in T
  <2>1. f[0] = ListOf(<<>>) /\ Len(<<>>) = 0 /\ 1..0 = {}
    BY <1>3, <1>13, EmptySeq DEF Runs
  <2>2. Upto(0)
    BY <1>3, <2>1
  <2> HIDE DEF Upto
  <2> QED BY <2>2
<1>16. ASSUME NEW n \in 1..N, n - 1 \in T PROVE n \in T
  <2>1. PICK r \in Seq(Lnk) : /\ f[n - 1] = ListOf(r) /\ Len(r) = n - 1
                              /\ \A i \in 1..n - 1 : r[i] = recs[i]
    BY <1>16
  <2> DEFINE u == Append(r, recs[n])
  <2>2. f[n] = ListOf(u) /\ u \in Seq(Lnk)
    BY <1>2, <1>4, <1>14, <2>1
  <2>3. Len(u) = n /\ \A i \in 1..n : u[i] = recs[i]
    BY <1>2, <2>1, AppendProperties
  <2> HIDE DEF u
  <2> QED BY <1>2, <2>2, <2>3
<1>17. \A n \in 0..N : n \in T
  <2> HIDE DEF T
  <2> QED BY <1>2, <1>15, <1>16, BoundedInduction
<1>18. PICK r \in Seq(Lnk) : f[N] = ListOf(r) /\ Len(r) = N /\ \A i \in 1..N : r[i] = recs[i]
  <2>1. N \in 0..N
    BY <1>2
  <2>2. N \in T
    BY <1>17, <2>1
  <2> QED BY <2>2
<1>19. r = recs
  BY <1>2, <1>18, SeqEqual
<1> QED BY <1>1, <1>2, <1>13, <1>18, <1>19

LEMMA Reloads ==
  ASSUME NEW s, Sorted(Links(s))
  PROVE  LET t == retrieveShell(storeShell(s))
         IN Fine(t) /\ t.lh.type = "UNSORTED" /\ Links(t) = Links(s) /\ t.isUnique = s.isUnique
<1> DEFINE q == Links(s)
           r == [initShell(s.isUnique) EXCEPT !.lh = ListOf(q)]
           t == retrieveShell(storeShell(s))
<1>1. t = restructureShellNodes(r)
  <2>1. retrieved(q) = ListOf(q)
    BY ReadsAll DEF Sorted
  <2> QED BY <2>1 DEF retrieveShell, storeShell, stored, fileWriteBlock, Links
<1>2. Rec(r) /\ r.lh = ListOf(q) /\ r.isUnique = s.isUnique
  BY DEF initShell, Rec
<1> HIDE DEF r
<1>3. Links(r) = q
  BY <1>2 DEF Links, ListOf
<1>4. /\ Rec(t) /\ t.lh = r.lh /\ t.isUnique = r.isUnique /\ Leads(Links(t), t.nodes, t.level)
  BY <1>1, <1>2, <1>3, Restructures
<1> HIDE DEF t
<1>5. Links(t) = q /\ t.lh.type = "UNSORTED" /\ Lst(t.lh)
  BY <1>2, <1>4 DEF Links, ListOf, Lst
<1> QED BY <1>2, <1>4, <1>5 DEF Fine, t

-----------------------------------------------------------------------------
(* A run of the shell.  The list was never sorted by sortLinks, so that    *)
(* its type stays what initShell gave it.                                  *)
ShellInv == shape \in Shapes /\ ShellOk(shl) /\ shl.lh.type = "UNSORTED"

LEMMA FreshIsNew ==
  ASSUME shape \in Shapes, NEW k \in shape.keys, NEW l \in Fresh(k)
  PROVE  l \in Lnk /\ l \notin ToSet(Links(shl))
<1> DEFINE free == {i \in 1..shape.copies : [key |-> k, id |-> i] \notin Present}
<1>1. k \in Int /\ shape.copies \in Nat
  BY ShapesAssumption
<1>2. free # {} /\ l = [key |-> k, id |-> Min(free)]
  BY DEF Fresh
<1>3. free \in SUBSET Nat
  BY <1>1
<1>4. Min(free) \in free
  <2> HIDE DEF free
  <2> QED BY <1>2, <1>3, MinOfSome
<1> QED BY <1>1, <1>2, <1>4 DEF Lnk, Present

LEMMA TakenKeeps ==
  ASSUME NEW s, ShellOk(s), s.lh.type = "UNSORTED"
  PROVE  ShellOk(Taken(s)) /\ Taken(s).lh.type = "UNSORTED"
<1>1. Looks(s, Taken(s))
  BY Answers DEF ShellOk
<1> QED BY <1>1, LooksKeeps DEF Looks

LEMMA NewShell ==
  ASSUME NEW u
  PROVE  LET s == initShell(u)
         IN Fine(s) /\ Links(s) = <<>> /\ s.lh.type = "UNSORTED"
<1> DEFINE s == initShell(u)
<1>1. Links(s) = <<>> /\ s.nodes = <<>> /\ s.level = <<>> /\ s.lh.type = "UNSORTED"
  BY DEF initShell, InitList, Links
<1>2. Rec(s) /\ Lst(s.lh)
  BY DEF initShell, InitList, Rec, Lst
<1>3. ToSet(<<>>) = {}
  BY DEF ToSet
<1>4. Sorted(Links(s))
  BY <1>1, EmptySeq DEF Sorted, Distinct, Ordered
<1>5. Leads(Links(s), s.nodes, s.level)
  BY <1>1, <1>3, EmptySeq DEF Leads, Rising, LevelsLead
<1> HIDE DEF s
<1> QED BY <1>1, <1>2, <1>4, <1>5 DEF Fine, s

LEMMA ShellStarts ==
  ASSUME ShellInit
  PROVE  ShellInv
BY NewShell, FineOk DEF ShellInit, ShellInv

LEMMA ShellSteps ==
  ASSUME ShellInv, [ShellNext]_shellVars
  PROVE  ShellInv'
<1>1. shape \in Shapes /\ ShellOk(shl) /\ shl.lh.type = "UNSORTED"
  BY DEF ShellInv
<1>2. ASSUME NEW k, NEW heavy, Add(k, heavy) PROVE ShellInv'
  <2>1. /\ k \in shape.keys /\ Fine(shl) /\ shape' = shape
    BY <1>1, <1>2, FineOk DEF Add
  <2>2. PICK l \in Fresh(k) : shl' = Taken(addShellItem(shl, l, heavy))
    BY <1>2 DEF Add
  <2>3. l \in Lnk /\ l \notin ToSet(Links(shl))
    BY <1>1, <2>1, FreshIsNew
  <2>4. AddedTo(shl, l, addShellItem(shl, l, heavy))
    BY <2>1, <2>3, Adds
  <2>5. ShellOk(addShellItem(shl, l, heavy)) /\ addShellItem(shl, l, heavy).lh.type = "UNSORTED"
    BY <1>1, <2>4, FineOk DEF AddedTo
  <2> QED BY <1>1, <2>1, <2>2, <2>5, TakenKeeps DEF ShellInv
<1>3. ASSUME NEW k, NEW heavy, Find(k, heavy) PROVE ShellInv'
  <2>1. /\ Fine(shl) /\ shape' = shape /\ shl' = Taken(findShellItem(shl, k, heavy))
    BY <1>1, <1>3, FineOk DEF Find
  <2>2. Keeps(shl, findShellItem(shl, k, heavy))
    BY <2>1, FindKeeps
  <2>3. ShellOk(findShellItem(shl, k, heavy)) /\ findShellItem(shl, k, heavy).lh.type = "UNSORTED"
    BY <1>1, <2>2, FineOk DEF Keeps
  <2> QED BY <1>1, <2>1, <2>3, TakenKeeps DEF ShellInv
<1>4. ASSUME NEW k, NEW heavy, QueryFor(k, heavy) PROVE ShellInv'
  <2>1. /\ Fine(shl) /\ shape' = shape /\ shl' = Taken(queryShellItem(shl, k, heavy))
    BY <1>1, <1>4, FineOk DEF QueryFor
  <2>2. Keeps(shl, queryShellItem(shl, k, heavy))
    BY <2>1, FindKeeps
  <2>3. ShellOk(queryShellItem(shl, k, heavy)) /\ queryShellItem(shl, k, heavy).lh.type = "UNSORTED"
    BY <1>1, <2>2, FineOk DEF Keeps
  <2> QED BY <1>1, <2>1, <2>3, TakenKeeps DEF ShellInv
<1>5. ASSUME RemoveItem PROVE ShellInv'
  <2>1. Fine(shl) /\ shape' = shape
    BY <1>1, <1>5, FineOk DEF RemoveItem
  <2>2. PICK l \in ToSet(Links(shl)) : shl' = Taken(removeShellItem(shl, l))
    BY <1>5 DEF RemoveItem, Present
  <2>3. ShellOk(removeShellItem(shl, l)) /\ removeShellItem(shl, l).lh.type = "UNSORTED"
    BY <1>1, <2>1, Removes DEF RemovedFrom
  <2> QED BY <1>1, <2>1, <2>2, <2>3, TakenKeeps DEF ShellInv
<1>6. ASSUME Reload PROVE ShellInv'
  <2>1. shape' = shape /\ shl' = Taken(retrieveShell(storeShell(shl)))
    BY <1>6 DEF Reload
  <2>2. Sorted(Links(shl))
    BY <1>1 DEF ShellOk
  <2>3. /\ ShellOk(retrieveShell(storeShell(shl)))
        /\ retrieveShell(storeShell(shl)).lh.type = "UNSORTED"
    BY <2>2, Reloads, FineOk
  <2> QED BY <1>1, <2>1, <2>3, TakenKeeps DEF ShellInv
<1>7. ASSUME UNCHANGED <<shl, shape>> PROVE ShellInv'
  BY <1>1, <1>7 DEF ShellInv
<1>8. ASSUME NEW k, NEW heavy, AddWord(k, heavy) \/ FindWord(k, heavy) PROVE ShellInv'
  BY <1>7, <1>8 DEF AddWord, FindWord
<1> QED BY <1>2, <1>3, <1>4, <1>5, <1>6, <1>7, <1>8 DEF ShellNext, shellVars

LEMMA ShellStays == ShellSpec => []ShellInv
BY ShellStarts, ShellSteps, PTL DEF ShellSpec

(* addShellItem, removeShellItem and retrieveShell leave the list in the   *)
(* order of its keys, however many nodes and levels the walk to the place  *)
(* of a new link has gone through, been refused on, or made.               *)
THEOREM LinksStayInOrder == ShellSpec => []LinksInOrder
<1>1. ASSUME ShellInv PROVE LinksInOrder
  BY <1>1 DEF ShellInv, ShellOk, Sorted, Ordered, LinksInOrder
<1> QED BY <1>1, ShellStays, PTL

(* After every call of addShellItem, findShellItem, queryShellItem,        *)
(* removeShellItem or retrieveShell the nodes point at links of the list   *)
(* in its order, and each pointer of a level leads to a node behind its    *)
(* own: a walk along them ends.  In a shell that admits equal keys that    *)
(* holds until removeShellItem frees the link of a node it did not look at.*)
THEOREM NodesStayLeading == ShellSpec => []NodesLeadOn
<1>1. ASSUME ShellInv PROVE NodesLeadOn
  <2>1. ShellOk(shl)
    BY <1>1 DEF ShellInv
  <2>2. shl.isUnique => Intact(shl)
    BY <2>1 DEF ShellOk
  <2>3. ASSUME Intact(shl) PROVE Fine(shl)
    BY <2>1, <2>3, FineOk
  <2> DEFINE at(n) == Pos(shl, n)
  <2>4. ASSUME Intact(shl), NEW i \in DOMAIN shl.nodes, NEW j \in DOMAIN shl.nodes, i < j
        PROVE  at(shl.nodes[i]) < at(shl.nodes[j])
    <3>1. Before(Links(shl), shl.nodes[i], shl.nodes[j])
      BY <2>3, <2>4 DEF Fine, Leads, Rising
    <3>2. shl.nodes[i] \in ToSet(Links(shl)) /\ shl.nodes[j] \in ToSet(Links(shl))
      BY <2>3, <2>4, FineNodes
    <3>3. Links(shl) \in Seq(Lnk) /\ Distinct(Links(shl))
      BY <2>1 DEF ShellOk, Sorted
    <3>4. \A x : at(x) = Place(Links(shl), x)
      BY DEF Pos, Place
    <3> QED BY <3>1, <3>2, <3>3, <3>4, BeforePlaces
  <2>5. ASSUME Intact(shl), NEW n \in DOMAIN shl.level, NEW i \in Levels, shl.level[n][i] # TAIL
        PROVE  at(n) < at(shl.level[n][i])
    <3>1. Before(Links(shl), n, shl.level[n][i])
      BY <2>3, <2>5 DEF Fine, Leads, LevelsLead
    <3>2. n \in ToSet(Links(shl)) /\ shl.level[n][i] \in ToSet(Links(shl))
      BY <3>1 DEF Before, ToSet
    <3>3. Links(shl) \in Seq(Lnk) /\ Distinct(Links(shl))
      BY <2>1 DEF ShellOk, Sorted
    <3>4. \A x : at(x) = Place(Links(shl), x)
      BY DEF Pos, Place
    <3> QED BY <3>1, <3>2, <3>3, <3>4, BeforePlaces
  <2> QED BY <2>2, <2>4, <2>5 DEF NodesLeadOn
<1> QED BY <1>1, ShellStays, PTL

-----------------------------------------------------------------------------
(* The walk from there ends at the first link that is not below the key,   *)
(* but for a key a sole node hides.                                        *)
LEMMA LocateFacts ==
  ASSUME NEW s, Fine(s), s.nodes # <<>>, Links(s) # <<>>, NEW k \in Int,
         First(s).key < k, k < LastOf(s).key, ~Blind(s, k)
  PROVE  Locate(s, k).pos = NotBelow(Links(s), k)
<1> DEFINE q == Links(s)
           n == Len(s.nodes)
<1>1. /\ n \in Nat /\ DOMAIN s.nodes = 1..n /\ Distinct(s.nodes)
      /\ s.nodes \in Seq(ToSet(q))
      /\ \A i \in 1..n : s.nodes[i] \in ToSet(q) /\ s.nodes[i].key \in Int
  BY FineNodes
<1>2. /\ q \in Seq(Lnk) /\ Len(q) \in Nat \ {0} /\ DOMAIN q = 1..Len(q) /\ Sorted(q)
      /\ q[1].key < k /\ k <= q[Len(q)].key /\ \A i \in 1..Len(q) : q[i].key \in Int
  BY EndsFacts DEF Fine, Sorted
<1>3. PICK j, start : SearchFrom(s, k, j, start)
  BY LocateStarts
<1>8. j \in 2..n + 1 /\ j - 1 \in 1..n /\ j \in Nat
  BY <1>1, <1>3 DEF SearchFrom
<1>9. j = 2 \/ s.nodes[j - 1].key < k
  BY <1>3 DEF SearchFrom
<1>10. Pos(s, s.nodes[j - 1]) \in 1..Len(q) /\ q[Pos(s, s.nodes[j - 1])] = s.nodes[j - 1]
  BY <1>3 DEF SearchFrom
<1>11. Locate(s, k).pos = StopAt(q, start, k)
  BY <1>3 DEF SearchFrom
<1>16. start = IF j = 2 /\ n > 1 THEN 1 ELSE Pos(s, s.nodes[j - 1])
  BY <1>3 DEF SearchFrom
<1>12. ASSUME start \in 1..Len(q), q[start].key < k
       PROVE  StopAt(q, start, k) = NotBelow(q, k)
  <2>1. /\ StopAt(q, start, k) \in start + 1..Len(q)
        /\ \A i \in 1..StopAt(q, start, k) - 1 : q[i].key < k
        /\ \A i \in StopAt(q, start, k)..Len(q) : k <= q[i].key
    BY <1>2, <1>12, StopFacts
  <2>2. /\ StopAt(q, start, k) \in 1..Len(q)
        /\ StopAt(q, start, k) \in StopAt(q, start, k)..Len(q)
    BY <1>2, <1>12, <2>1
  <2> QED BY <1>2, <2>1, <2>2, OnePlace
<1>13. CASE j = 2 /\ n > 1
  BY <1>2, <1>11, <1>12, <1>13, <1>16
<1>14. CASE ~(j = 2 /\ n > 1) /\ s.nodes[j - 1].key < k
  BY <1>10, <1>11, <1>12, <1>14, <1>16
<1>15. CASE j = 2 /\ ~(n > 1) /\ ~(s.nodes[j - 1].key < k)
  <2>1. n = 1 /\ s.nodes[j - 1] = Head(s.nodes) /\ j - 1 = 1
    <3>1. 1 <= n /\ n \in Nat /\ ~(n > 1) /\ j = 2 /\ j \in Nat
      BY <1>1, <1>8, <1>15
    <3>2. n = 1
      <4> HIDE DEF n
      <4> QED BY <3>1
    <3>4. j - 1 = 1
      BY <3>1
    <3>3. Head(s.nodes) = s.nodes[1]
      BY <1>1
    <3> QED BY <3>2, <3>3, <3>4
  <2> DEFINE p == NotBelow(q, k)
             b == Pos(s, Head(s.nodes))
             B == {i \in b..Len(q) : k <= q[i].key}
  <2>2. /\ p \in 1..Len(q) + 1 /\ \A i \in 1..p - 1 : q[i].key < k
    BY <1>2, NotBelowFacts
  <2>3. ~(p < b)
    BY <2>1 DEF Blind, FirstEqual
  <2>4. b \in 1..Len(q) /\ k <= q[b].key
    BY <1>1, <1>8, <1>10, <1>15, <2>1
  <2> HIDE DEF p, b
  <2>5. b \notin 1..p - 1
    BY <1>2, <2>2, <2>4
  <2>6. p = b
    BY <1>2, <2>2, <2>3, <2>4, <2>5
  <2>7. StopAt(q, b, k) = b
    <3>1. B \in SUBSET Nat /\ b \in B /\ \A y \in B : b <= y
      BY <1>2, <2>4
    <3>2. StopAt(q, b, k) = Min(B)
      BY DEF StopAt
    <3>3. Min(B) \in B /\ \A y \in B : Min(B) <= y
      <4> HIDE DEF B
      <4> QED BY <3>1, MinOfSome
    <3> QED BY <3>1, <3>2, <3>3
  <2>8. start = b
    BY <1>15, <1>16, <2>1 DEF b
  <2> QED BY <1>11, <2>6, <2>7, <2>8 DEF p
<1> QED BY <1>9, <1>13, <1>14, <1>15

LEMMA Returns ==
  ASSUME NEW s, Rec(s)
  PROVE  /\ Nothing(s).ret = NONE
         /\ \A p : Answer(s, p).ret = Links(s)[p]
         /\ \A p, n : Found(s, p, n).ret = Links(s)[p]
BY DEF Rec, Nothing, Answer, Found, Links

(* What findShellItem and queryShellItem give, if the list has p as the    *)
(* first position that is not below k.                                     *)
FoundRight(s, k, p) ==
  LET q == Links(s)
      held == p <= Len(q) /\ q[p].key = k
      f == FindIn(s, k).ret
      g == QueryIn(s, k).ret
  IN /\ held => f \in Lnk /\ f.key = k
     /\ ~held => f = NONE
     /\ held => g \in ToSet(q) /\ g.key = k
     /\ held /\ ~s.isUnique => g = q[p]
     /\ ~held => g = q[Max({p - 1, 1})]

LEMMA SearchesWithoutNodes ==
  ASSUME NEW s, Fine(s), Links(s) # <<>>, s.nodes = <<>>, NEW k \in Int
  PROVE  FoundRight(s, k, NotBelow(Links(s), k))
<1> DEFINE q == Links(s)
           p == NotBelow(q, k)
<1>1. /\ Len(q) \in Nat \ {0} /\ DOMAIN q = 1..Len(q) /\ Rec(s)
      /\ \A i \in 1..Len(q) : q[i] \in ToSet(q) /\ q[i] \in Lnk
  BY EndsFacts, FineNodes DEF Fine
<1>2. p \in 1..Len(q) + 1
  BY NotBelowFacts DEF Fine
<1>3. FindIn(s, k) = FindAt(s, k, p, s.node) /\ QueryIn(s, k) = QueryWithoutNodes(s, k, p)
  BY DEF FindIn, QueryIn, FirstEqual
<1> HIDE DEF p
<1>4. FindIn(s, k).ret = IF p <= Len(q) /\ q[p].key = k THEN q[p] ELSE NONE
  BY <1>1, <1>3, Returns DEF FindAt
<1>5. QueryIn(s, k).ret = IF p > Len(q) THEN q[Len(q)]
                          ELSE IF q[p].key = k THEN q[p] ELSE q[Max({p - 1, 1})]
  BY <1>1, <1>3, Returns DEF QueryWithoutNodes
<1>6. p > Len(q) => p = Len(q) + 1 /\ Max({p - 1, 1}) = Len(q) /\ ~(p <= Len(q))
  BY <1>1, <1>2, BeforeOrFirst
<1>7. p <= Len(q) => q[p] \in ToSet(q) /\ q[p] \in Lnk /\ ~(p > Len(q))
  BY <1>1, <1>2
<1>8. p > Len(q) \/ p <= Len(q)
  BY <1>1, <1>2
<1> QED BY <1>4, <1>5, <1>6, <1>7, <1>8 DEF FoundRight, p

LEMMA SearchesWithNodes ==
  ASSUME NEW s, Fine(s), Links(s) # <<>>, s.nodes # <<>>, NEW k \in Int, ~Blind(s, k)
  PROVE  FoundRight(s, k, NotBelow(Links(s), k))
<1> DEFINE q == Links(s)
           p == NotBelow(q, k)
           held == p <= Len(q) /\ q[p].key = k
           f == FindIn(s, k).ret
           g == QueryIn(s, k).ret
<1>1. /\ Len(q) \in Nat \ {0} /\ First(s) = q[1] /\ LastOf(s) = q[Len(q)] /\ Rec(s) /\ Sorted(q)
      /\ \A i \in 1..Len(q) : q[i] \in ToSet(q) /\ q[i] \in Lnk /\ q[i].key \in Int
                              /\ q[i].key <= LastOf(s).key
  BY EndsFacts, FineNodes DEF Fine
<1>2. /\ p \in 1..Len(q) + 1
      /\ \A i \in 1..p - 1 : q[i].key < k
      /\ \A i \in p..Len(q) : k <= q[i].key
  BY <1>1, NotBelowFacts
<1>3. FirstEqual(s, k) = p
  BY DEF FirstEqual
<1>4. p <= Len(q) => p \in 1..Len(q) /\ q[p] \in ToSet(q) /\ q[p] \in Lnk
  BY <1>1, <1>2
<1> HIDE DEF p
<1>5. CASE k = First(s).key
  <2>1. p = 1
    <3>1. 1 \notin 1..p - 1
      BY <1>1, <1>2, <1>5
    <3> QED BY <1>2, <3>1
  <2>2. held
    BY <1>1, <1>5, <2>1
  <2>3. f = q[1] /\ g = q[1]
    <3>1. /\ FindIn(s, k) = Answer([s EXCEPT !.node = Head(s.nodes)], 1)
          /\ QueryIn(s, k) = Answer([s EXCEPT !.node = Head(s.nodes)], 1)
      BY <1>5 DEF FindIn, QueryIn
    <3> QED BY <1>1, <3>1 DEF Answer, Nothing, Links, Rec
  <2> QED BY <1>4, <2>1, <2>2, <2>3 DEF FoundRight, p
<1>6. CASE k < First(s).key
  <2>1. p = 1 /\ ~held
    <3>1. 1 \notin 1..p - 1 /\ q[1].key # k
      BY <1>1, <1>2, <1>6
    <3>2. p = 1
      BY <1>2, <3>1
    <3> QED BY <3>1, <3>2
  <2>2. k # First(s).key /\ k # LastOf(s).key /\ First(s).key <= LastOf(s).key
    BY <1>1, <1>6
  <2>3. f = NONE /\ g = q[1]
    BY <1>1, <1>6, <2>2, Returns DEF FindIn, QueryIn
  <2>4. Max({p - 1, 1}) = 1
    <3>1. p \in Nat \ {0}
      BY <2>1
    <3> QED BY <2>1, <3>1, BeforeOrFirst
  <2> QED BY <2>1, <2>3, <2>4 DEF FoundRight, p
<1>7. CASE k > LastOf(s).key
  <2>1. p = Len(q) + 1 /\ ~held
    <3>1. \A i \in 1..Len(q) : ~(k <= q[i].key)
      BY <1>1, <1>7
    <3>2. ~(p <= Len(q))
      BY <1>1, <1>2, <3>1
    <3> QED BY <1>1, <1>2, <3>2
  <2>2. ~(k < First(s).key) /\ k # First(s).key /\ k # LastOf(s).key
    BY <1>1, <1>7
  <2>3. f = NONE /\ g = q[Len(q)]
    <3>1. /\ FindIn(s, k) = Nothing(s)
          /\ QueryIn(s, k) = Answer([s EXCEPT !.node = Last(s.nodes)], Len(q))
      BY <1>7, <2>2 DEF FindIn, QueryIn
    <3> QED BY <1>1, <3>1 DEF Answer, Nothing, Links, Rec
  <2>4. Max({p - 1, 1}) = Len(q)
    <3>1. p \in Nat \ {0} /\ (p = 1 \/ p - 1 = Len(q)) /\ p # 1
      BY <1>1, <2>1
    <3> QED BY <3>1, BeforeOrFirst
  <2> QED BY <2>1, <2>3, <2>4 DEF FoundRight, p
<1>8. CASE k = LastOf(s).key /\ k # First(s).key
  <2>1. ~(k < First(s).key) /\ ~(k > LastOf(s).key)
    BY <1>1, <1>8
  <2>2. held
    <3>1. Len(q) \in 1..Len(q) /\ q[Len(q)].key = k
      BY <1>1, <1>8
    <3>2. k \in {l.key : l \in ToSet(q)}
      BY <1>1, <3>1
    <3> QED BY <1>1, <3>2, HeldThere DEF p
  <2>3. f = q[p]
    <3>1. FindIn(s, k) = Answer([s EXCEPT !.node = Last(s.nodes)], p)
      BY <1>3, <1>8 DEF FindIn
    <3> QED BY <1>1, <3>1 DEF Answer, Nothing, Links, Rec
  <2>4. g = IF s.isUnique THEN q[Len(q)] ELSE q[p]
    <3>1. QueryIn(s, k) = IF s.isUnique THEN Answer(s, Len(q))
                          ELSE Answer([s EXCEPT !.node = Last(s.nodes)], p)
      BY <1>3, <1>8, <2>1 DEF QueryIn
    <3> QED BY <1>1, <3>1 DEF Answer, Nothing, Links, Rec
  <2>5. q[Len(q)] \in ToSet(q) /\ q[Len(q)].key = k
    BY <1>1, <1>8
  <2> QED BY <1>4, <2>2, <2>3, <2>4, <2>5 DEF FoundRight, p
<1>9. CASE First(s).key < k /\ k < LastOf(s).key
  <2>1. /\ ~(k < First(s).key) /\ ~(k > LastOf(s).key)
        /\ k # First(s).key /\ k # LastOf(s).key
    BY <1>1, <1>9
  <2> DEFINE w == Locate(s, k)
  <2>2. w.pos = p
    BY <1>9, LocateFacts DEF p
  <2>3. FindIn(s, k) = FindAt(s, k, w.pos, w.node) /\ QueryIn(s, k) = QueryAt(s, k, w.pos, w.node)
    BY <2>1 DEF FindIn, QueryIn
  <2> HIDE DEF w
  <2>4. f = IF held THEN q[p] ELSE NONE
    BY <1>1, <2>2, <2>3, Returns DEF FindAt
  <2>5. g = q[IF q[p].key = k THEN p ELSE Max({p - 1, 1})]
    BY <1>1, <2>2, <2>3, Returns DEF QueryAt
  <2>6. p <= Len(q)
    <3>1. Len(q) \notin 1..p - 1
      BY <1>1, <1>2, <1>9
    <3> QED BY <1>1, <1>2, <3>1
  <2> QED BY <1>4, <2>4, <2>5, <2>6 DEF FoundRight, p
<1>10. k = First(s).key \/ k < First(s).key \/ k > LastOf(s).key
         \/ (k = LastOf(s).key /\ k # First(s).key) \/ (First(s).key < k /\ k < LastOf(s).key)
  BY <1>1
<1> QED BY <1>5, <1>6, <1>7, <1>8, <1>9, <1>10

LEMMA Searches ==
  ASSUME NEW s, Fine(s), Links(s) # <<>>, NEW k \in Int, ~Blind(s, k)
  PROVE  LET held == k \in {l.key : l \in ToSet(Links(s))}
             p == NotBelow(Links(s), k)
             f == findShellItem(s, k, FALSE).ret
             g == queryShellItem(s, k, FALSE).ret
         IN /\ held <=> f # NONE
            /\ held => f.key = k
            /\ held => g \in ToSet(Links(s)) /\ g.key = k
            /\ held /\ ~s.isUnique => g = Links(s)[p]
            /\ ~held => g = Links(s)[Max({p - 1, 1})]
<1> DEFINE p == NotBelow(Links(s), k)
<1>1. FoundRight(s, k, p)
  BY SearchesWithoutNodes, SearchesWithNodes
<1>2. /\ findShellItem(s, k, FALSE) = FindIn(s, k)
      /\ queryShellItem(s, k, FALSE) = QueryIn(s, k)
  BY DEF findShellItem, queryShellItem, Balance
<1>3. k \in {l.key : l \in ToSet(Links(s))} <=> p <= Len(Links(s)) /\ Links(s)[p].key = k
  BY HeldThere DEF Fine
<1>4. NONE \notin Lnk
  BY NoneAssumption, ResultsAssumption DEF Lnk
<1> HIDE DEF p
<1> QED BY <1>1, <1>2, <1>3, <1>4 DEF FoundRight, p

(* findShellItem finds a link if and only if the shell holds one with the  *)
(* key, and queryShellItem the first such link, or the last one below the  *)
(* key: whatever nodes and levels the calls before made, the walk through  *)
(* them never passes the place of the key.  Only a sole node hides the     *)
(* links before it (sort.c:3471).                                          *)
THEOREM SearchesStayExact == ShellSpec => []SearchesExact
<1>1. ASSUME ShellInv PROVE SearchesExact
  <2>1. SUFFICES ASSUME Intact(shl), Links(shl) # <<>>, NEW k \in shape.keys, ~Blind(shl, k)
        PROVE  LET held == k \in {l.key : l \in Present}
                   p == FirstEqual(shl, k)
               IN /\ held <=> findShellItem(shl, k, FALSE).ret # NONE
                  /\ held => findShellItem(shl, k, FALSE).ret.key = k
                  /\ held => queryShellItem(shl, k, FALSE).ret \in {l \in Present : l.key = k}
                  /\ held /\ ~shl.isUnique => queryShellItem(shl, k, FALSE).ret = Links(shl)[p]
                  /\ ~held => queryShellItem(shl, k, FALSE).ret = Links(shl)[Max({p - 1, 1})]
    BY DEF SearchesExact
  <2>2. Fine(shl) /\ k \in Int
    BY <1>1, <2>1, FineOk, ShapesAssumption DEF ShellInv
  <2> QED BY <2>1, <2>2, Searches DEF Present, FirstEqual
<1> QED BY <1>1, ShellStays, PTL

-----------------------------------------------------------------------------
(* The hash.  Every bucket is a shell that is never removed from.  Of the  *)
(* links with one key each has a number that counts them at most.          *)
KeysOf(s) == {l.key : l \in ToSet(Links(s))}
Alike(s, k) == {l \in ToSet(Links(s)) : l.key = k}
Numbered(s) == \A l \in ToSet(Links(s)) : l.id \in 1..Cardinality(Alike(s, l.key))

HashOk(h, w, hash) ==
  /\ h = [number |-> h.number, shls |-> h.shls, ret |-> h.ret, error |-> h.error]
  /\ h.shls = [b \in Range(hash) |-> h.shls[b]]
  /\ \A b \in Range(hash) : Fine(h.shls[b]) /\ Numbered(h.shls[b])
  /\ IsFiniteSet(Filled(h)) /\ h.number = Cardinality(Filled(h))
  /\ \A k \in DOMAIN hash : k \in w <=> k \in KeysOf(h.shls[hash[k]])

(* The buckets hold what they did.                                         *)
LEMMA SameBuckets ==
  ASSUME NEW h, NEW w, NEW v, NEW hash, HashOk(h, w, hash), NEW g,
         g = [number |-> g.number, shls |-> g.shls, ret |-> g.ret, error |-> g.error],
         g.shls = [b \in Range(hash) |-> g.shls[b]], g.number = h.number,
         \A b \in Range(hash) : Fine(g.shls[b]) /\ Links(g.shls[b]) = Links(h.shls[b]),
         \A k \in DOMAIN hash : k \in v <=> k \in w
  PROVE  HashOk(g, v, hash)
<1>1. \A b \in Range(hash) : Numbered(g.shls[b]) /\ KeysOf(g.shls[b]) = KeysOf(h.shls[b])
  BY DEF HashOk, Numbered, Alike, KeysOf
<1>2. DOMAIN g.shls = Range(hash) /\ DOMAIN h.shls = Range(hash)
  BY DEF HashOk
<1>3. Filled(g) = Filled(h)
  BY <1>2 DEF Filled
<1>4. \A k \in DOMAIN hash : hash[k] \in Range(hash)
  BY DEF Range
<1> QED BY <1>1, <1>3, <1>4 DEF HashOk

LEMMA LinksFinite ==
  ASSUME NEW s, Fine(s)
  PROVE  IsFiniteSet(ToSet(Links(s)))
<1> DEFINE q == Links(s)
           S == ToSet(q)
<1>1. Len(q) \in Nat /\ DOMAIN q = 1..Len(q)
  BY FineNodes
<1>2. q \in [1..Len(q) -> S] /\ \A x \in S : \E m \in 1..Len(q) : q[m] = x
  <2>1. q = [m \in 1..Len(q) |-> q[m]]
    BY FineNodes
  <2> QED BY <1>1, <2>1 DEF ToSet
<1>3. ExistsSurjection(1..Len(q), S)
  <2> HIDE DEF q, S
  <2> QED BY <1>2 DEF ExistsSurjection, Surjection
<1> QED BY <1>1, <1>3, FS_NatSurjection

(* The link addHashItem makes.                                             *)
NextLike(s, k) == [key |-> k, id |-> 1 + Cardinality(Alike(s, k))]

LEMMA NextIsNew ==
  ASSUME NEW s, Fine(s), Numbered(s), NEW k \in Int
  PROVE  NextLike(s, k) \in Lnk /\ NextLike(s, k) \notin ToSet(Links(s))
<1> DEFINE c == Cardinality(Alike(s, k))
<1>1. c \in Nat
  BY LinksFinite, FS_Subset, FS_CardinalityType DEF Alike
<1>2. \A l \in ToSet(Links(s)) : l.key = k => l.id <= c
  BY <1>1 DEF Numbered
<1> HIDE DEF c
<1>3. NextLike(s, k) = [key |-> k, id |-> 1 + c]
  BY DEF NextLike, c
<1> QED BY <1>1, <1>2, <1>3 DEF Lnk

LEMMA NumberedStill ==
  ASSUME NEW s, Fine(s), Numbered(s), NEW k \in Int, NEW t, Fine(t),
         ToSet(Links(t)) = ToSet(Links(s)) \cup {NextLike(s, k)}
  PROVE  Numbered(t)
<1> DEFINE l == NextLike(s, k)
<1>1. l \in Lnk /\ l \notin ToSet(Links(s)) /\ l.key = k /\ l.id = 1 + Cardinality(Alike(s, k))
  BY NextIsNew DEF NextLike
<1>2. \A x : IsFiniteSet(Alike(s, x)) /\ Cardinality(Alike(s, x)) \in Nat
  BY LinksFinite, FS_Subset, FS_CardinalityType DEF Alike
<1> HIDE DEF l
<1>3. Alike(t, k) = Alike(s, k) \cup {l} /\ l \notin Alike(s, k)
  BY <1>1 DEF Alike, l
<1>4. Cardinality(Alike(t, k)) = Cardinality(Alike(s, k)) + 1
  BY <1>2, <1>3, FS_AddElement
<1>5. \A x : x # k => Alike(t, x) = Alike(s, x)
  BY <1>1 DEF Alike, l
<1>6. ASSUME NEW m \in ToSet(Links(t)) PROVE m.id \in 1..Cardinality(Alike(t, m.key))
  <2>1. CASE m = l
    BY <1>1, <1>2, <1>4, <2>1
  <2>2. CASE m \in ToSet(Links(s))
    <3>1. m.id \in 1..Cardinality(Alike(s, m.key))
      BY <2>2 DEF Numbered
    <3>2. CASE m.key = k
      BY <1>2, <1>4, <3>1, <3>2
    <3>3. CASE m.key # k
      BY <1>5, <3>1, <3>3
    <3> QED BY <3>2, <3>3
  <2> QED BY <2>1, <2>2 DEF l
<1> QED BY <1>6 DEF Numbered

(* The link goes into the bucket b of its key.                             *)
LEMMA WordAdded ==
  ASSUME NEW h, NEW w, NEW hash, HashOk(h, w, hash), NEW k \in DOMAIN hash, k \in Int, NEW g,
         g = [number |-> g.number, shls |-> g.shls, ret |-> g.ret, error |-> g.error],
         g.shls = [b \in Range(hash) |-> g.shls[b]], g.number = h.number + 1,
         \A b \in Range(hash) : b # hash[k] => g.shls[b] = h.shls[b],
         Fine(g.shls[hash[k]]),
         LET s == h.shls[hash[k]]
             t == g.shls[hash[k]]
         IN /\ ToSet(Links(t)) = ToSet(Links(s)) \cup {NextLike(s, k)}
            /\ Len(Links(t)) = Len(Links(s)) + 1
  PROVE  HashOk(g, w \cup {k}, hash)
<1> DEFINE c == hash[k]
           s == h.shls[c]
           t == g.shls[c]
           n == Len(Links(t))
<1>1. c \in Range(hash) /\ \A x \in DOMAIN hash : hash[x] \in Range(hash)
  BY DEF Range
<1>2. Fine(s) /\ Numbered(s)
  BY <1>1 DEF HashOk
<1>3. Numbered(t)
  BY <1>2, NumberedStill
<1>4. \A b \in Range(hash) : Fine(g.shls[b]) /\ Numbered(g.shls[b])
  BY <1>3 DEF HashOk
<1>5. DOMAIN Links(s) = 1..n - 1 /\ DOMAIN Links(t) = 1..n /\ n \in Nat \ {0}
  BY <1>2, FineNodes
<1>6. Filled(g) = Filled(h) \cup {<<c, n>>} /\ <<c, n>> \notin Filled(h)
  <2>1. \A b, i : <<b, i>> \in Filled(h) <=> b \in Range(hash) /\ i \in DOMAIN Links(h.shls[b])
    BY DEF Filled, HashOk
  <2>2. \A b, i : <<b, i>> \in Filled(g) <=> b \in Range(hash) /\ i \in DOMAIN Links(g.shls[b])
    BY DEF Filled
  <2>3. \A p : p \in Filled(g) \/ p \in Filled(h) => p = <<p[1], p[2]>>
    BY DEF Filled
  <2>4. \A i : i \in DOMAIN Links(t) <=> i \in DOMAIN Links(s) \/ i = n
    BY <1>5
  <2>5. n \notin DOMAIN Links(s)
    BY <1>5
  <2> HIDE DEF n
  <2>6. \A b, i : <<b, i>> \in Filled(g) <=> <<b, i>> \in Filled(h) \/ (b = c /\ i = n)
    BY <1>1, <2>1, <2>2, <2>4
  <2>7. <<c, n>> \notin Filled(h)
    BY <2>1, <2>5
  <2>8. \A p : p \in Filled(g) <=> p \in Filled(h) \cup {<<c, n>>}
    BY <2>3, <2>6
  <2> QED BY <2>7, <2>8
<1>7. IsFiniteSet(Filled(g)) /\ g.number = Cardinality(Filled(g))
  <2> DEFINE p == <<c, n>>
             F == Filled(h)
  <2>1. IsFiniteSet(F) /\ h.number = Cardinality(F) /\ Filled(g) = F \cup {p} /\ p \notin F
    BY <1>6 DEF HashOk
  <2> HIDE DEF p, F
  <2>2. IsFiniteSet(F \cup {p}) /\ Cardinality(F \cup {p}) = Cardinality(F) + 1
    BY <2>1, FS_AddElement
  <2> QED BY <2>1, <2>2
<1>8. KeysOf(t) = KeysOf(s) \cup {k}
  <2> DEFINE l == NextLike(s, k)
  <2>1. ToSet(Links(t)) = ToSet(Links(s)) \cup {l} /\ l.key = k
    BY DEF NextLike
  <2> HIDE DEF l, s, t
  <2> QED BY <2>1 DEF KeysOf
<1>9. \A x \in DOMAIN hash : x \in w \cup {k} <=> x \in KeysOf(g.shls[hash[x]])
  <2>1. TAKE x \in DOMAIN hash
  <2>2. x \in w <=> x \in KeysOf(h.shls[hash[x]])
    BY DEF HashOk
  <2>3. CASE hash[x] = c
    BY <1>8, <2>2, <2>3
  <2>4. CASE hash[x] # c
    BY <1>1, <2>2, <2>4
  <2> QED BY <2>3, <2>4
<1> QED BY <1>4, <1>7, <1>9 DEF HashOk

LEMMA WithShellFacts ==
  ASSUME NEW h, NEW w, NEW hash, HashOk(h, w, hash), NEW b \in Range(hash), NEW s, Fine(s)
  PROVE  LET g == WithShell(h, b, s)
         IN /\ g = [number |-> g.number, shls |-> g.shls, ret |-> g.ret, error |-> g.error]
            /\ g.shls = [x \in Range(hash) |-> g.shls[x]]
            /\ g.number = h.number /\ g.ret = s.ret
            /\ \A x \in Range(hash) : x # b => g.shls[x] = h.shls[x]
            /\ Fine(g.shls[b]) /\ Links(g.shls[b]) = Links(s)
<1> DEFINE g == WithShell(h, b, s)
           u == [s EXCEPT !.error = "NOERROR"]
           v == [h.shls EXCEPT ![b] = u]
           e == IF s.error # "NOERROR" THEN s.error ELSE h.error
<1>1. DOMAIN h.shls = Range(hash)
  BY DEF HashOk
<1>2. g = [number |-> h.number, shls |-> v, ret |-> s.ret, error |-> e]
  <2>1. g = [h EXCEPT !.shls = v, !.ret = s.ret, !.error = e]
    BY DEF WithShell
  <2> HIDE DEF g, v, e
  <2> QED BY <2>1 DEF HashOk
<1>3. /\ Rec(u) /\ u.lh = s.lh /\ u.nodes = s.nodes /\ u.level = s.level
  BY DEF Fine, Rec
<1>4. Fine(u) /\ Links(u) = Links(s)
  BY <1>3 DEF Fine, Links
<1> HIDE DEF g, u
<1> QED BY <1>1, <1>2, <1>4 DEF g

LEMMA TakenHash ==
  ASSUME NEW h, NEW w, NEW hash, HashOk(h, w, hash)
  PROVE  HashOk(TakenOf(h), w, hash)
<1> DEFINE g == TakenOf(h)
<1>1. DOMAIN h.shls = Range(hash) /\ \A b \in Range(hash) : Fine(h.shls[b])
  BY DEF HashOk
<1> DEFINE v == [b \in DOMAIN h.shls |-> Taken(h.shls[b])]
<1>2. g = [number |-> h.number, shls |-> v, ret |-> OK, error |-> "NOERROR"]
  <2>1. g = [h EXCEPT !.ret = OK, !.error = "NOERROR", !.shls = v]
    BY DEF TakenOf
  <2> HIDE DEF g, v
  <2> QED BY <2>1 DEF HashOk
<1>3. \A s : Fine(s) => Fine(Taken(s)) /\ Links(Taken(s)) = Links(s)
  <2>1. SUFFICES ASSUME NEW s, Fine(s) PROVE Fine(Taken(s)) /\ Links(Taken(s)) = Links(s)
    OBVIOUS
  <2>2. Looks(s, Taken(s))
    BY <2>1, Answers DEF Fine
  <2> QED BY <2>1, <2>2, LooksKeeps
<1> HIDE DEF g
<1> QED BY <1>1, <1>2, <1>3, SameBuckets DEF g

LEMMA FindsWord ==
  ASSUME NEW h, NEW w, NEW hash, HashOk(h, w, hash), NEW b \in Range(hash), NEW k, NEW heavy
  PROVE  /\ HashOk(findHashItem(h, b, k, heavy), w, hash)
         /\ findHashItem(h, b, k, heavy).ret = findShellItem(h.shls[b], k, heavy).ret
<1> DEFINE s == h.shls[b]
           t == findShellItem(s, k, heavy)
           g == WithShell(h, b, t)
<1>1. \A x \in Range(hash) : Fine(h.shls[x])
  BY DEF HashOk
<1>2. Fine(t) /\ Links(t) = Links(s)
  BY <1>1, FindKeeps DEF Keeps
<1> HIDE DEF t
<1>3. /\ g = [number |-> g.number, shls |-> g.shls, ret |-> g.ret, error |-> g.error]
      /\ g.shls = [x \in Range(hash) |-> g.shls[x]] /\ g.number = h.number
      /\ g.ret = t.ret
      /\ \A x \in Range(hash) : x # b => g.shls[x] = h.shls[x]
      /\ Fine(g.shls[b]) /\ Links(g.shls[b]) = Links(t)
  BY <1>2, WithShellFacts
<1>4. findHashItem(h, b, k, heavy) = g
  BY DEF findHashItem, t
<1> HIDE DEF g
<1>5. \A x \in Range(hash) : Fine(g.shls[x]) /\ Links(g.shls[x]) = Links(h.shls[x])
  BY <1>1, <1>2, <1>3
<1>6. HashOk(g, w, hash)
  BY <1>3, <1>5, SameBuckets
<1> QED BY <1>3, <1>4, <1>6 DEF t

LEMMA AddsWord ==
  ASSUME NEW h, NEW w, NEW hash, HashOk(h, w, hash), NEW k \in DOMAIN hash, k \in Int, NEW heavy
  PROVE  HashOk(addHashItem(h, hash[k], NextLike(h.shls[hash[k]], k), heavy), w \cup {k}, hash)
<1> DEFINE b == hash[k]
           s == h.shls[b]
           l == NextLike(s, k)
           t == addShellItem(s, l, heavy)
           g == WithShell(h, b, t)
           f == addHashItem(h, b, l, heavy)
<1>1. b \in Range(hash) /\ \A x \in Range(hash) : Fine(h.shls[x]) /\ Numbered(h.shls[x])
  BY DEF HashOk, Range
<1>2. AddedTo(s, l, t)
  BY <1>1, NextIsNew, Adds
<1>3. Fine(t)
  BY <1>2 DEF AddedTo
<1> HIDE DEF t
<1>4. /\ g = [number |-> g.number, shls |-> g.shls, ret |-> g.ret, error |-> g.error]
      /\ g.shls = [x \in Range(hash) |-> g.shls[x]] /\ g.number = h.number /\ g.ret = t.ret
      /\ \A x \in Range(hash) : x # b => g.shls[x] = h.shls[x]
      /\ Fine(g.shls[b]) /\ Links(g.shls[b]) = Links(t)
  BY <1>1, <1>3, WithShellFacts
<1>5. f = IF g.ret = NONE THEN g ELSE [g EXCEPT !.number = @ + 1]
  BY DEF addHashItem, t
<1> HIDE DEF g
<1>6. CASE t.ret = NONE
  <2>1. f = g
    BY <1>4, <1>5, <1>6
  <2>2. Links(t) = Links(s) /\ \E m \in ToSet(Links(s)) : m.key = k
    BY <1>2, <1>6, NoneAssumption DEF AddedTo, Links, NextLike
  <2>3. k \in w
    BY <2>2 DEF HashOk, KeysOf
  <2>4. \A x \in Range(hash) : Fine(g.shls[x]) /\ Links(g.shls[x]) = Links(h.shls[x])
    BY <1>1, <1>4, <2>2
  <2> HIDE DEF f
  <2> QED BY <1>4, <2>1, <2>3, <2>4, SameBuckets DEF f
<1>7. CASE t.ret = OK
  <2>1. f = [g EXCEPT !.number = @ + 1]
    BY <1>4, <1>5, <1>7, NoneAssumption
  <2>2. f = [number |-> f.number, shls |-> f.shls, ret |-> f.ret, error |-> f.error]
        /\ f.shls = g.shls /\ f.number = h.number + 1
    BY <1>4, <2>1
  <2>3. ToSet(Links(t)) = ToSet(Links(s)) \cup {l} /\ Len(Links(t)) = Len(Links(s)) + 1
    BY <1>2, <1>7, NoneAssumption DEF AddedTo
  <2> HIDE DEF f
  <2>4. /\ f.shls = [x \in Range(hash) |-> f.shls[x]]
        /\ \A x \in Range(hash) : x # b => f.shls[x] = h.shls[x]
        /\ Fine(f.shls[b]) /\ Links(f.shls[b]) = Links(t)
    BY <1>4, <2>2
  <2> QED BY <2>2, <2>3, <2>4, WordAdded, ZenonT(40) DEF f
<1> QED BY <1>2, <1>6, <1>7 DEF AddedTo

HashInv == shape \in Shapes /\ HashOk(hsh, words, shape.hash)

LEMMA HashStarts ==
  ASSUME ShellInit
  PROVE  HashInv
<1> DEFINE B == Range(shape.hash)
           v == [b \in B |-> initShell(TRUE)]
<1>1. shape \in Shapes /\ words = {} /\ hsh = [number |-> 0, shls |-> v, ret |-> OK, error |-> "NOERROR"]
  BY DEF ShellInit, initHash
<1>2. /\ hsh = [number |-> hsh.number, shls |-> hsh.shls, ret |-> hsh.ret, error |-> hsh.error]
      /\ hsh.number = 0 /\ hsh.shls = v
  <2> HIDE DEF v
  <2> QED BY <1>1
<1>3. \A b \in B : /\ hsh.shls[b] = initShell(TRUE)
                   /\ Fine(hsh.shls[b]) /\ Links(hsh.shls[b]) = <<>>
  BY <1>2, NewShell
<1>4. \A b \in B : DOMAIN Links(hsh.shls[b]) = {} /\ ToSet(Links(hsh.shls[b])) = {}
  <2>1. DOMAIN <<>> = {} /\ ToSet(<<>>) = {}
    BY DEF ToSet
  <2> HIDE DEF B
  <2> QED BY <1>3, <2>1
<1>5. DOMAIN hsh.shls = B /\ hsh.shls = [b \in B |-> hsh.shls[b]]
  BY <1>2
<1>6. Filled(hsh) = {}
  BY <1>4, <1>5 DEF Filled
<1>7. \A b \in B : Numbered(hsh.shls[b]) /\ KeysOf(hsh.shls[b]) = {}
  BY <1>4 DEF Numbered, KeysOf
<1>8. \A k \in DOMAIN shape.hash : shape.hash[k] \in B
  BY DEF Range
<1> HIDE DEF B
<1>9. IsFiniteSet(Filled(hsh)) /\ hsh.number = Cardinality(Filled(hsh))
  BY <1>2, <1>6, FS_EmptySet
<1> QED BY <1>1, <1>2, <1>3, <1>5, <1>7, <1>8, <1>9 DEF HashInv, HashOk, B

LEMMA HashSteps ==
  ASSUME HashInv, [ShellNext]_shellVars
  PROVE  HashInv'
<1>1. shape \in Shapes /\ HashOk(hsh, words, shape.hash)
  BY DEF HashInv
<1>2. ASSUME NEW k \in shape.keys, IsHash
      PROVE  k \in Int /\ k \in DOMAIN shape.hash /\ shape.hash[k] \in Range(shape.hash)
  BY <1>1, <1>2, ShapesAssumption DEF IsHash, Range
<1>3. ASSUME NEW k, NEW heavy, AddWord(k, heavy) PROVE HashInv'
  <2>1. IsHash /\ k \in shape.keys /\ words' = words \cup {k} /\ shape' = shape
    BY <1>3 DEF AddWord
  <2>2. hsh' = TakenOf(addHashItem(hsh, shape.hash[k], NextLike(hsh.shls[shape.hash[k]], k), heavy))
    BY <1>3 DEF AddWord, Bucket, NextLike, Alike
  <2>3. HashOk(addHashItem(hsh, shape.hash[k], NextLike(hsh.shls[shape.hash[k]], k), heavy),
               words \cup {k}, shape.hash)
    BY <1>1, <1>2, <2>1, AddsWord
  <2> QED BY <1>1, <2>1, <2>2, <2>3, TakenHash DEF HashInv
<1>4. ASSUME NEW k, NEW heavy, FindWord(k, heavy) PROVE HashInv'
  <2>1. /\ IsHash /\ k \in shape.keys /\ words' = words /\ shape' = shape
        /\ hsh' = TakenOf(findHashItem(hsh, shape.hash[k], k, heavy))
    BY <1>4 DEF FindWord, Bucket
  <2>2. HashOk(findHashItem(hsh, shape.hash[k], k, heavy), words, shape.hash)
    BY <1>1, <1>2, <2>1, FindsWord
  <2> QED BY <1>1, <2>1, <2>2, TakenHash DEF HashInv
<1>5. ASSUME UNCHANGED <<hsh, words, shape>> PROVE HashInv'
  BY <1>1, <1>5 DEF HashInv
<1>6. ASSUME NEW k, NEW heavy, Add(k, heavy) \/ Find(k, heavy) \/ QueryFor(k, heavy)
      PROVE  HashInv'
  BY <1>5, <1>6 DEF Add, Find, QueryFor
<1>7. ASSUME RemoveItem \/ Reload PROVE HashInv'
  BY <1>5, <1>7 DEF RemoveItem, Reload
<1> QED BY <1>3, <1>4, <1>5, <1>6, <1>7 DEF ShellNext, shellVars

LEMMA HashStays == ShellSpec => []HashInv
BY HashStarts, HashSteps, PTL DEF ShellSpec

LEMMA FindsHeld ==
  ASSUME NEW s, Fine(s), NEW k \in Int, ~Blind(s, k)
  PROVE  k \in KeysOf(s) <=> findShellItem(s, k, FALSE).ret # NONE
<1>1. CASE Links(s) # <<>>
  BY <1>1, Searches DEF KeysOf
<1>2. CASE Links(s) = <<>>
  <2>1. ToSet(Links(s)) = {} /\ Len(Links(s)) = 0
    BY <1>2, EmptySeq DEF ToSet
  <2>2. s.nodes = <<>>
    <3>1. s.nodes \in Seq({})
      BY <2>1, FineNodes
    <3> QED BY <3>1, EmptySeq
  <2>3. NotBelow(Links(s), k) \in 1..1
    BY <2>1, NotBelowFacts DEF Fine
  <2>4. findShellItem(s, k, FALSE) = Nothing(s)
    BY <2>1, <2>2, <2>3 DEF findShellItem, Balance, FindIn, FindAt, FirstEqual
  <2>5. k \notin KeysOf(s)
    BY <2>1 DEF KeysOf
  <2> QED BY <2>4, <2>5, Returns DEF Fine
<1> QED BY <1>1, <1>2

(* findHashItem finds a string if and only if addHashItem has been called  *)
(* with it, through whatever nodes the calls before made in its bucket,    *)
(* and an item that a bucket refuses is not counted in hsh->number.        *)
THEOREM HashStaysExact == ShellSpec => []HashExact
<1>1. ASSUME HashInv PROVE HashExact
  <2>1. hsh.number = Cardinality(Filled(hsh))
    BY <1>1 DEF HashInv, HashOk
  <2>2. ASSUME NEW k \in DOMAIN shape.hash, ~Blind(hsh.shls[Bucket(k)], k)
        PROVE  k \in words <=> findHashItem(hsh, Bucket(k), k, FALSE).ret # NONE
    <3> DEFINE b == shape.hash[k]
               s == hsh.shls[b]
    <3>1. shape.hash # <<>>
      BY EmptySeq
    <3>2. k \in Int
      BY <1>1, <3>1, ShapesAssumption DEF HashInv
    <3>3. b \in Range(shape.hash)
      BY DEF Range
    <3>4. Fine(s) /\ (k \in words <=> k \in KeysOf(s))
      BY <1>1, <3>3 DEF HashInv, HashOk
    <3>5. k \in words <=> findShellItem(s, k, FALSE).ret # NONE
      BY <2>2, <3>2, <3>4, FindsHeld DEF Bucket
    <3>6. findHashItem(hsh, b, k, FALSE).ret = findShellItem(s, k, FALSE).ret
      <4>1. HashOk(hsh, words, shape.hash)
        BY <1>1 DEF HashInv
      <4>2. \A heavy \in BOOLEAN :
              findHashItem(hsh, b, k, heavy).ret = findShellItem(s, k, heavy).ret
        BY <3>3, <4>1, FindsWord
      <4> QED BY <4>2
    <3> QED BY <3>5, <3>6 DEF Bucket
  <2> QED BY <2>1, <2>2 DEF HashExact
<1> QED BY <1>1, HashStays, PTL

-----------------------------------------------------------------------------
(* Containers.  The links of a container carry records; With is those that *)
(* carry the record v, and Counts says that b[v] is how many they are.     *)
Carrier == [key : Int, val : Records, id : Int]

With(q, v) == {l \in ToSet(q) : l.val = v}

Counts(q, b) ==
  /\ b = [v \in Records |-> b[v]]
  /\ \A v \in Records : Cardinality(With(q, v)) = b[v]

LEMMA CarrierFacts ==
  /\ Records \subseteq Int /\ 0 \in Records
  /\ \A l \in Carrier : l \in Lnk /\ l.val \in Records /\ l.key \in Int /\ l # NONE
<1>1. Records \subseteq Int /\ 0 \in Records
  BY ContainerAssumption DEF Records
<1>2. \A l \in Carrier : l \in [key : Int, val : Int, id : Int] /\ l.val \in Records /\ l.key \in Int
  BY <1>1 DEF Carrier
<1> QED BY <1>1, <1>2, ResultsAssumption DEF Lnk

LEMMA SortedPlaces ==
  ASSUME NEW q, Sorted(q)
  PROVE  /\ Len(q) \in Nat /\ DOMAIN q = 1..Len(q) /\ IsFiniteSet(ToSet(q))
         /\ ToSet(q) = {q[p] : p \in 1..Len(q)}
         /\ q \in [1..Len(q) -> ToSet(q)]
<1> DEFINE S == ToSet(q)
<1>1. Len(q) \in Nat /\ DOMAIN q = 1..Len(q) /\ q = [m \in 1..Len(q) |-> q[m]]
  BY LenProperties DEF Sorted
<1>2. S = {q[p] : p \in 1..Len(q)}
  BY <1>1 DEF ToSet
<1>3. q \in [1..Len(q) -> S] /\ \A x \in S : \E m \in 1..Len(q) : q[m] = x
  BY <1>1, <1>2
<1>4. ExistsSurjection(1..Len(q), S)
  <2> HIDE DEF S
  <2> QED BY <1>3 DEF ExistsSurjection, Surjection
<1>5. IsFiniteSet(S)
  BY <1>1, <1>4, FS_NatSurjection
<1> QED BY <1>1, <1>2, <1>3, <1>5

LEMMA WithFinite ==
  ASSUME NEW q, Sorted(q), NEW v
  PROVE  IsFiniteSet(With(q, v)) /\ Cardinality(With(q, v)) \in Nat
BY SortedPlaces, FS_Subset, FS_CardinalityType DEF With

(* No two links of a list are the same, so their places count them.        *)
LEMMA CountPlaces ==
  ASSUME NEW q, Sorted(q), NEW v
  PROVE  Cardinality({p \in DOMAIN q : q[p].val = v}) = Cardinality(With(q, v))
<1> DEFINE P == {p \in DOMAIN q : q[p].val = v}
           W == With(q, v)
           f == [p \in P |-> q[p]]
<1>1. Len(q) \in Nat /\ DOMAIN q = 1..Len(q) /\ ToSet(q) = {q[p] : p \in 1..Len(q)}
  BY SortedPlaces
<1>2. IsFiniteSet(P)
  <2>1. P \subseteq 1..Len(q) /\ IsFiniteSet(1..Len(q))
    BY <1>1, FS_Interval
  <2> HIDE DEF P
  <2> QED BY <2>1, FS_Subset
<1>3. f \in [P -> W]
  BY <1>1 DEF With
<1>4. \A x \in W : \E p \in P : f[p] = x
  BY <1>1 DEF With
<1>5. \A x, y \in P : f[x] = f[y] => x = y
  BY DEF Sorted, Distinct
<1> HIDE DEF P, W, f
<1>6. f \in Bijection(P, W)
  BY <1>3, <1>4, <1>5 DEF Bijection, Injection, Surjection, IsInjective
<1>7. ExistsBijection(P, W)
  BY <1>6 DEF ExistsBijection
<1> QED BY <1>2, <1>7, FS_Bijection DEF P, W

LEMMA CountsMore ==
  ASSUME NEW q, Sorted(q), NEW t, Sorted(t), NEW l, l \notin ToSet(q), l.val \in Records,
         ToSet(t) = ToSet(q) \cup {l}, NEW b, Counts(q, b)
  PROVE  Counts(t, [b EXCEPT ![l.val] = @ + 1])
<1> DEFINE c == [b EXCEPT ![l.val] = @ + 1]
<1>1. c = [v \in Records |-> c[v]] /\ \A v \in Records : c[v] = IF v = l.val THEN b[v] + 1 ELSE b[v]
  BY DEF Counts
<1>2. ASSUME NEW v \in Records PROVE Cardinality(With(t, v)) = c[v]
  <2>1. CASE v = l.val
    <3>1. With(t, v) = With(q, v) \cup {l} /\ l \notin With(q, v)
      BY <2>1 DEF With
    <3>2. Cardinality(With(t, v)) = Cardinality(With(q, v)) + 1
      BY <3>1, WithFinite, FS_AddElement
    <3> QED BY <1>1, <2>1, <3>2 DEF Counts
  <2>2. CASE v # l.val
    <3>1. With(t, v) = With(q, v)
      BY <2>2 DEF With
    <3> QED BY <1>1, <2>2, <3>1 DEF Counts
  <2> QED BY <2>1, <2>2
<1> HIDE DEF c
<1>3. Counts(t, c)
  BY <1>1, <1>2 DEF Counts
<1> QED BY <1>3 DEF c

LEMMA CountsLess ==
  ASSUME NEW q, Sorted(q), NEW t, Sorted(t), NEW l \in ToSet(q), l.val \in Records,
         ToSet(t) = ToSet(q) \ {l}, NEW b, Counts(q, b)
  PROVE  Counts(t, [b EXCEPT ![l.val] = @ - 1])
<1> DEFINE c == [b EXCEPT ![l.val] = @ - 1]
<1>1. c = [v \in Records |-> c[v]] /\ \A v \in Records : c[v] = IF v = l.val THEN b[v] - 1 ELSE b[v]
  BY DEF Counts
<1>2. ASSUME NEW v \in Records PROVE Cardinality(With(t, v)) = c[v]
  <2>1. CASE v = l.val
    <3>1. With(t, v) = With(q, v) \ {l} /\ l \in With(q, v)
      BY <2>1 DEF With
    <3>2. Cardinality(With(t, v)) = Cardinality(With(q, v)) - 1
      BY <3>1, WithFinite, FS_RemoveElement
    <3> QED BY <1>1, <2>1, <3>2 DEF Counts
  <2>2. CASE v # l.val
    <3>1. With(t, v) = With(q, v)
      BY <2>2 DEF With
    <3> QED BY <1>1, <2>2, <3>1 DEF Counts
  <2> QED BY <2>1, <2>2
<1> HIDE DEF c
<1>3. Counts(t, c)
  BY <1>1, <1>2 DEF Counts
<1> QED BY <1>3 DEF c

-----------------------------------------------------------------------------
(* The links of one container.                                             *)
LEMMA FreshLink ==
  ASSUME NEW h, Fine(h.shl), h.def.records \in Nat, h.data \in Records,
         Len(Links(h.shl)) < h.def.records
  PROVE  NewLink(h) \in Carrier /\ NewLink(h) \notin InContainer(h) /\ NewLink(h).val = h.data
<1> DEFINE q == Links(h.shl)
           n == Len(q)
           R == 1..h.def.records + 1
           I == {l.id : l \in ToSet(q)}
           V == R \ I
           f == [p \in 1..n |-> q[p].id]
<1>1. n \in Nat /\ ToSet(q) = {q[p] : p \in 1..n}
  BY SortedPlaces DEF Fine
<1>2. I = {f[p] : p \in 1..n}
  BY <1>1
<1>3. f \in Surjection(1..n, I)
  BY <1>2 DEF Surjection
<1>4. /\ IsFiniteSet(1..n) /\ Cardinality(1..n) = n
      /\ IsFiniteSet(R) /\ Cardinality(R) = h.def.records + 1
  <2>1. ASSUME NEW x \in Nat PROVE IsFiniteSet(1..x) /\ Cardinality(1..x) = x
    <3>1. 1 \in Int /\ x \in Int
      OBVIOUS
    <3>2. IsFiniteSet(1..x) /\ Cardinality(1..x) = IF 1 > x THEN 0 ELSE x - 1 + 1
      BY <3>1, FS_Interval
    <3> QED BY <3>2
  <2>2. n \in Nat /\ h.def.records + 1 \in Nat
    BY <1>1
  <2> QED BY <2>1, <2>2
<1>5. IsFiniteSet(I) /\ Cardinality(I) <= n
  <2>1. ExistsSurjection(1..n, I)
    <3> HIDE DEF f, I
    <3> QED BY <1>3 DEF ExistsSurjection
  <2> HIDE DEF I, q
  <2> QED BY <1>4, <2>1, FS_SurjCardinalityBound, FS_NatSurjection, FS_Surjection
<1>6. ~(R \subseteq I)
  <2> HIDE DEF I, R
  <2>1. R \subseteq I => Cardinality(R) <= Cardinality(I)
    BY <1>5, FS_Subset
  <2>2. Cardinality(I) \in Nat
    BY <1>5, FS_CardinalityType
  <2> HIDE DEF n
  <2> QED BY <1>1, <1>4, <1>5, <2>1, <2>2 DEF n
<1>7. Min(V) \in V
  <2>1. V \in SUBSET Nat /\ V # {}
    BY <1>6
  <2> HIDE DEF V
  <2> QED BY <2>1, MinOfSome
<1>8. container_compare(h.def, h.data) \in Int
  BY CarrierFacts DEF container_compare
<1>9. NewLink(h) = [key |-> container_compare(h.def, h.data), val |-> h.data, id |-> Min(V)]
  BY DEF NewLink, InContainer
<1>10. Min(V) \in Int /\ Min(V) \notin I
  BY <1>7
<1>11. NewLink(h) \in Carrier /\ NewLink(h).id = Min(V) /\ NewLink(h).val = h.data
  <2> HIDE DEF V
  <2> QED BY <1>8, <1>9, <1>10 DEF Carrier
<1> QED BY <1>10, <1>11 DEF InContainer

(* lh->current is a link of the list or a sentinel.                        *)
LEMMA CurrentLink ==
  ASSUME NEW s, Sorted(Links(s)), s.lh.cur \in Nat
  PROVE  ListCurrent(s) \in ToSet(Links(s)) \cup {HEAD, TAIL}
<1>1. Len(Links(s)) \in Nat /\ ToSet(Links(s)) = {Links(s)[p] : p \in 1..Len(Links(s))}
  BY SortedPlaces
<1> QED BY <1>1 DEF ListCurrent

LEMMA LinkOf ==
  ASSUME NEW h, Sorted(Links(h.shl)), NEW p \in Int
  PROVE  LinkAt(h, p) \in InContainer(h) \cup {HEAD, TAIL}
<1>1. /\ Len(Links(h.shl)) \in Nat
      /\ ToSet(Links(h.shl)) = {Links(h.shl)[i] : i \in 1..Len(Links(h.shl))}
  BY SortedPlaces
<1> QED BY <1>1 DEF LinkAt, InContainer

LEMMA PlaceOfCurrent ==
  ASSUME NEW h, Sorted(Links(h.shl)), h.current \in InContainer(h) \cup {HEAD, TAIL}
  PROVE  PlaceOf(h) \in Int /\ Len(Links(h.shl)) \in Int
<1>1. Len(Links(h.shl)) \in Nat /\ Links(h.shl) \in Seq(Lnk)
  BY SortedPlaces DEF Sorted
<1>2. ASSUME h.current \in InContainer(h) PROVE Pos(h.shl, h.current) \in Int
  <2>1. Pos(h.shl, h.current) = Place(Links(h.shl), h.current)
    BY DEF Pos, Place
  <2> QED BY <1>1, <1>2, <2>1, PlaceFacts DEF InContainer
<1> QED BY <1>1, <1>2 DEF PlaceOf

-----------------------------------------------------------------------------
(* The handle of a container, and b, how many of each record the script    *)
(* expects it to hold.                                                     *)
Holds(h, b) ==
  /\ h = [def |-> h.def, shl |-> h.shl, current |-> h.current, data |-> h.data,
          numRecords |-> h.numRecords]
  /\ h.def.records \in Nat
  /\ ShellOk(h.shl) /\ h.shl.lh.type = "UNSORTED" /\ h.shl.lh.cur \in Nat
  /\ ToSet(Links(h.shl)) \subseteq Carrier
  /\ h.data \in Records
  /\ h.current \in InContainer(h) \cup {HEAD, TAIL}
  /\ h.numRecords = Len(Links(h.shl))
  /\ Counts(Links(h.shl), b)

(* So a call leaves the handle.                                            *)
Leaves(h, g, c) == g.def = h.def /\ Holds(g, c)

LEMMA SetsData ==
  ASSUME NEW h, NEW b, Holds(h, b), NEW v \in Records
  PROVE  Leaves(h, [h EXCEPT !.data = v], b)
<1> DEFINE g == [h EXCEPT !.data = v]
<1>1. g = [def |-> h.def, shl |-> h.shl, current |-> h.current, data |-> v,
           numRecords |-> h.numRecords]
  BY DEF Holds
<1> HIDE DEF g
<1>2. g.def = h.def /\ Holds(g, b)
  BY <1>1 DEF Holds, InContainer
<1> QED BY <1>2 DEF Leaves, g

LEMMA SetsCurrent ==
  ASSUME NEW h, NEW b, Holds(h, b), NEW l \in InContainer(h) \cup {HEAD, TAIL}
  PROVE  Leaves(h, [h EXCEPT !.current = l], b)
<1> DEFINE g == [h EXCEPT !.current = l]
<1>1. g = [def |-> h.def, shl |-> h.shl, current |-> l, data |-> h.data,
           numRecords |-> h.numRecords]
  BY DEF Holds
<1> HIDE DEF g
<1>2. g.def = h.def /\ Holds(g, b)
  BY <1>1 DEF Holds, InContainer
<1> QED BY <1>2 DEF Leaves, g

(* The shell has the same list.                                            *)
SameLinks(s, t) ==
  /\ ShellOk(t) /\ t.lh.type = "UNSORTED" /\ t.lh.cur \in Nat
  /\ Links(t) = Links(s)

LEMMA SetsShell ==
  ASSUME NEW h, NEW b, Holds(h, b), NEW s, SameLinks(h.shl, s)
  PROVE  Leaves(h, [h EXCEPT !.shl = s], b)
<1> DEFINE g == [h EXCEPT !.shl = s]
<1>1. g = [def |-> h.def, shl |-> s, current |-> h.current, data |-> h.data,
           numRecords |-> h.numRecords]
  BY DEF Holds
<1> HIDE DEF g
<1>2. g.def = h.def /\ Holds(g, b)
  BY <1>1 DEF Holds, InContainer, SameLinks
<1> QED BY <1>2 DEF Leaves, g

LEMMA ReturnedKeeps ==
  ASSUME NEW s, ShellOk(s), s.lh.type = "UNSORTED", s.lh.cur \in Nat
  PROVE  SameLinks(s, Returned(s))
<1> DEFINE t == Returned(s)
<1>1. Rec(t) /\ t.lh = s.lh /\ t.nodes = s.nodes /\ t.level = s.level /\ t.isUnique = s.isUnique
  BY DEF Returned, ShellOk, Rec
<1> HIDE DEF t
<1>2. Links(t) = Links(s) /\ (Intact(t) <=> Intact(s))
  BY <1>1 DEF Links, Intact
<1> QED BY <1>1, <1>2 DEF ShellOk, SameLinks, t

LEMMA ReturnsHandle ==
  ASSUME NEW h, NEW b, Holds(h, b)
  PROVE  Leaves(h, [h EXCEPT !.shl = Returned(@)], b)
BY ReturnedKeeps, SetsShell DEF Holds

(* With another shell and current record, and after a record was added.    *)
Sits(h, s, l) == [h EXCEPT !.shl = s, !.current = l]
Grown(h, s) ==
  [h EXCEPT !.shl = s, !.current = ListCurrent(s), !.data = 0, !.numRecords = Len(Links(s))]

LEMMA HandleFields ==
  ASSUME NEW h, NEW b, Holds(h, b), NEW s, NEW l
  PROVE  /\ Sits(h, s, l) = [def |-> h.def, shl |-> s, current |-> l, data |-> h.data,
                             numRecords |-> h.numRecords]
         /\ Removed(h, s) = [def |-> h.def, shl |-> s, current |-> ListCurrent(s),
                             data |-> h.data, numRecords |-> Len(Links(s))]
         /\ Grown(h, s) = [def |-> h.def, shl |-> s, current |-> ListCurrent(s),
                           data |-> 0, numRecords |-> Len(Links(s))]
<1> DEFINE a == h.def
           t == h.shl
           k == h.current
           d == h.data
           m == h.numRecords
           j == ListCurrent(s)
           n == Len(Links(s))
           g == [h EXCEPT !.shl = s]
           c == [g EXCEPT !.current = l]
           e == [g EXCEPT !.current = j]
           r == [g EXCEPT !.numRecords = n]
           y == [r EXCEPT !.current = j]
           z == [e EXCEPT !.data = 0]
           w == [z EXCEPT !.numRecords = n]
<1>1. h = [def |-> a, shl |-> t, current |-> k, data |-> d, numRecords |-> m]
  BY DEF Holds
<1> HIDE DEF a, t, k, d, m, j, n
<1>2. Sits(h, s, l) = c /\ Removed(h, s) = y /\ Grown(h, s) = w
  BY DEF Sits, Removed, Grown, j, n
<1>3. g = [def |-> a, shl |-> s, current |-> k, data |-> d, numRecords |-> m]
  BY <1>1
<1> HIDE DEF g
<1>4. c = [def |-> a, shl |-> s, current |-> l, data |-> d, numRecords |-> m]
  BY <1>3
<1>5. e = [def |-> a, shl |-> s, current |-> j, data |-> d, numRecords |-> m]
  BY <1>3
<1>6. r = [def |-> a, shl |-> s, current |-> k, data |-> d, numRecords |-> n]
  BY <1>3
<1> HIDE DEF c, e, r
<1>7. y = [def |-> a, shl |-> s, current |-> j, data |-> d, numRecords |-> n]
  BY <1>6
<1>8. z = [def |-> a, shl |-> s, current |-> j, data |-> 0, numRecords |-> m]
  BY <1>5
<1> HIDE DEF y, z
<1>9. w = [def |-> a, shl |-> s, current |-> j, data |-> 0, numRecords |-> n]
  BY <1>8
<1> HIDE DEF w
<1> QED BY <1>2, <1>4, <1>7, <1>9 DEF a, d, m, j, n

(* A record more or less.                                                  *)
LEMMA SetsLinks ==
  ASSUME NEW h, NEW b, Holds(h, b), NEW s, ShellOk(s), s.lh.type = "UNSORTED",
         s.lh.cur \in Nat, ToSet(Links(s)) \subseteq Carrier, NEW c, Counts(Links(s), c)
  PROVE  Leaves(h, Grown(h, s), c) /\ Leaves(h, Removed(h, s), c)
<1> DEFINE g == Grown(h, s)
           r == Removed(h, s)
<1>1. /\ g = [def |-> h.def, shl |-> s, current |-> ListCurrent(s), data |-> 0,
              numRecords |-> Len(Links(s))]
      /\ r = [def |-> h.def, shl |-> s, current |-> ListCurrent(s), data |-> h.data,
              numRecords |-> Len(Links(s))]
  BY HandleFields
<1>2. ListCurrent(s) \in ToSet(Links(s)) \cup {HEAD, TAIL}
  BY CurrentLink DEF ShellOk
<1> HIDE DEF g, r
<1>3. g.def = h.def /\ Holds(g, c)
  BY <1>1, <1>2, CarrierFacts DEF Holds, InContainer
<1>4. r.def = h.def /\ Holds(r, c)
  BY <1>1, <1>2 DEF Holds, InContainer
<1> QED BY <1>3, <1>4 DEF Leaves, g, r

LEMMA SetsBoth ==
  ASSUME NEW h, NEW b, Holds(h, b), NEW s, SameLinks(h.shl, s),
         NEW l \in ToSet(Links(s)) \cup {HEAD, TAIL}
  PROVE  /\ Leaves(h, Sits(h, s, l), b)
         /\ Sits(h, s, l).shl = s /\ Sits(h, s, l).current = l
<1> DEFINE g == Sits(h, s, l)
<1>1. g = [def |-> h.def, shl |-> s, current |-> l, data |-> h.data,
           numRecords |-> h.numRecords]
  BY HandleFields
<1> HIDE DEF g
<1>2. g.def = h.def /\ Holds(g, b)
  BY <1>1 DEF Holds, InContainer, SameLinks
<1> QED BY <1>1, <1>2 DEF Leaves, g

(* A walk over the nodes is only made when all of them are links.          *)
LEMMA DefinedFine ==
  ASSUME NEW s, ShellOk(s), NEW k, Defined(s, k)
  PROVE  Fine(s)
BY FineOk DEF Defined, Intact

LEMMA BalanceOk ==
  ASSUME NEW s, ShellOk(s), NEW heavy
  PROVE  LET t == Balance(s, heavy)
         IN ShellOk(t) /\ t.lh = s.lh /\ Balance(t, FALSE) = t
<1> DEFINE t == Balance(s, heavy)
<1>1. ASSUME NEW n
      PROVE  LET r == [s EXCEPT !.thresh = n]
             IN /\ Rec(r) /\ r.lh = s.lh /\ r.nodes = s.nodes /\ r.level = s.level
                /\ r.isUnique = s.isUnique
  BY DEF ShellOk, Rec
<1>2. ASSUME NEW n PROVE ShellOk([s EXCEPT !.thresh = n])
  <2> DEFINE r == [s EXCEPT !.thresh = n]
  <2>1. /\ Rec(r) /\ r.lh = s.lh /\ r.nodes = s.nodes /\ r.level = s.level
        /\ r.isUnique = s.isUnique
    BY <1>1
  <2> HIDE DEF r
  <2>2. Links(r) = Links(s) /\ (Intact(r) <=> Intact(s))
    BY <2>1 DEF Links, Intact
  <2>3. ShellOk(r)
    BY <2>1, <2>2 DEF ShellOk
  <2> QED BY <2>3 DEF r
<1>3. LET r == restructureShellNodes([s EXCEPT !.thresh = 0])
      IN ShellOk(r) /\ r.lh = s.lh
  <2> DEFINE z == [s EXCEPT !.thresh = 0]
             r == restructureShellNodes(z)
  <2>1. Rec(z) /\ z.lh = s.lh
    BY <1>1
  <2> HIDE DEF z
  <2>2. Sorted(Links(z))
    BY <2>1 DEF Links, ShellOk
  <2>3. Rec(r) /\ r.lh = z.lh /\ Leads(Links(r), r.nodes, r.level) /\ Intact(r)
    BY <2>1, <2>2, Restructures
  <2> HIDE DEF r
  <2>4. ShellOk(r) /\ r.lh = s.lh
    BY <2>1, <2>2, <2>3 DEF ShellOk, Links
  <2> QED BY <2>4 DEF r, z
<1>4. ShellOk(t) /\ t.lh = s.lh
  BY <1>1, <1>2, <1>3 DEF Balance
<1> HIDE DEF t
<1>5. Balance(t, FALSE) = t
  BY DEF Balance
<1> QED BY <1>4, <1>5 DEF t

LEMMA AddsRecord ==
  ASSUME NEW h, NEW b, Holds(h, b), NEW heavy, Len(Links(h.shl)) < h.def.records,
         Defined(Balance(h.shl, heavy), NewLink(h).key)
  PROVE  LET s == addShellItem(h.shl, NewLink(h), heavy)
         IN IF s.ret = NONE
            THEN Leaves(h, Sits(h, s, ListCurrent(s)), b)
            ELSE Leaves(h, Grown(h, s), [b EXCEPT ![h.data] = @ + 1])
<1> DEFINE l == NewLink(h)
           t == Balance(h.shl, heavy)
           s == addShellItem(h.shl, l, heavy)
<1>1. Balance(t, FALSE) = t /\ ShellOk(t) /\ t.lh = h.shl.lh
  BY BalanceOk DEF Holds
<1>2. Fine(t)
  BY <1>1, DefinedFine
<1>3. s = addShellItem(t, l, FALSE)
  BY <1>1 DEF addShellItem
<1> HIDE DEF s, t
<1>4. Links(t) = Links(h.shl)
  BY <1>1 DEF Links
<1>5. l \in Carrier /\ l \notin ToSet(Links(t)) /\ l.val = h.data
  <2> DEFINE g == [h EXCEPT !.shl = t]
  <2>1. g.shl = t /\ g.def = h.def /\ g.data = h.data
    BY DEF Holds
  <2> HIDE DEF g
  <2>2. NewLink(g) = l /\ InContainer(g) = InContainer(h)
    BY <1>4, <2>1 DEF NewLink, InContainer
  <2> HIDE DEF l
  <2>3. NewLink(g) \in Carrier /\ NewLink(g) \notin InContainer(g) /\ NewLink(g).val = g.data
    BY <1>2, <1>4, <2>1, FreshLink DEF Holds
  <2> QED BY <1>4, <2>1, <2>2, <2>3 DEF InContainer
<1> HIDE DEF l
<1>6. AddedTo(t, l, s)
  BY <1>2, <1>3, <1>5, CarrierFacts, Adds
<1>7. Fine(s) /\ s.lh.type = "UNSORTED" /\ s.lh.cur \in Nat /\ ShellOk(s)
  BY <1>1, <1>6, FineOk DEF AddedTo, Holds
<1>8. ListCurrent(s) \in ToSet(Links(s)) \cup {HEAD, TAIL}
  BY <1>7, CurrentLink DEF Fine
<1>9. CASE s.ret = NONE
  <2>1. Links(s) = Links(h.shl)
    BY <1>4, <1>6, <1>9, ResultsAssumption DEF AddedTo, Links
  <2>2. SameLinks(h.shl, s)
    BY <1>7, <2>1 DEF SameLinks
  <2> QED BY <1>8, <1>9, <2>2, SetsBoth DEF s, l
<1>10. CASE s.ret # NONE
  <2>1. ToSet(Links(s)) = ToSet(Links(h.shl)) \cup {l}
    BY <1>4, <1>6, <1>10 DEF AddedTo
  <2>2. Counts(Links(s), [b EXCEPT ![l.val] = @ + 1])
    BY <1>2, <1>4, <1>5, <1>7, <2>1, CountsMore DEF Fine, Holds
  <2>3. ToSet(Links(s)) \subseteq Carrier
    BY <1>5, <2>1 DEF Holds
  <2> QED BY <1>5, <1>7, <1>10, <2>2, <2>3, SetsLinks DEF s, l
<1> QED BY <1>9, <1>10 DEF s, l

(* What a search answers, and where it leaves the current record.          *)
Answered(h, b, f) ==
  /\ Leaves(h, f.h, b)
  /\ f.ret = TRUE => Fine(f.h.shl) /\ f.h.current \in ToSet(Links(f.h.shl))

LEMMA SearchAnswers ==
  ASSUME NEW h, NEW b, Holds(h, b), Defined(h.shl, NONE), NEW k \in Int, NEW heavy,
         NEW s \in {findShellItem(h.shl, k, heavy), queryShellItem(h.shl, k, heavy)}
  PROVE  Answered(h, b, Searched(h, s))
<1> DEFINE f == Searched(h, s)
<1>1. Fine(h.shl)
  BY DefinedFine DEF Holds
<1>2. Keeps(h.shl, s) /\ Returning(h.shl, s)
  BY <1>1, FindKeeps, FindsLink
<1>3. SameLinks(h.shl, s) /\ Fine(s)
  BY <1>2, FineOk DEF Keeps, Returning, SameLinks, Holds
<1>4. CASE s.ret = NONE
  <2>1. f.h = [h EXCEPT !.shl = s] /\ f.ret # TRUE
    BY <1>4, ResultsAssumption DEF Searched
  <2> HIDE DEF f
  <2>2. Leaves(h, f.h, b)
    BY <1>3, <2>1, SetsShell
  <2>3. Answered(h, b, f)
    BY <2>1, <2>2 DEF Answered
  <2> QED BY <2>3 DEF f
<1>5. CASE s.ret # NONE
  <2>1. f.h = Sits(h, s, s.ret)
    BY <1>5 DEF Searched, Sits
  <2>2. s.ret \in ToSet(Links(s))
    BY <1>2, <1>3, <1>5 DEF Returning, SameLinks
  <2> HIDE DEF f
  <2>3. Leaves(h, f.h, b) /\ f.h.shl = s /\ f.h.current = s.ret
    BY <1>3, <2>1, <2>2, SetsBoth
  <2> QED BY <1>3, <2>2, <2>3 DEF Answered, f
<1> QED BY <1>4, <1>5

LEMMA DeletesRecord ==
  ASSUME NEW h, NEW b, Holds(h, b), Fine(h.shl), h.current \in ToSet(Links(h.shl))
  PROVE  LET s == removeShellItem(h.shl, h.current)
         IN IF s.ret = NONE THEN Leaves(h, [h EXCEPT !.shl = s], b)
            ELSE Leaves(h, Removed(h, s), [b EXCEPT ![h.current.val] = @ - 1])
<1> DEFINE l == h.current
           s == removeShellItem(h.shl, l)
<1>1. RemovedFrom(h.shl, l, s)
  BY Removes DEF Holds
<1>2. l \in Carrier /\ l # NONE /\ l.val \in Records
  BY CarrierFacts DEF Holds
<1> HIDE DEF s
<1>3. ShellOk(s) /\ s.lh.type = "UNSORTED" /\ s.lh.cur \in Nat
  BY <1>1 DEF RemovedFrom, Holds
<1>4. CASE s.ret = NONE
  <2>1. SameLinks(h.shl, s)
    BY <1>1, <1>2, <1>3, <1>4 DEF RemovedFrom, SameLinks
  <2> QED BY <1>4, <2>1, SetsShell DEF s
<1>5. CASE s.ret # NONE
  <2>1. ToSet(Links(s)) = ToSet(Links(h.shl)) \ {l}
    BY <1>1, <1>5 DEF RemovedFrom
  <2>2. Counts(Links(s), [b EXCEPT ![l.val] = @ - 1])
    BY <1>2, <1>3, <2>1, CountsLess DEF Fine, Holds, ShellOk
  <2>3. ToSet(Links(s)) \subseteq Carrier
    BY <2>1 DEF Holds
  <2> QED BY <1>3, <1>5, <2>2, <2>3, SetsLinks DEF s
<1> QED BY <1>4, <1>5 DEF s

LEMMA RestructuresShell ==
  ASSUME NEW h, NEW b, Holds(h, b)
  PROVE  Leaves(h, [h EXCEPT !.shl = restructureShellNodes(@)], b)
<1> DEFINE t == restructureShellNodes(h.shl)
<1>1. /\ Rec(t) /\ t.lh = h.shl.lh /\ t.isUnique = h.shl.isUnique
      /\ Leads(Links(t), t.nodes, t.level) /\ Intact(t)
  BY Restructures DEF Holds, ShellOk
<1> HIDE DEF t
<1>2. SameLinks(h.shl, t)
  BY <1>1 DEF SameLinks, Holds, ShellOk, Links
<1> QED BY <1>2, SetsShell DEF t

-----------------------------------------------------------------------------
(* container_handles.                                                      *)
IsSeq(q) == \E S : q \in Seq(S)

LEMMA SeqChanges ==
  ASSUME NEW q, IsSeq(q), NEW i \in DOMAIN q, NEW e
  PROVE  LET t == [q EXCEPT ![i] = e]
         IN /\ IsSeq(t) /\ Len(t) = Len(q) /\ DOMAIN t = DOMAIN q
            /\ DOMAIN q = 1..Len(q) /\ Len(q) \in Nat
            /\ t[i] = e /\ \A j \in DOMAIN q : j # i => t[j] = q[j]
<1> DEFINE t == [q EXCEPT ![i] = e]
<1>1. PICK S : q \in Seq(S)
  BY DEF IsSeq
<1>2. Len(q) \in Nat /\ DOMAIN q = 1..Len(q) /\ q \in [1..Len(q) -> S]
  BY <1>1, LenProperties, ElementOfSeq
<1>3. t \in [1..Len(q) -> S \cup {e}]
  BY <1>2
<1>4. /\ DOMAIN t = DOMAIN q /\ t[i] = e /\ \A j \in DOMAIN q : j # i => t[j] = q[j]
  BY <1>2
<1> HIDE DEF t
<1>5. t \in Seq(S \cup {e}) /\ Len(t) = Len(q)
  BY <1>2, <1>3, SeqDef, LenProperties
<1> QED BY <1>2, <1>4, <1>5 DEF IsSeq, t

Seek(hs, n) == SelectInSeq(hs, LAMBDA h : h.def.name = n)

LEMMA SeekFacts ==
  ASSUME NEW hs, IsSeq(hs), NEW n
  PROVE  LET i == Seek(hs, n)
         IN IF i = 0 THEN \A j \in DOMAIN hs : hs[j].def.name # n
            ELSE i \in DOMAIN hs /\ hs[i].def.name = n /\ \A j \in 1..i - 1 : hs[j].def.name # n
<1> DEFINE I == {i \in 1..Len(hs) : hs[i].def.name = n}
<1>1. Seek(hs, n) = IF I # {} THEN Min(I) ELSE 0
  BY DEF Seek, SelectInSeq
<1>2. Len(hs) \in Nat /\ DOMAIN hs = 1..Len(hs)
  BY LenProperties DEF IsSeq
<1>3. I # {} => Min(I) \in I /\ \A y \in I : Min(I) <= y
  <2>1. I \in SUBSET Nat
    BY <1>2
  <2> HIDE DEF I
  <2> QED BY <2>1, MinOfSome
<1>4. CASE I = {}
  <2>1. Seek(hs, n) = 0
    BY <1>1, <1>4
  <2>2. \A j \in DOMAIN hs : hs[j].def.name # n
    BY <1>2, <1>4
  <2> QED BY <2>1, <2>2
<1>5. CASE I # {}
  <2> DEFINE i == Min(I)
  <2>1. i \in I /\ \A y \in I : i <= y
    BY <1>3, <1>5
  <2>2. Seek(hs, n) = i
    BY <1>1, <1>5
  <2> HIDE DEF i
  <2>3. i \in 1..Len(hs) /\ hs[i].def.name = n
    BY <2>1
  <2>4. \A j \in 1..i - 1 : hs[j].def.name # n
    <3>1. SUFFICES ASSUME NEW j \in 1..i - 1, hs[j].def.name = n PROVE FALSE
      OBVIOUS
    <3>2. j \in 1..Len(hs)
      BY <1>2, <2>3
    <3>3. j \in I
      BY <3>1, <3>2
    <3> HIDE DEF I
    <3> QED BY <1>2, <2>1, <2>3, <3>3
  <2>5. i # 0
    BY <1>2, <2>3
  <2> HIDE DEF I
  <2> QED BY <1>2, <2>2, <2>3, <2>4, <2>5
<1> QED BY <1>4, <1>5

LEMMA SeekIs ==
  ASSUME NEW hs, IsSeq(hs), NEW n, NEW i \in DOMAIN hs, hs[i].def.name = n,
         \A j \in 1..i - 1 : hs[j].def.name # n
  PROVE  Seek(hs, n) = i
<1>1. Len(hs) \in Nat /\ DOMAIN hs = 1..Len(hs)
  BY LenProperties DEF IsSeq
<1>2. LET s == Seek(hs, n)
      IN IF s = 0 THEN \A j \in DOMAIN hs : hs[j].def.name # n
         ELSE s \in DOMAIN hs /\ hs[s].def.name = n /\ \A j \in 1..s - 1 : hs[j].def.name # n
  BY SeekFacts
<1> QED BY <1>1, <1>2

ContainerInv ==
  /\ script \in Scripts
  /\ IsSeq(handles) /\ IsSeq(kept) /\ Len(kept) = Len(handles)
  /\ \A i \in DOMAIN handles : handles[i].def \in script.files /\ Holds(handles[i], kept[i])

(* Handle(n) is the handle number i.                                       *)
Named(n, i) ==
  /\ i \in DOMAIN handles /\ i \in DOMAIN kept /\ i = findContainerHandleNumber(n)
  /\ i = Seek(handles, n) /\ Handle(n) = handles[i]
  /\ Holds(Handle(n), kept[i]) /\ Handle(n).def \in script.files

LEMMA HandleNow ==
  ASSUME ContainerInv, NEW n, IsHandle(n)
  PROVE  Named(n, findContainerHandleNumber(n))
<1>1. findContainerHandleNumber(n) = Seek(handles, n)
  BY DEF findContainerHandleNumber, Seek, SelectInSeq
<1>2. Seek(handles, n) \in DOMAIN handles
  BY <1>1, SeekFacts DEF ContainerInv, IsHandle
<1>3. DOMAIN kept = DOMAIN handles
  BY LenProperties DEF ContainerInv, IsSeq
<1> QED BY <1>1, <1>2, <1>3 DEF ContainerInv, Named, Handle

(* A call for the container n leaves its handle as g and its records as c. *)
CallMade(n, g, c) ==
  /\ IsHandle(n) /\ Call(n, g) /\ Leaves(Handle(n), g, c)
  /\ \/ UNCHANGED kept /\ c = kept[findContainerHandleNumber(n)]
     \/ kept' = [kept EXCEPT ![findContainerHandleNumber(n)] = c]

LEMMA CallKeeps ==
  ASSUME ContainerInv, NEW n, NEW g, NEW c, CallMade(n, g, c)
  PROVE  ContainerInv' /\ \A m : m # n => Spared(m)
<1> DEFINE i == findContainerHandleNumber(n)
           e == [g EXCEPT !.shl = Returned(@)]
<1>1. Named(n, i)
  BY HandleNow DEF CallMade
<1>2. handles' = [handles EXCEPT ![i] = e] /\ script' = script
  BY DEF CallMade, Call
<1>3. Leaves(g, e, c) /\ Leaves(Handle(n), g, c)
  BY ReturnsHandle DEF CallMade, Leaves
<1>4. e.def = handles[i].def /\ Holds(e, c)
  BY <1>1, <1>3 DEF Leaves, Named
<1> HIDE DEF e, i
<1>5. /\ IsSeq(handles') /\ Len(handles') = Len(handles) /\ DOMAIN handles' = DOMAIN handles
      /\ handles'[i] = e /\ \A j \in DOMAIN handles : j # i => handles'[j] = handles[j]
  BY <1>1, <1>2, SeqChanges DEF ContainerInv, Named
<1>6. /\ IsSeq(kept') /\ Len(kept') = Len(kept) /\ kept'[i] = c
      /\ \A j \in DOMAIN kept : j # i => kept'[j] = kept[j]
  <2>1. CASE UNCHANGED kept /\ c = kept[i]
    BY <2>1 DEF ContainerInv
  <2>2. CASE kept' = [kept EXCEPT ![i] = c]
    BY <1>1, <2>2, SeqChanges DEF ContainerInv, Named
  <2> QED BY <2>1, <2>2 DEF CallMade, i
<1>7. DOMAIN kept = DOMAIN handles
  BY LenProperties DEF ContainerInv, IsSeq
<1>8. \A j \in DOMAIN handles : handles'[j].def = handles[j].def /\ Holds(handles'[j], kept'[j])
  BY <1>4, <1>5, <1>6, <1>7 DEF ContainerInv
<1>9. ContainerInv'
  <2>1. \A j \in DOMAIN handles' : handles'[j].def \in script.files /\ Holds(handles'[j], kept'[j])
    BY <1>5, <1>8 DEF ContainerInv
  <2> QED BY <1>2, <1>5, <1>6, <2>1 DEF ContainerInv
<1>10. ASSUME NEW m, m # n, IsHandle(m) PROVE /\ IsHandle(m)' /\ Handle(m)' = Handle(m)
  <2> DEFINE p == Seek(handles, m)
  <2>1. Named(m, p)
    BY <1>10, HandleNow DEF Named
  <2>2. handles[p].def.name = m /\ handles[i].def.name = n /\ p # 0
        /\ \A j \in 1..p - 1 : handles[j].def.name # m
    BY <1>1, <1>10, <2>1, SeekFacts DEF Named, ContainerInv, IsHandle, CallMade
  <2>3. p \in DOMAIN handles /\ p # i /\ handles'[p] = handles[p]
    BY <1>5, <1>10, <2>1, <2>2 DEF Named
  <2>4. DOMAIN handles = 1..Len(handles) /\ Len(handles) \in Nat
    BY LenProperties DEF ContainerInv, IsSeq
  <2> HIDE DEF p
  <2>5. \A j \in 1..p - 1 : handles'[j].def.name # m
    BY <1>8, <2>2, <2>3, <2>4
  <2>6. Seek(handles', m) = p
    BY <1>5, <2>2, <2>3, <2>5, SeekIs
  <2>7. findContainerHandleNumber(m)' = p
    BY <2>6 DEF findContainerHandleNumber, Seek, SelectInSeq
  <2> QED BY <2>1, <2>2, <2>3, <2>7 DEF IsHandle, Handle, Named
<1>11. ASSUME NEW m, m # n PROVE Spared(m)
  BY <1>10, <1>11 DEF Spared
<1> QED BY <1>9, <1>11

(* Each call for one container.                                            *)
Calls(n) == \E g, c : CallMade(n, g, c)

(* It leaves the records it was expected to hold.                          *)
LEMMA CallLeaves ==
  ASSUME ContainerInv, NEW n, IsHandle(n), NEW g, Call(n, g), UNCHANGED kept,
         Leaves(Handle(n), g, kept[findContainerHandleNumber(n)])
  PROVE  Calls(n)
BY DEF Calls, CallMade

LEMMA SetCalls ==
  ASSUME ContainerInv, NEW n, NEW v \in Values, containerSet(n, v)
  PROVE  Calls(n)
<1> DEFINE i == findContainerHandleNumber(n)
<1>1. IsHandle(n) /\ Holds(Handle(n), kept[i])
  BY HandleNow DEF containerSet, Named
<1>2. Leaves(Handle(n), [Handle(n) EXCEPT !.data = v], kept[i])
  BY <1>1, SetsData DEF Records
<1> QED BY <1>1, <1>2, CallLeaves DEF containerSet

LEMMA GetFieldCalls ==
  ASSUME ContainerInv, NEW n, containerGetField(n)
  PROVE  Calls(n)
<1> DEFINE i == findContainerHandleNumber(n)
           h == Handle(n)
           v == IF h.current \in {HEAD, TAIL} THEN h.data ELSE h.current.val
<1>1. IsHandle(n) /\ Holds(h, kept[i])
  BY HandleNow DEF containerGetField, Named
<1>2. v \in Records
  BY <1>1, CarrierFacts DEF Holds, InContainer
<1>3. Call(n, [h EXCEPT !.data = v]) /\ UNCHANGED kept
  BY DEF containerGetField
<1> HIDE DEF v
<1>4. Leaves(h, [h EXCEPT !.data = v], kept[i])
  BY <1>1, <1>2, SetsData
<1> QED BY <1>1, <1>3, <1>4, CallLeaves

LEMMA AddCalls ==
  ASSUME ContainerInv, NEW n, NEW heavy, containerAddRecord(n, heavy)
  PROVE  Calls(n)
<1> DEFINE i == findContainerHandleNumber(n)
           h == Handle(n)
           s == addShellItem(h.shl, NewLink(h), heavy)
           f == Sits(h, s, ListCurrent(s))
           g == Grown(h, s)
           c == [kept[i] EXCEPT ![h.data] = @ + 1]
<1>1. /\ IsHandle(n) /\ Len(Links(h.shl)) < h.def.records /\ Added(n, h, s)
      /\ Defined(Balance(h.shl, heavy), NewLink(h).key)
  BY DEF containerAddRecord
<1>2. Named(n, i)
  BY <1>1, HandleNow
<1>3. IF s.ret = NONE THEN Leaves(h, f, kept[i]) ELSE Leaves(h, g, c)
  <2>1. Holds(h, kept[i])
    BY <1>2 DEF Named
  <2> HIDE DEF h, i
  <2> QED BY <1>1, <2>1, AddsRecord
<1>4. \/ s.ret = NONE /\ Call(n, f) /\ UNCHANGED kept
      \/ s.ret # NONE /\ Call(n, g) /\ kept' = [kept EXCEPT ![i][h.data] = @ + 1]
  BY <1>1 DEF Added, Sits, Grown
<1>5. [kept EXCEPT ![i][h.data] = @ + 1] = [kept EXCEPT ![i] = c]
  OBVIOUS
<1> HIDE DEF f, g, s, c
<1> QED BY <1>1, <1>3, <1>4, <1>5 DEF Calls, CallMade

LEMMA SearchCalls ==
  ASSUME ContainerInv, NEW n, NEW v \in Values, NEW heavy,
         containerSearch(n, v, heavy) \/ containerQuery(n, v, heavy)
  PROVE  Calls(n)
<1> DEFINE i == findContainerHandleNumber(n)
           h == Handle(n)
           k == container_compare(h.def, v)
<1>1. IsHandle(n) /\ Defined(h.shl, NONE) /\ UNCHANGED kept
  BY DEF containerSearch, containerQuery
<1>2. Holds(h, kept[i])
  BY <1>1, HandleNow DEF Named
<1>3. k \in Int
  BY ContainerAssumption DEF container_compare
<1>4. PICK s \in {findShellItem(h.shl, k, heavy), queryShellItem(h.shl, k, heavy)} :
        Call(n, Searched(h, s).h)
  BY DEF containerSearch, containerQuery, Search
<1> HIDE DEF k
<1>5. Leaves(h, Searched(h, s).h, kept[i])
  <2> HIDE DEF h, i
  <2> QED BY <1>1, <1>2, <1>3, SearchAnswers DEF Answered
<1> QED BY <1>1, <1>4, <1>5, CallLeaves

LEMMA DeleteCalls ==
  ASSUME ContainerInv, NEW n, NEW v \in Values, NEW heavy, containerDeleteRecord(n, v, heavy)
  PROVE  Calls(n)
<1> DEFINE i == findContainerHandleNumber(n)
           h == Handle(n)
           k == container_compare(h.def, v)
           f == Searched(h, findShellItem(h.shl, k, heavy))
           x == f.h
           s == removeShellItem(x.shl, x.current)
           b == kept[i]
           c == [b EXCEPT ![x.current.val] = @ - 1]
<1>1. IsHandle(n) /\ Defined(h.shl, NONE) /\ DeleteFound(n, f)
  BY DEF containerDeleteRecord, Search
<1>2. Holds(h, b)
  BY <1>1, HandleNow DEF Named
<1>3. k \in Int
  BY ContainerAssumption DEF container_compare
<1>4. Answered(h, b, f)
  <2> HIDE DEF h, i, k, b
  <2> QED BY <1>1, <1>2, <1>3, SearchAnswers DEF f
<1> HIDE DEF h, k, f
<1>5. x.def = h.def /\ Holds(x, b)
  BY <1>4 DEF Answered, Leaves
<1>6. CASE f.ret # TRUE
  <2>1. Call(n, x) /\ UNCHANGED kept
    BY <1>1, <1>6 DEF DeleteFound
  <2> QED BY <1>1, <1>4, <2>1, CallLeaves DEF Answered, h
<1>7. CASE f.ret = TRUE
  <2>1. Deleted(n, x, s)
    BY <1>1, <1>7 DEF DeleteFound
  <2>2. Fine(x.shl) /\ x.current \in ToSet(Links(x.shl))
    BY <1>4, <1>7 DEF Answered
  <2> HIDE DEF x, b
  <2>3. IF s.ret = NONE THEN Leaves(x, [x EXCEPT !.shl = s], b) ELSE Leaves(x, Removed(x, s), c)
    BY <1>5, <2>2, DeletesRecord
  <2> HIDE DEF s
  <2>4. CASE s.ret = NONE
    <3>1. Call(n, [x EXCEPT !.shl = s]) /\ UNCHANGED kept
      BY <2>1, <2>4 DEF Deleted
    <3>2. Leaves(h, [x EXCEPT !.shl = s], b)
      BY <1>5, <2>3, <2>4 DEF Leaves
    <3> QED BY <1>1, <3>1, <3>2, CallLeaves DEF h, b
  <2>5. CASE s.ret # NONE
    <3>1. Call(n, Removed(x, s)) /\ kept' = [kept EXCEPT ![i][x.current.val] = @ - 1]
      BY <2>1, <2>5 DEF Deleted
    <3>2. Leaves(h, Removed(x, s), c)
      BY <1>5, <2>3, <2>5 DEF Leaves
    <3>3. kept' = [kept EXCEPT ![i] = c]
      BY <3>1 DEF b
    <3> HIDE DEF c
    <3> QED BY <1>1, <3>1, <3>2, <3>3 DEF Calls, CallMade, h
  <2> QED BY <2>4, <2>5
<1> QED BY <1>6, <1>7

LEMMA MoveCalls ==
  ASSUME ContainerInv, NEW n,
         \/ containerFirst(n) \/ containerLast(n) \/ containerNext(n) \/ containerPrev(n)
  PROVE  Calls(n)
<1> DEFINE i == findContainerHandleNumber(n)
           h == Handle(n)
           B == InContainer(h) \cup {HEAD, TAIL}
<1>1. IsHandle(n)
  BY DEF containerFirst, containerLast, containerNext, containerPrev, Goto
<1>2. Holds(h, kept[i])
  BY <1>1, HandleNow DEF Named
<1>3. /\ \A p \in Int : LinkAt(h, p) \in B
      /\ PlaceOf(h) \in Int /\ Len(Links(h.shl)) \in Int
  BY <1>2, LinkOf, PlaceOfCurrent DEF Holds, ShellOk
<1>4. /\ LinkAt(h, 1) \in B /\ LinkAt(h, Len(Links(h.shl))) \in B
      /\ LinkAt(h, PlaceOf(h) + 1) \in B /\ LinkAt(h, PlaceOf(h) - 1) \in B
      /\ HEAD \in B /\ TAIL \in B
  BY <1>3
<1>5. \E l \in B : Goto(n, l)
  <2> HIDE DEF B
  <2>1. CASE containerFirst(n)
    BY <1>4, <2>1 DEF containerFirst
  <2>2. CASE containerLast(n)
    BY <1>4, <2>2 DEF containerLast
  <2>3. CASE containerNext(n)
    BY <1>4, <2>3 DEF containerNext
  <2>4. CASE containerPrev(n)
    BY <1>4, <2>4 DEF containerPrev
  <2> QED BY <2>1, <2>2, <2>3, <2>4
<1>6. PICK l \in B : Call(n, [h EXCEPT !.current = l]) /\ UNCHANGED kept
  BY <1>5 DEF Goto
<1>7. Leaves(h, [h EXCEPT !.current = l], kept[i])
  BY <1>2, SetsCurrent
<1> QED BY <1>1, <1>6, <1>7, CallLeaves

LEMMA RestructureCalls ==
  ASSUME ContainerInv, NEW n, containerRestructureIndex(n)
  PROVE  Calls(n)
<1> DEFINE i == findContainerHandleNumber(n)
           h == Handle(n)
           g == [h EXCEPT !.shl = restructureShellNodes(@)]
<1>1. IsHandle(n) /\ Call(n, g) /\ UNCHANGED kept
  BY DEF containerRestructureIndex
<1>2. Holds(h, kept[i])
  BY <1>1, HandleNow DEF Named
<1>3. Leaves(h, g, kept[i])
  BY <1>2, RestructuresShell
<1> QED BY <1>1, <1>3, CallLeaves

(* A step of the containers: the invariant stays, and no container but the *)
(* one of the name n is touched.                                           *)
Spares(n) == ContainerInv' /\ \A m : m # n => Spared(m)

LEMMA CallSpares ==
  ASSUME ContainerInv, NEW n, Calls(n)
  PROVE  Spares(n)
BY CallKeeps DEF Calls, Spares

LEMMA NewHolds ==
  ASSUME NEW def, def.records \in Nat
  PROVE  /\ NewHandle(def).def = def
         /\ Holds(NewHandle(def), [v \in Records |-> 0])
<1> DEFINE h == NewHandle(def)
           s == initShell(def.isUnique)
           b == [v \in Records |-> 0]
<1>1. /\ h = [def |-> def, shl |-> s, current |-> HEAD, data |-> 0, numRecords |-> 0]
      /\ s.lh.cur = 0
  BY DEF NewHandle, initShell, InitList
<1>2. Fine(s) /\ Links(s) = <<>> /\ s.lh.type = "UNSORTED"
  BY NewShell
<1>3. ToSet(Links(s)) = {} /\ Len(Links(s)) = 0
  BY <1>2, EmptySeq DEF ToSet
<1>4. ShellOk(s)
  BY <1>2, FineOk
<1>5. Counts(Links(s), b)
  <2>1. \A v \in Records : With(Links(s), v) = {}
    BY <1>3 DEF With
  <2> QED BY <2>1, FS_EmptySet DEF Counts
<1> HIDE DEF h, s, b
<1>6. h.def = def /\ Holds(h, b)
  BY <1>1, <1>2, <1>3, <1>4, <1>5, CarrierFacts DEF Holds, InContainer
<1> QED BY <1>6 DEF h, b

LEMMA SeqAppends ==
  ASSUME NEW q, IsSeq(q), NEW e
  PROVE  LET t == Append(q, e)
         IN /\ IsSeq(t) /\ Len(t) = Len(q) + 1 /\ DOMAIN t = 1..Len(q) + 1
            /\ DOMAIN q = 1..Len(q) /\ Len(q) \in Nat
            /\ t[Len(q) + 1] = e /\ \A j \in DOMAIN q : t[j] = q[j]
<1>1. PICK S : q \in Seq(S)
  BY DEF IsSeq
<1>2. q \in Seq(S \cup {e})
  BY <1>1
<1>3. /\ Append(q, e) \in Seq(S \cup {e}) /\ Len(Append(q, e)) = Len(q) + 1
      /\ \A j \in 1..Len(q) : Append(q, e)[j] = q[j]
      /\ Append(q, e)[Len(q) + 1] = e
      /\ Len(q) \in Nat /\ DOMAIN q = 1..Len(q)
      /\ DOMAIN Append(q, e) = 1..Len(q) + 1
  BY <1>2, AppendProperties, LenProperties
<1> QED BY <1>3 DEF IsSeq

LEMMA InitSpares ==
  ASSUME ContainerInv, NEW d, containerInit(d)
  PROVE  Spares(d.name)
<1> DEFINE n == d.name
           l == Len(handles)
<1>1. /\ d \in script.files /\ script' = script
      /\ handles' = Append(handles, NewHandle(d)) /\ kept' = Append(kept, [v \in Records |-> 0])
  BY DEF containerInit
<1>2. NewHandle(d).def = d /\ Holds(NewHandle(d), [v \in Records |-> 0])
  BY <1>1, ContainerAssumption, NewHolds DEF ContainerInv
<1>3. /\ IsSeq(handles') /\ Len(handles') = l + 1 /\ DOMAIN handles' = 1..l + 1
      /\ DOMAIN handles = 1..l /\ l \in Nat /\ handles'[l + 1] = NewHandle(d)
      /\ \A j \in DOMAIN handles : handles'[j] = handles[j]
  BY <1>1, SeqAppends DEF ContainerInv
<1>4. /\ IsSeq(kept') /\ Len(kept') = l + 1 /\ kept'[l + 1] = [v \in Records |-> 0]
      /\ \A j \in 1..l : kept'[j] = kept[j]
  BY <1>1, SeqAppends DEF ContainerInv
<1> HIDE DEF l, n
<1>5. \A j \in DOMAIN handles' : handles'[j].def \in script.files /\ Holds(handles'[j], kept'[j])
  <2>1. TAKE j \in DOMAIN handles'
  <2>2. j \in DOMAIN handles \/ j = l + 1
    BY <1>3, <2>1
  <2> QED BY <1>1, <1>2, <1>3, <1>4, <2>2 DEF ContainerInv
<1>6. ContainerInv'
  BY <1>1, <1>3, <1>4, <1>5 DEF ContainerInv
<1>7. ASSUME NEW m, IsHandle(m) PROVE IsHandle(m)' /\ Handle(m)' = Handle(m)
  <2> DEFINE p == Seek(handles, m)
  <2>1. Named(m, p)
    BY <1>7, HandleNow DEF Named
  <2>2. /\ handles[p].def.name = m /\ p # 0 /\ p \in DOMAIN handles
        /\ \A j \in 1..p - 1 : handles[j].def.name # m
    BY <1>7, <2>1, SeekFacts DEF Named, ContainerInv, IsHandle
  <2> HIDE DEF p
  <2>3. /\ p \in DOMAIN handles' /\ handles'[p] = handles[p]
        /\ \A j \in 1..p - 1 : handles'[j].def.name # m
    BY <1>3, <2>2
  <2>4. Seek(handles', m) = p
    BY <1>3, <2>2, <2>3, SeekIs
  <2>5. findContainerHandleNumber(m)' = p
    BY <2>4 DEF findContainerHandleNumber, Seek, SelectInSeq
  <2> QED BY <2>1, <2>2, <2>3, <2>5 DEF IsHandle, Handle, Named
<1>8. \A m : Spared(m)
  BY <1>7 DEF Spared
<1> QED BY <1>6, <1>8 DEF Spares

LEMMA DeleteSpares ==
  ASSUME ContainerInv, NEW n, containerDelete(n)
  PROVE  Spares(n)
<1> DEFINE i == findContainerHandleNumber(n)
           l == Len(handles)
<1>1. /\ IsHandle(n) /\ script' = script
      /\ handles' = RemoveAt(handles, i) /\ kept' = RemoveAt(kept, i)
  BY DEF containerDelete, without
<1>2. Named(n, i)
  BY <1>1, HandleNow
<1> HIDE DEF i
<1>3. DOMAIN handles = 1..l /\ l \in Nat /\ i \in 1..l
  BY <1>2, LenProperties DEF ContainerInv, IsSeq, Named
<1>4. PICK S : handles \in Seq(S)
  BY DEF ContainerInv, IsSeq
<1>5. PICK K : kept \in Seq(K)
  BY DEF ContainerInv, IsSeq
<1>6. ShrunkAt(S, handles, i, handles') /\ ShrunkAt(K, kept, i, kept')
  BY <1>1, <1>3, <1>4, <1>5, RemoveShrinks DEF ContainerInv
<1>7. /\ IsSeq(handles') /\ IsSeq(kept') /\ Len(handles') = l - 1 /\ Len(kept') = l - 1
      /\ DOMAIN handles' = 1..l - 1
      /\ \A j \in 1..i - 1 : handles'[j] = handles[j] /\ kept'[j] = kept[j]
      /\ \A j \in i..l - 1 : handles'[j] = handles[j + 1] /\ kept'[j] = kept[j + 1]
  BY <1>6 DEF ShrunkAt, IsSeq, ContainerInv
<1> HIDE DEF l
<1>8. \A j \in 1..l - 1 : handles'[j].def \in script.files /\ Holds(handles'[j], kept'[j])
  <2>1. TAKE j \in 1..l - 1
  <2>2. \/ j \in 1..l /\ handles'[j] = handles[j] /\ kept'[j] = kept[j]
        \/ j + 1 \in 1..l /\ handles'[j] = handles[j + 1] /\ kept'[j] = kept[j + 1]
    BY <1>3, <1>7, <2>1
  <2> QED BY <1>3, <2>2 DEF ContainerInv
<1>9. ContainerInv'
  BY <1>1, <1>7, <1>8 DEF ContainerInv
<1>10. ASSUME NEW m, m # n, IsHandle(m) PROVE IsHandle(m)' /\ Handle(m)' = Handle(m)
  <2> DEFINE p == Seek(handles, m)
             r == IF p < i THEN p ELSE p - 1
  <2>1. Named(m, p)
    BY <1>10, HandleNow DEF Named
  <2>2. /\ handles[p].def.name = m /\ p # 0 /\ p \in DOMAIN handles
        /\ \A j \in 1..p - 1 : handles[j].def.name # m
    BY <1>10, <2>1, SeekFacts DEF Named, ContainerInv, IsHandle
  <2>3. handles[i].def.name = n
    BY <1>1, <1>2, SeekFacts DEF Named, ContainerInv, IsHandle, i
  <2>4. p # i
    BY <1>10, <2>2, <2>3
  <2> HIDE DEF p
  <2>5. /\ r \in 1..l - 1 /\ handles'[r] = handles[p]
        /\ \A j \in 1..r - 1 : handles'[j].def.name # m
    <3>1. CASE p < i
      BY <1>3, <1>7, <2>2, <3>1
    <3>2. CASE p > i
      <4>1. r = p - 1 /\ r \in i..l - 1 /\ handles'[r] = handles[p]
        BY <1>3, <1>7, <2>2, <3>2
      <4>2. \A j \in 1..r - 1 : \E q \in 1..p - 1 : handles'[j] = handles[q]
        <5>1. TAKE j \in 1..r - 1
        <5>2. CASE j < i
          <6>1. j \in 1..i - 1 /\ j \in 1..p - 1
            BY <1>3, <2>2, <3>2, <4>1, <5>1, <5>2
          <6> QED BY <1>7, <6>1
        <5>3. CASE j >= i
          <6>1. j \in i..l - 1 /\ j + 1 \in 1..p - 1
            BY <1>3, <2>2, <3>2, <4>1, <5>1, <5>3
          <6> QED BY <1>7, <6>1
        <5> QED BY <1>3, <5>1, <5>2, <5>3
      <4> QED BY <1>3, <2>2, <4>1, <4>2
    <3> QED BY <1>3, <2>2, <2>4, <3>1, <3>2
  <2> HIDE DEF r
  <2>6. Seek(handles', m) = r
    BY <1>7, <2>2, <2>5, SeekIs
  <2>7. findContainerHandleNumber(m)' = r /\ r # 0
    BY <1>3, <2>5, <2>6 DEF findContainerHandleNumber, Seek, SelectInSeq
  <2> QED BY <2>1, <2>5, <2>7 DEF IsHandle, Handle, Named
<1>11. \A m : m # n => Spared(m)
  BY <1>10 DEF Spared
<1> QED BY <1>9, <1>11 DEF Spares

LEMMA ClearsHandle ==
  ASSUME NEW h, NEW b, Holds(h, b)
  PROVE  LET g == [h EXCEPT !.shl.error = "NOERROR"]
         IN Leaves(h, g, b) /\ Links(g.shl) = Links(h.shl) /\ g.current = h.current
<1> DEFINE s == [h.shl EXCEPT !.error = "NOERROR"]
           g == [h EXCEPT !.shl = s]
<1>1. /\ Rec(s) /\ s.lh = h.shl.lh /\ s.nodes = h.shl.nodes /\ s.level = h.shl.level
      /\ s.isUnique = h.shl.isUnique
  BY DEF Holds, ShellOk, Rec
<1>2. [h EXCEPT !.shl.error = "NOERROR"] = g
  BY DEF Holds
<1> HIDE DEF s
<1>3. Links(s) = Links(h.shl) /\ (Intact(s) <=> Intact(h.shl))
  BY <1>1 DEF Links, Intact
<1>4. SameLinks(h.shl, s)
  BY <1>1, <1>3 DEF SameLinks, ShellOk, Holds
<1>5. Leaves(h, g, b)
  BY <1>4, SetsShell
<1>6. g.shl = s /\ g.current = h.current
  BY DEF Holds
<1> QED BY <1>2, <1>3, <1>5, <1>6

LEMMA ClearSpares ==
  ASSUME ContainerInv, containerClearError
  PROVE  /\ ContainerInv' /\ \A m : Spared(m)
         /\ handles = <<>> => UNCHANGED vars
<1> DEFINE g(j) == [handles[j] EXCEPT !.shl.error = "NOERROR"]
           l == Len(handles)
<1>1. /\ handles' = [j \in DOMAIN handles |-> g(j)]
      /\ kept' = kept /\ script' = script
  BY DEF containerClearError
<1>2. DOMAIN handles = 1..l /\ l \in Nat
  BY LenProperties DEF ContainerInv, IsSeq
<1>3. \A j \in DOMAIN handles :
        /\ Leaves(handles[j], g(j), kept[j]) /\ Links(g(j).shl) = Links(handles[j].shl)
        /\ g(j).current = handles[j].current
  BY ClearsHandle DEF ContainerInv
<1> HIDE DEF g, l
<1>4. DOMAIN handles' = 1..l /\ \A j \in 1..l : handles'[j] = g(j)
  BY <1>1, <1>2
<1>5. IsSeq(handles') /\ Len(handles') = l
  <2>1. handles' \in [1..l -> {g(j) : j \in 1..l}]
    BY <1>1, <1>2
  <2>2. handles' \in Seq({g(j) : j \in 1..l})
    BY <1>2, <2>1, SeqDef
  <2> QED BY <1>2, <1>4, <2>2, LenProperties DEF IsSeq
<1>6. \A j \in 1..l : handles'[j].def = handles[j].def /\ Holds(handles'[j], kept[j])
  BY <1>2, <1>3, <1>4 DEF Leaves
<1>7. ContainerInv'
  <2>1. \A j \in DOMAIN handles' : handles'[j].def \in script.files /\ Holds(handles'[j], kept[j])
    BY <1>2, <1>4, <1>6 DEF ContainerInv
  <2> QED BY <1>1, <1>5, <2>1 DEF ContainerInv, l
<1>8. ASSUME NEW m, IsHandle(m) PROVE Spared(m)
  <2> DEFINE p == Seek(handles, m)
  <2>1. Named(m, p)
    BY <1>8, HandleNow DEF Named
  <2>2. /\ handles[p].def.name = m /\ p # 0 /\ p \in DOMAIN handles
        /\ \A j \in 1..p - 1 : handles[j].def.name # m
    BY <1>8, <2>1, SeekFacts DEF Named, ContainerInv, IsHandle
  <2> HIDE DEF p
  <2>3. /\ p \in DOMAIN handles' /\ handles'[p].def.name = m
        /\ \A j \in 1..p - 1 : handles'[j].def.name # m
    BY <1>2, <1>4, <1>6, <2>2
  <2>4. Seek(handles', m) = p
    BY <1>5, <2>3, SeekIs
  <2>5. findContainerHandleNumber(m)' = p
    BY <2>4 DEF findContainerHandleNumber, Seek, SelectInSeq
  <2>6. Links(handles'[p].shl) = Links(handles[p].shl) /\ handles'[p].current = handles[p].current
    BY <1>2, <1>3, <1>4, <2>2
  <2>7. Handle(m)' = handles'[p] /\ Handle(m) = handles[p]
    BY <2>1, <2>5 DEF Handle, Named
  <2>8. Links(Handle(m).shl)' = Links(handles'[p].shl) /\ Handle(m).current' = handles'[p].current
    BY <2>7 DEF Links
  <2> QED BY <2>2, <2>5, <2>6, <2>7, <2>8 DEF IsHandle, Spared
<1>9. \A m : Spared(m)
  BY <1>8 DEF Spared
<1>10. ASSUME handles = <<>> PROVE handles' = handles
  <2>1. l = 0
    BY <1>2, <1>10, EmptySeq DEF l
  <2> QED BY <1>2, <1>5, <1>10, <2>1, EmptySeq DEF IsSeq
<1> QED BY <1>1, <1>7, <1>9, <1>10 DEF vars

LEMMA ContainerStarts ==
  ASSUME Init
  PROVE  ContainerInv
<1>1. handles = <<>> /\ kept = <<>> /\ script \in Scripts
  BY DEF Init
<1>2. <<>> \in Seq({}) /\ DOMAIN <<>> = {}
  OBVIOUS
<1> QED BY <1>1, <1>2 DEF ContainerInv, IsSeq

(* Every step of Next but containerClearError is for one container.        *)
LEMMA StepSpares ==
  ASSUME ContainerInv, Next
  PROVE  containerClearError \/ \E n \in Names : Spares(n)
<1>1. ASSUME NEW d \in Files, containerInit(d) PROVE \E n \in Names : Spares(n)
  <2>1. d.name \in Names
    BY DEF Names
  <2> QED BY <1>1, <2>1, InitSpares
<1>2. ASSUME NEW n \in Names, containerDelete(n) PROVE Spares(n)
  BY <1>2, DeleteSpares
<1>3. ASSUME NEW n \in Names, containerGetField(n) PROVE Spares(n)
  BY <1>3, GetFieldCalls, CallSpares
<1>4. ASSUME NEW n \in Names,
             containerFirst(n) \/ containerLast(n) \/ containerNext(n) \/ containerPrev(n)
      PROVE  Spares(n)
  BY <1>4, MoveCalls, CallSpares
<1>5. ASSUME NEW n \in Names, containerRestructureIndex(n) PROVE Spares(n)
  BY <1>5, RestructureCalls, CallSpares
<1>6. ASSUME NEW n \in Names, NEW v \in Values, containerSet(n, v) PROVE Spares(n)
  BY <1>6, SetCalls, CallSpares
<1>7. ASSUME NEW n \in Names, NEW heavy \in Heavy, containerAddRecord(n, heavy) PROVE Spares(n)
  BY <1>7, AddCalls, CallSpares
<1>8. ASSUME NEW n \in Names, NEW v \in Values, NEW heavy \in Heavy,
             containerSearch(n, v, heavy) \/ containerQuery(n, v, heavy)
      PROVE  Spares(n)
  BY <1>8, SearchCalls, CallSpares
<1>9. ASSUME NEW n \in Names, NEW v \in Values, NEW heavy \in Heavy,
             containerDeleteRecord(n, v, heavy)
      PROVE  Spares(n)
  BY <1>9, DeleteCalls, CallSpares
<1> QED BY <1>1, <1>2, <1>3, <1>4, <1>5, <1>6, <1>7, <1>8, <1>9 DEF Next

LEMMA ContainerSteps ==
  ASSUME ContainerInv, [Next]_vars
  PROVE  ContainerInv'
<1>1. CASE Next
  BY <1>1, StepSpares, ClearSpares DEF Spares
<1>2. CASE UNCHANGED vars
  BY <1>2 DEF vars, ContainerInv
<1> QED BY <1>1, <1>2

LEMMA ContainerStays == Spec => []ContainerInv
BY ContainerStarts, ContainerSteps, PTL DEF Spec

(* Through containerAddRecord, with its search for the place, its refusals *)
(* and its splices, and through containerDeleteRecord, which deletes the   *)
(* record its own search finds, a container holds each record exactly as   *)
(* often as the script has added and not deleted it, and in order.         *)
THEOREM ContentsStayExact == Spec => []ContentsExact
<1>1. ASSUME ContainerInv PROVE ContentsExact
  <2>1. SUFFICES ASSUME NEW i \in DOMAIN handles
                 PROVE  LET l == Links(handles[i].shl)
                        IN /\ handles[i].numRecords = Len(l)
                           /\ {l[p].val : p \in DOMAIN l} \subseteq Records
                           /\ \A v \in Records :
                                Cardinality({p \in DOMAIN l : l[p].val = v}) = kept[i][v]
                           /\ \A p, q \in DOMAIN l : p < q => l[p].key <= l[q].key
    BY DEF ContentsExact
  <2> DEFINE l == Links(handles[i].shl)
  <2>2. Holds(handles[i], kept[i])
    BY <1>1 DEF ContainerInv
  <2>3. Sorted(l) /\ handles[i].numRecords = Len(l) /\ ToSet(l) \subseteq Carrier
        /\ Counts(l, kept[i])
    BY <2>2 DEF Holds, ShellOk
  <2> HIDE DEF l
  <2>4. \A p \in DOMAIN l : l[p] \in ToSet(l)
    BY DEF ToSet
  <2>5. {l[p].val : p \in DOMAIN l} \subseteq Records
    BY <2>3, <2>4, CarrierFacts
  <2>6. \A v \in Records : Cardinality({p \in DOMAIN l : l[p].val = v}) = kept[i][v]
    BY <2>3, CountPlaces DEF Counts
  <2>7. \A p, q \in DOMAIN l : p < q => l[p].key <= l[q].key
    BY <2>3 DEF Sorted, Ordered
  <2> QED BY <2>3, <2>5, <2>6, <2>7 DEF l
<1> QED BY <1>1, ContainerStays, PTL

(* The current record of a container is one of its records or a sentinel,  *)
(* also after containerDeleteRecord has freed the link it was on: the next *)
(* containerNext, containerGetField or containerDeleteRecord reads no link *)
(* that is gone.                                                           *)
THEOREM CursorsStayAlive == Spec => []CursorAlive
<1>1. ASSUME ContainerInv PROVE CursorAlive
  BY <1>1 DEF ContainerInv, Holds, CursorAlive
<1> QED BY <1>1, ContainerStays, PTL

(* A call with the name of one container leaves the records and the cursor *)
(* of every other one, and containerDelete, which moves the handles behind *)
(* the deleted one down, leaves each where findContainerHandleNumber finds *)
(* it.                                                                     *)
THEOREM OthersStayUntouched == Spec => OthersUntouched
<1> DEFINE A == /\ \E n \in Names : \A m \in Names \ {n} : Spared(m)
                /\ \A n \in Names : containerDelete(n) => \A m \in Names \ {n} : Spared(m)
<1>1. ASSUME ContainerInv, [Next]_vars PROVE [A]_vars
  <2>1. CASE UNCHANGED vars
    BY <2>1
  <2>2. CASE Next
    <3>1. \A n \in Names : containerDelete(n) => \A m \in Names \ {n} : Spared(m)
      BY <1>1, DeleteSpares DEF Spares
    <3>2. CASE \E n \in Names : Spares(n)
      BY <3>1, <3>2 DEF Spares
    <3>3. CASE containerClearError
      <4>1. CASE Names # {}
        BY <1>1, <3>1, <3>3, <4>1, ClearSpares
      <4>2. CASE Names = {}
        <5>1. DOMAIN handles = {}
          BY <1>1, <4>2 DEF ContainerInv, Names, Files
        <5>2. handles = <<>>
          <6>1. PICK S : handles \in Seq(S)
            BY <1>1 DEF ContainerInv, IsSeq
          <6>2. Len(handles) = 0
            BY <5>1, <6>1, LenProperties
          <6> QED BY <6>1, <6>2, EmptySeq
        <5> QED BY <1>1, <3>3, <5>2, ClearSpares
      <4> QED BY <4>1, <4>2
    <3> QED BY <1>1, <2>2, <3>2, <3>3, StepSpares
  <2> QED BY <1>1, <2>1, <2>2
<1>2. Spec => [][A]_vars
  BY <1>1, ContainerStays, PTL DEF Spec
<1> QED BY <1>2 DEF OthersUntouched
=============================================================================
