---------------------------- MODULE TableProofs ----------------------------
(***************************************************************************)
(* What module Table keeps, for every number of fields, indexes and        *)
(* records, every TABLE_FLUSH but 0 and 1 and every buffer of packTable.   *)
(*                                                                         *)
(* A call is followed through: what it does to one index (PutKeyMakes),    *)
(* to all of them one after the other (PutKeysMakes), and to the records   *)
(* as well (AddRecordMakes).  An index that has the rows W is              *)
(* SetToBag(Rows(i, W)), and the lemmas ListingGrows and ListingChanges    *)
(* say what becomes of it when a record is added or changed.  The          *)
(* invariant is TblInv: Base holds of any table, Cursor, Reported and      *)
(* HeaderNear of an open one, and Intact of one that needs no reindexing.  *)
(***************************************************************************)
EXTENDS Table, ListFacts

(* What the record tbl can be.                                             *)
Vals   == [Fields -> Nat]
Record == [deleted : BOOLEAN, vals : Vals]
Key    == UNION {[c -> Nat] : c \in SUBSET Fields}
KeyPair == [key : Key, item : Nat]
Bag    == UNION {[S -> Nat \ {0}] : S \in SUBSET KeyPair}

DbErrors  == {"DB_NOERROR", "DB_UNIQUE", "DB_INDEX", "DB_IO_READWRITE"}
IdxErrors == {"IDX_NOERR", "IDX_UNIQUE", "IDX_NEXISTS"}

Tbl ==
  [file : Seq(Record), header : Nat, index : [DOMAIN Indexes -> Bag],
   unique : [DOMAIN Indexes -> BOOLEAN], locked : BOOLEAN,
   numRecords : Nat, crec : Nat, offset : Int, bof : BOOLEAN, eof : BOOLEAN,
   marked : BOOLEAN, dbError : DbErrors, idxError : IdxErrors, ok : BOOLEAN,
   rejected : Seq(Vals)]

(* A call on the indexes leaves all but these alone.                       *)
Same(t, u) ==
  /\ u.file = t.file /\ u.header = t.header /\ u.unique = t.unique
  /\ u.locked = t.locked /\ u.numRecords = t.numRecords /\ u.crec = t.crec
  /\ u.offset = t.offset /\ u.bof = t.bof /\ u.eof = t.eof
  /\ u.marked = t.marked /\ u.rejected = t.rejected

N == Len(Indexes)

LEMMA IndexFacts ==
  /\ N \in Nat /\ DOMAIN Indexes = 1..N
  /\ \A i \in 1..N : /\ Indexes[i].columns \in SUBSET Fields /\ Indexes[i].columns # {}
                     /\ Indexes[i].isUnique \in BOOLEAN /\ Indexes[i].isCase \in BOOLEAN
                     /\ Indexes[i].isMulti \in BOOLEAN
                     /\ Indexes[i].isMulti => ~Indexes[i].isUnique
<1> DEFINE K == [columns : (SUBSET Fields) \ {{}},
                 isUnique : BOOLEAN, isCase : BOOLEAN, isMulti : BOOLEAN]
<1>1. Indexes \in Seq(K)
  BY IndexesAssumption
<1>2. N \in Nat /\ DOMAIN Indexes = 1..N /\ \A i \in 1..N : Indexes[i] \in K
  <2> HIDE DEF K
  <2> QED BY <1>1, LenProperties DEF N
<1>3. \A e \in K : /\ e.columns \in SUBSET Fields /\ e.columns # {}
                   /\ e.isUnique \in BOOLEAN /\ e.isCase \in BOOLEAN /\ e.isMulti \in BOOLEAN
  OBVIOUS
<1>4. \A i \in 1..N : Indexes[i].isMulti => ~Indexes[i].isUnique
  BY <1>2, IndexesAssumption
<1> HIDE DEF K
<1> QED BY <1>2, <1>3, <1>4

LEMMA PairFacts ==
  ASSUME NEW i \in 1..N, NEW v \in Vals, NEW n \in Nat
  PROVE  /\ Pair(i, v, n) \in KeyPair /\ Pair(i, v, n).key = KeyOf(i, v)
         /\ Pair(i, v, n).item = n
<1>1. KeyOf(i, v) \in [Indexes[i].columns -> Nat]
  BY IndexFacts DEF KeyOf, Vals
<1>2. KeyOf(i, v) \in Key
  BY <1>1, IndexFacts DEF Key
<1> QED BY <1>2 DEF Pair, KeyPair

(* Adding a pair to a bag, and taking one away.                            *)
LEMMA BagChanges ==
  ASSUME NEW b \in Bag, NEW x \in KeyPair
  PROVE  /\ BagAdd(b, x) \in Bag /\ DOMAIN BagAdd(b, x) = DOMAIN b \cup {x}
         /\ BagRemove(b, x) \in Bag
<1>1. PICK S \in SUBSET KeyPair : b \in [S -> Nat \ {0}]
  BY DEF Bag
<1>2. CASE x \in S
  <2>1. BagAdd(b, x) = [e \in S |-> IF e = x THEN b[e] + 1 ELSE b[e]]
    BY <1>1, <1>2 DEF BagAdd
  <2>2. [e \in S |-> IF e = x THEN b[e] + 1 ELSE b[e]] \in [S -> Nat \ {0}]
    BY <1>1
  <2>3. BagRemove(b, x) = IF b[x] = 1 THEN [e \in S \ {x} |-> b[e]]
                          ELSE [e \in S |-> IF e = x THEN b[e] - 1 ELSE b[e]]
    BY <1>1, <1>2 DEF BagRemove
  <2>4. [e \in S \ {x} |-> b[e]] \in [S \ {x} -> Nat \ {0}]
    BY <1>1
  <2>5. b[x] # 1 => [e \in S |-> IF e = x THEN b[e] - 1 ELSE b[e]] \in [S -> Nat \ {0}]
    BY <1>1
  <2>6. \A R \in SUBSET KeyPair : \A c : c \in [R -> Nat \ {0}] => c \in Bag
    BY DEF Bag
  <2>7. BagRemove(b, x) \in Bag
    BY <2>3, <2>4, <2>5, <2>6
  <2>8. BagAdd(b, x) \in Bag
    BY <2>1, <2>2, <2>6
  <2>9. DOMAIN BagAdd(b, x) = DOMAIN b \cup {x}
    BY <1>1, <1>2, <2>1
  <2> QED BY <2>7, <2>8, <2>9
<1>3. CASE x \notin S
  <2>1. BagAdd(b, x) = [e \in S \cup {x} |-> IF e = x THEN 1 ELSE b[e]]
    BY <1>1, <1>3 DEF BagAdd
  <2>2. [e \in S \cup {x} |-> IF e = x THEN 1 ELSE b[e]] \in [S \cup {x} -> Nat \ {0}]
    BY <1>1
  <2>3. S \cup {x} \in SUBSET KeyPair
    OBVIOUS
  <2>4. BagRemove(b, x) = b
    BY <1>1, <1>3 DEF BagRemove
  <2>5. DOMAIN BagAdd(b, x) = DOMAIN b \cup {x}
    BY <1>1, <2>1
  <2>6. BagAdd(b, x) \in Bag
    BY <2>1, <2>2, <2>3 DEF Bag
  <2> QED BY <2>4, <2>5, <2>6
<1> QED BY <1>2, <1>3

(* The bag that has every element of S once.                               *)
LEMMA SetBags ==
  ASSUME NEW S \in SUBSET KeyPair, NEW x \in KeyPair
  PROVE  /\ SetToBag(S) \in Bag /\ DOMAIN SetToBag(S) = S
         /\ x \notin S => BagAdd(SetToBag(S), x) = SetToBag(S \cup {x})
         /\ x \in S => BagRemove(SetToBag(S), x) = SetToBag(S \ {x})
<1>1. \A R : SetToBag(R) = [e \in R |-> 1]
  BY DEF SetToBag
<1>2. SetToBag(S) \in [S -> Nat \ {0}]
  BY <1>1
<1>3. SetToBag(S) \in Bag
  BY <1>2 DEF Bag
<1>4. x \notin S => BagAdd(SetToBag(S), x) = SetToBag(S \cup {x})
  <2>1. ASSUME x \notin S
        PROVE  [e \in S \cup {x} |-> IF e = x THEN 1 ELSE [f \in S |-> 1][e]] =
               [e \in S \cup {x} |-> 1]
    BY <2>1
  <2> QED BY <1>1, <2>1 DEF BagAdd
<1>5. x \in S => BagRemove(SetToBag(S), x) = SetToBag(S \ {x})
  <2>1. [e \in S \ {x} |-> [f \in S |-> 1][e]] = [e \in S \ {x} |-> 1]
    OBVIOUS
  <2> QED BY <1>1, <2>1 DEF BagRemove
<1>6. DOMAIN SetToBag(S) = S
  BY <1>1
<1> QED BY <1>3, <1>4, <1>5, <1>6

-----------------------------------------------------------------------------
(* One index.  The type of a record is kept by each of the changes made.   *)
LEMMA TblFields ==
  ASSUME NEW t \in Tbl
  PROVE  /\ t.file \in Seq(Record) /\ t.header \in Nat
         /\ t.index \in [1..N -> Bag] /\ t.unique \in [1..N -> BOOLEAN]
         /\ t.numRecords \in Nat /\ t.crec \in Nat /\ t.offset \in Int
         /\ t.locked \in BOOLEAN /\ t.bof \in BOOLEAN /\ t.eof \in BOOLEAN
         /\ t.marked \in BOOLEAN /\ t.dbError \in DbErrors /\ t.idxError \in IdxErrors
         /\ t.ok \in BOOLEAN /\ t.rejected \in Seq(Vals)
BY IndexFacts DEF Tbl

(* One field of tbl is given another value.                                *)
LEMMA FieldChanges ==
  ASSUME NEW t \in Tbl
  PROVE  /\ \A x \in Seq(Record) : [t EXCEPT !.file = x] \in Tbl
         /\ \A x \in Nat : /\ [t EXCEPT !.header = x] \in Tbl
                         /\ [t EXCEPT !.numRecords = x] \in Tbl
         /\ \A x \in [DOMAIN Indexes -> Bag] : [t EXCEPT !.index = x] \in Tbl
         /\ \A x \in [DOMAIN Indexes -> BOOLEAN] : [t EXCEPT !.unique = x] \in Tbl
         /\ \A x \in Nat : [t EXCEPT !.crec = x] \in Tbl
         /\ \A x \in Int : [t EXCEPT !.offset = x] \in Tbl
         /\ \A x \in BOOLEAN : /\ [t EXCEPT !.locked = x] \in Tbl /\ [t EXCEPT !.ok = x] \in Tbl
                             /\ [t EXCEPT !.bof = x] \in Tbl /\ [t EXCEPT !.eof = x] \in Tbl
                             /\ [t EXCEPT !.marked = x] \in Tbl
         /\ \A x \in DbErrors : [t EXCEPT !.dbError = x] \in Tbl
         /\ \A x \in IdxErrors : [t EXCEPT !.idxError = x] \in Tbl
         /\ \A x \in Seq(Vals) : [t EXCEPT !.rejected = x] \in Tbl
<1>1. /\ \A x \in Seq(Record) : [t EXCEPT !.file = x] \in Tbl
      /\ \A x \in Nat : [t EXCEPT !.header = x] \in Tbl
      /\ \A x \in Nat : [t EXCEPT !.numRecords = x] \in Tbl
  BY DEF Tbl
<1>2. /\ \A x \in [DOMAIN Indexes -> Bag] : [t EXCEPT !.index = x] \in Tbl
      /\ \A x \in [DOMAIN Indexes -> BOOLEAN] : [t EXCEPT !.unique = x] \in Tbl
  BY DEF Tbl
<1>3. /\ \A x \in Nat : [t EXCEPT !.crec = x] \in Tbl
      /\ \A x \in Int : [t EXCEPT !.offset = x] \in Tbl
  BY DEF Tbl
<1>4. /\ \A x \in BOOLEAN : [t EXCEPT !.locked = x] \in Tbl
      /\ \A x \in BOOLEAN : [t EXCEPT !.ok = x] \in Tbl
      /\ \A x \in BOOLEAN : [t EXCEPT !.bof = x] \in Tbl
      /\ \A x \in BOOLEAN : [t EXCEPT !.eof = x] \in Tbl
      /\ \A x \in BOOLEAN : [t EXCEPT !.marked = x] \in Tbl
  BY DEF Tbl
<1>5. /\ \A x \in DbErrors : [t EXCEPT !.dbError = x] \in Tbl
      /\ \A x \in IdxErrors : [t EXCEPT !.idxError = x] \in Tbl
      /\ \A x \in Seq(Vals) : [t EXCEPT !.rejected = x] \in Tbl
  BY DEF Tbl
<1> QED BY <1>1, <1>2, <1>3, <1>4, <1>5

LEMMA IndexChange ==
  ASSUME NEW t \in Tbl, NEW i \in 1..N, NEW b \in Bag
  PROVE  LET u == [t EXCEPT !.index[i] = b]
         IN /\ u \in Tbl /\ Same(t, u) /\ u.ok = t.ok
            /\ u.dbError = t.dbError /\ u.idxError = t.idxError
            /\ u.index = [t.index EXCEPT ![i] = b]
<1>1. [t.index EXCEPT ![i] = b] \in [DOMAIN Indexes -> Bag]
  BY TblFields, IndexFacts
<1>2. \A x \in [DOMAIN Indexes -> Bag] : [t EXCEPT !.index = x] \in Tbl
  BY DEF Tbl
<1>3. [t EXCEPT !.index[i] = b] = [t EXCEPT !.index = [t.index EXCEPT ![i] = b]]
  BY DEF Tbl
<1>4. \A x : LET u == [t EXCEPT !.index = x]
             IN Same(t, u) /\ u.ok = t.ok /\ u.dbError = t.dbError
                /\ u.idxError = t.idxError /\ u.index = x
  BY DEF Tbl, Same
<1> QED BY <1>1, <1>2, <1>3, <1>4, Zenon

LEMMA LowestNotHeld ==
  ASSUME NEW t, NEW i \in 1..N, NEW v \in Vals, IsLowest(t, i, v)
  PROVE  ~Holds(t, i, v)
<1>1. PICK f \in Indexes[i].columns : TRUE
  BY IndexFacts
<1>2. KeyOf(i, v)[f] = v[f] /\ v[f] \in Nat
  BY <1>1, IndexFacts DEF KeyOf, Vals
<1>3. \A p \in DOMAIN t.index[i] : v[f] < p.key[f]
  BY <1>1 DEF IsLowest
<1>4. \A p \in DOMAIN t.index[i] : p.key # KeyOf(i, v)
  BY <1>2, <1>3
<1> QED BY <1>4 DEF Holds

(* What addIndexItem makes of t.                                           *)
PutMade(t, i, v, n, u) ==
  /\ u \in Tbl /\ Same(t, u) /\ u.dbError = t.dbError
  /\ u.ok => /\ u.idxError = t.idxError
             /\ u.index = [t.index EXCEPT ![i] = BagAdd(t.index[i], Pair(i, v, n))]
             /\ t.unique[i] => ~Holds(t, i, v)
  /\ ~u.ok => /\ u.index = t.index
              /\ u.idxError = "IDX_UNIQUE" => Holds(t, i, v) \/ t.idxError = "IDX_UNIQUE"
              /\ Holds(t, i, v) \/ t.idxError # "IDX_NOERR"
              /\ t.unique[i]

LEMMA PutKeyMakes ==
  ASSUME NEW t \in Tbl, t.ok, NEW i \in 1..N, NEW v \in Vals, NEW n \in Nat
  PROVE  PutMade(t, i, v, n, PutKey(t, i, v, n))
<1> DEFINE b == BagAdd(t.index[i], Pair(i, v, n))
           searched == t.unique[i] /\ ~IsLowest(t, i, v)
<1>1. b \in Bag
  BY TblFields, PairFacts, BagChanges
<1>2. CASE searched /\ Holds(t, i, v)
  <2> DEFINE u == [t EXCEPT !.ok = FALSE, !.idxError = "IDX_UNIQUE"]
  <2>1. PutKey(t, i, v, n) = u
    BY <1>2 DEF PutKey
  <2>2. u \in Tbl
    BY DEF Tbl, IdxErrors
  <2>3. /\ Same(t, u) /\ u.dbError = t.dbError /\ ~u.ok /\ u.index = t.index
        /\ u.idxError = "IDX_UNIQUE"
    BY DEF Tbl, Same
  <2> HIDE DEF u
  <2> QED BY <1>2, <2>1, <2>2, <2>3 DEF PutMade
<1>3. CASE searched /\ ~Holds(t, i, v) /\ t.idxError # "IDX_NOERR"
  <2> DEFINE u == [t EXCEPT !.ok = FALSE]
  <2>1. PutKey(t, i, v, n) = u
    BY <1>3 DEF PutKey
  <2>2. u \in Tbl
    BY DEF Tbl
  <2>3. /\ Same(t, u) /\ u.dbError = t.dbError /\ ~u.ok /\ u.index = t.index
        /\ u.idxError = t.idxError
    BY DEF Tbl, Same
  <2> HIDE DEF u
  <2> QED BY <1>3, <2>1, <2>2, <2>3 DEF PutMade
<1>4. CASE ~(searched /\ Holds(t, i, v)) /\ ~(searched /\ t.idxError # "IDX_NOERR")
  <2> DEFINE u == [t EXCEPT !.index[i] = b]
  <2>1. PutKey(t, i, v, n) = u
    <3>1. [t EXCEPT !.index[i] = BagAdd(@, Pair(i, v, n))] = u
      OBVIOUS
    <3> HIDE DEF u
    <3> QED BY <1>4, <3>1 DEF PutKey
  <2>2. /\ u \in Tbl /\ Same(t, u) /\ u.ok /\ u.dbError = t.dbError
        /\ u.idxError = t.idxError /\ u.index = [t.index EXCEPT ![i] = b]
    BY <1>1, IndexChange
  <2>3. t.unique[i] => ~Holds(t, i, v)
    BY <1>4, LowestNotHeld
  <2> HIDE DEF u
  <2> QED BY <2>1, <2>2, <2>3 DEF PutMade
<1> QED BY <1>2, <1>3, <1>4

(* What deleteIndexItem makes of t.                                        *)
DropMade(t, i, v, n, u) ==
  /\ u \in Tbl /\ Same(t, u) /\ u.dbError = t.dbError
  /\ u.ok => /\ u.idxError = t.idxError /\ Pair(i, v, n) \in DOMAIN t.index[i]
             /\ u.index = [t.index EXCEPT ![i] = BagRemove(t.index[i], Pair(i, v, n))]
  /\ ~u.ok => Pair(i, v, n) \notin DOMAIN t.index[i]

LEMMA DropKeyMakes ==
  ASSUME NEW t \in Tbl, t.ok, NEW i \in 1..N, NEW v \in Vals, NEW n \in Nat
  PROVE  DropMade(t, i, v, n, DropKey(t, i, v, n))
<1> DEFINE b == BagRemove(t.index[i], Pair(i, v, n))
<1>1. b \in Bag
  BY TblFields, PairFacts, BagChanges
<1>2. CASE Pair(i, v, n) \in DOMAIN t.index[i]
  <2> DEFINE u == [t EXCEPT !.index[i] = b]
  <2>1. DropKey(t, i, v, n) = u
    <3>1. [t EXCEPT !.index[i] = BagRemove(@, Pair(i, v, n))] = u
      OBVIOUS
    <3> HIDE DEF u
    <3> QED BY <1>2, <3>1 DEF DropKey
  <2>2. /\ u \in Tbl /\ Same(t, u) /\ u.ok /\ u.dbError = t.dbError
        /\ u.idxError = t.idxError /\ u.index = [t.index EXCEPT ![i] = b]
    BY <1>1, IndexChange
  <2> HIDE DEF u
  <2> QED BY <1>2, <2>1, <2>2 DEF DropMade
<1>3. CASE Pair(i, v, n) \notin DOMAIN t.index[i]
  <2> DEFINE u == [t EXCEPT !.ok = FALSE, !.idxError = "IDX_NEXISTS"]
  <2>1. DropKey(t, i, v, n) = u
    BY <1>3 DEF DropKey
  <2>2. u \in Tbl
    BY DEF Tbl, IdxErrors
  <2>3. Same(t, u) /\ u.dbError = t.dbError /\ ~u.ok
    BY DEF Tbl, Same
  <2> HIDE DEF u
  <2> QED BY <1>3, <2>1, <2>2, <2>3 DEF DropMade
<1> QED BY <1>2, <1>3

-----------------------------------------------------------------------------
(* All indexes, one after the other.                                       *)
PutStep(u, i, v, n) ==
  LET p == PutKey(u, i, v, n)
  IN IF ~u.ok THEN u
     ELSE IF p.ok THEN p
     ELSE [p EXCEPT !.dbError = IF i \in FieldIndexes /\ p.idxError = "IDX_UNIQUE"
                                  THEN "DB_UNIQUE" ELSE "DB_INDEX"]

DropStep(u, i, v, n) == IF u.ok THEN DropKey(u, i, v, n) ELSE u

TestStep(u, i, v) == IF u.ok /\ i \in FieldIndexes THEN TestKey(u, i, v) ELSE u

LEMMA StepTypes ==
  ASSUME NEW u \in Tbl, NEW i \in 1..N, NEW v \in Vals, NEW n \in Nat
  PROVE  /\ PutStep(u, i, v, n) \in Tbl /\ DropStep(u, i, v, n) \in Tbl
         /\ TestStep(u, i, v) \in Tbl
<1>1. u.ok => PutKey(u, i, v, n) \in Tbl /\ DropKey(u, i, v, n) \in Tbl
  BY PutKeyMakes, DropKeyMakes DEF PutMade, DropMade
<1>2. PutStep(u, i, v, n) \in Tbl
  <2>1. \A d \in DbErrors, p \in Tbl : [p EXCEPT !.dbError = d] \in Tbl
    BY DEF Tbl
  <2> DEFINE p == PutKey(u, i, v, n)
             d == IF i \in FieldIndexes /\ p.idxError = "IDX_UNIQUE" THEN "DB_UNIQUE" ELSE "DB_INDEX"
  <2>2. d \in DbErrors
    BY DEF DbErrors
  <2>3. PutStep(u, i, v, n) = IF ~u.ok THEN u ELSE IF p.ok THEN p ELSE [p EXCEPT !.dbError = d]
    BY DEF PutStep
  <2> HIDE DEF p, d
  <2> QED BY <1>1, <2>1, <2>2, <2>3 DEF p
<1>3. DropStep(u, i, v, n) \in Tbl
  BY <1>1 DEF DropStep
<1>4. TestStep(u, i, v) \in Tbl
  <2>1. [u EXCEPT !.ok = FALSE] \in Tbl
    BY DEF Tbl
  <2> QED BY <2>1 DEF TestStep, TestKey
<1> QED BY <1>2, <1>3, <1>4

(* The places of the sequence OnEach folds over.                           *)
LEMMA EachPlaces ==
  LET q == [i \in DOMAIN Indexes |-> i]
  IN DOMAIN q = 1..N /\ \A i \in 1..N : q[i] = i
BY IndexFacts

LEMMA PutKeysRun ==
  ASSUME NEW t \in Tbl, NEW v \in Vals, NEW n \in Nat
  PROVE  \E f \in [0..N -> Tbl] :
           /\ f[0] = t /\ f[N] = PutKeys(t, v, n)
           /\ \A i \in 1..N : f[i] = PutStep(f[i - 1], i, v, n)
<1> DEFINE G == [i \in 1..N |-> [u \in Tbl |-> PutStep(u, i, v, n)]]
           q == [i \in DOMAIN Indexes |-> i]
           Noted(u, i) ==
             IF u.ok THEN u
             ELSE [u EXCEPT !.dbError = IF i \in FieldIndexes /\ u.idxError = "IDX_UNIQUE"
                                          THEN "DB_UNIQUE" ELSE "DB_INDEX"]
           Op(u, i) == IF u.ok /\ i \in DOMAIN Indexes THEN Noted(PutKey(u, i, v, n), i) ELSE u
           Eq(h) == h = [s \in SUBSET DOMAIN q |->
                          IF s = {} THEN t ELSE Op(h[s \ {Max(s)}], q[Max(s)])]
           c == CHOOSE g : Eq(g)
<1>1. PutKeys(t, v, n) = c[DOMAIN q]
  BY DEF PutKeys, OnEach, FoldLeft, MapThenFoldSet
<1>2. DOMAIN q = 1..N /\ \A i \in 1..N : q[i] = i
  BY EachPlaces
<1>3. \A i \in 1..N : \A u : Op(u, i) = PutStep(u, i, v, n)
  BY IndexFacts DEF PutStep
<1> HIDE DEF Op, q
<1>4. G \in [1..N -> [Tbl -> Tbl]] /\ N \in Nat
  BY StepTypes, IndexFacts
<1>5. \A i \in 1..N, u \in Tbl : G[i][u] = PutStep(u, i, v, n)
  OBVIOUS
<1> HIDE DEF G
<1>6. \A s \in SUBSET (1..N) : s # {} => Max(s) \in 1..N
  BY <1>4, MaxExists
<1>7. PICK h \in [SUBSET (1..N) -> Tbl] : Folds(h, t, N, G)
  BY <1>4, FoldExists
<1>8. Eq(h)
  <2>1. ASSUME NEW s \in SUBSET (1..N)
        PROVE  h[s] = IF s = {} THEN t ELSE Op(h[s \ {Max(s)}], q[Max(s)])
    <3>1. s # {} => Max(s) \in 1..N /\ h[s \ {Max(s)}] \in Tbl
      BY <1>6
    <3>2. h[s] = IF s = {} THEN t ELSE G[Max(s)][h[s \ {Max(s)}]]
      BY <1>7 DEF Folds
    <3> QED BY <1>2, <1>3, <1>5, <3>1, <3>2
  <2> QED BY <1>2, <2>1
<1>9. Eq(c)
  <2> HIDE DEF Eq
  <2> QED BY <1>8
<1>10. \A s \in SUBSET (1..N) :
         c[s] = IF s = {} THEN t ELSE Op(c[s \ {Max(s)}], q[Max(s)])
  BY <1>2, <1>9
<1> HIDE DEF c
<1> HIDE DEF Eq, Noted
<1>11. c[{}] = t
  BY <1>10
<1>12. FoldsIn(c, Tbl, t, N, G)
  <2>1. ASSUME NEW s \in SUBSET (1..N), s # {}, c[s \ {Max(s)}] \in Tbl
        PROVE  c[s] = G[Max(s)][c[s \ {Max(s)}]]
    <3>1. Max(s) \in 1..N
      BY <1>6, <2>1
    <3>2. c[s] = Op(c[s \ {Max(s)}], Max(s))
      BY <1>2, <1>10, <2>1, <3>1
    <3> QED BY <1>3, <1>5, <2>1, <3>1, <3>2
  <2> QED BY <1>11, <2>1 DEF FoldsIn
<1>13. PICK f : Runs(f, Tbl, t, N, G) /\ f[N] = c[1..N]
  BY <1>4, <1>12, FoldRuns
<1>14. ASSUME NEW i \in 1..N PROVE f[i] = PutStep(f[i - 1], i, v, n)
  <2>1. i - 1 \in 0..N
    BY <1>4
  <2> QED BY <1>5, <1>13, <2>1 DEF Runs
<1> QED BY <1>1, <1>2, <1>13, <1>14 DEF Runs

LEMMA DropKeysRun ==
  ASSUME NEW t \in Tbl, NEW v \in Vals, NEW n \in Nat
  PROVE  \E f \in [0..N -> Tbl] :
           /\ f[0] = t /\ f[N] = DropKeys(t, v, n)
           /\ \A i \in 1..N : f[i] = DropStep(f[i - 1], i, v, n)
<1> DEFINE G == [i \in 1..N |-> [u \in Tbl |-> DropStep(u, i, v, n)]]
           q == [i \in DOMAIN Indexes |-> i]
           Op(u, i) == IF u.ok /\ i \in DOMAIN Indexes THEN DropKey(u, i, v, n) ELSE u
           Eq(h) == h = [s \in SUBSET DOMAIN q |->
                          IF s = {} THEN t ELSE Op(h[s \ {Max(s)}], q[Max(s)])]
           c == CHOOSE g : Eq(g)
<1>1. DropKeys(t, v, n) = c[DOMAIN q]
  BY DEF DropKeys, OnEach, FoldLeft, MapThenFoldSet
<1>2. DOMAIN q = 1..N /\ \A i \in 1..N : q[i] = i
  BY EachPlaces
<1>3. \A i \in 1..N : \A u : Op(u, i) = DropStep(u, i, v, n)
  BY IndexFacts DEF DropStep
<1> HIDE DEF Op, q
<1>4. G \in [1..N -> [Tbl -> Tbl]] /\ N \in Nat
  BY StepTypes, IndexFacts
<1>5. \A i \in 1..N, u \in Tbl : G[i][u] = DropStep(u, i, v, n)
  OBVIOUS
<1> HIDE DEF G
<1>6. \A s \in SUBSET (1..N) : s # {} => Max(s) \in 1..N
  BY <1>4, MaxExists
<1>7. PICK h \in [SUBSET (1..N) -> Tbl] : Folds(h, t, N, G)
  BY <1>4, FoldExists
<1>8. Eq(h)
  <2>1. ASSUME NEW s \in SUBSET (1..N)
        PROVE  h[s] = IF s = {} THEN t ELSE Op(h[s \ {Max(s)}], q[Max(s)])
    <3>1. s # {} => Max(s) \in 1..N /\ h[s \ {Max(s)}] \in Tbl
      BY <1>6
    <3>2. h[s] = IF s = {} THEN t ELSE G[Max(s)][h[s \ {Max(s)}]]
      BY <1>7 DEF Folds
    <3> QED BY <1>2, <1>3, <1>5, <3>1, <3>2
  <2> QED BY <1>2, <2>1
<1>9. Eq(c)
  <2> HIDE DEF Eq
  <2> QED BY <1>8
<1>10. \A s \in SUBSET (1..N) :
         c[s] = IF s = {} THEN t ELSE Op(c[s \ {Max(s)}], q[Max(s)])
  BY <1>2, <1>9
<1> HIDE DEF c
<1> HIDE DEF Eq
<1>11. c[{}] = t
  BY <1>10
<1>12. FoldsIn(c, Tbl, t, N, G)
  <2>1. ASSUME NEW s \in SUBSET (1..N), s # {}, c[s \ {Max(s)}] \in Tbl
        PROVE  c[s] = G[Max(s)][c[s \ {Max(s)}]]
    <3>1. Max(s) \in 1..N
      BY <1>6, <2>1
    <3>2. c[s] = Op(c[s \ {Max(s)}], Max(s))
      BY <1>2, <1>10, <2>1, <3>1
    <3> QED BY <1>3, <1>5, <2>1, <3>1, <3>2
  <2> QED BY <1>11, <2>1 DEF FoldsIn
<1>13. PICK f : Runs(f, Tbl, t, N, G) /\ f[N] = c[1..N]
  BY <1>4, <1>12, FoldRuns
<1>14. ASSUME NEW i \in 1..N PROVE f[i] = DropStep(f[i - 1], i, v, n)
  <2>1. i - 1 \in 0..N
    BY <1>4
  <2> QED BY <1>5, <1>13, <2>1 DEF Runs
<1> QED BY <1>1, <1>2, <1>13, <1>14 DEF Runs

LEMMA TestKeysRun ==
  ASSUME NEW t \in Tbl, NEW v \in Vals
  PROVE  \E f \in [0..N -> Tbl] :
           /\ f[0] = t /\ f[N] = TestKeys(t, v)
           /\ \A i \in 1..N : f[i] = TestStep(f[i - 1], i, v)
<1> DEFINE G == [i \in 1..N |-> [u \in Tbl |-> TestStep(u, i, v)]]
           q == [i \in DOMAIN Indexes |-> i]
           Op(u, i) == IF u.ok /\ i \in FieldIndexes THEN TestKey(u, i, v) ELSE u
           Eq(h) == h = [s \in SUBSET DOMAIN q |->
                          IF s = {} THEN t ELSE Op(h[s \ {Max(s)}], q[Max(s)])]
           c == CHOOSE g : Eq(g)
<1>1. TestKeys(t, v) = c[DOMAIN q]
  BY DEF TestKeys, OnEach, FoldLeft, MapThenFoldSet
<1>2. DOMAIN q = 1..N /\ \A i \in 1..N : q[i] = i
  BY EachPlaces
<1>3. \A i \in 1..N : \A u : Op(u, i) = TestStep(u, i, v)
  BY IndexFacts DEF TestStep
<1> HIDE DEF Op, q
<1>4. G \in [1..N -> [Tbl -> Tbl]] /\ N \in Nat
  BY StepTypes, IndexFacts
<1>5. \A i \in 1..N, u \in Tbl : G[i][u] = TestStep(u, i, v)
  OBVIOUS
<1> HIDE DEF G
<1>6. \A s \in SUBSET (1..N) : s # {} => Max(s) \in 1..N
  BY <1>4, MaxExists
<1>7. PICK h \in [SUBSET (1..N) -> Tbl] : Folds(h, t, N, G)
  BY <1>4, FoldExists
<1>8. Eq(h)
  <2>1. ASSUME NEW s \in SUBSET (1..N)
        PROVE  h[s] = IF s = {} THEN t ELSE Op(h[s \ {Max(s)}], q[Max(s)])
    <3>1. s # {} => Max(s) \in 1..N /\ h[s \ {Max(s)}] \in Tbl
      BY <1>6
    <3>2. h[s] = IF s = {} THEN t ELSE G[Max(s)][h[s \ {Max(s)}]]
      BY <1>7 DEF Folds
    <3> QED BY <1>2, <1>3, <1>5, <3>1, <3>2
  <2> QED BY <1>2, <2>1
<1>9. Eq(c)
  <2> HIDE DEF Eq
  <2> QED BY <1>8
<1>10. \A s \in SUBSET (1..N) :
         c[s] = IF s = {} THEN t ELSE Op(c[s \ {Max(s)}], q[Max(s)])
  BY <1>2, <1>9
<1> HIDE DEF c
<1> HIDE DEF Eq
<1>11. c[{}] = t
  BY <1>10
<1>12. FoldsIn(c, Tbl, t, N, G)
  <2>1. ASSUME NEW s \in SUBSET (1..N), s # {}, c[s \ {Max(s)}] \in Tbl
        PROVE  c[s] = G[Max(s)][c[s \ {Max(s)}]]
    <3>1. Max(s) \in 1..N
      BY <1>6, <2>1
    <3>2. c[s] = Op(c[s \ {Max(s)}], Max(s))
      BY <1>2, <1>10, <2>1, <3>1
    <3> QED BY <1>3, <1>5, <2>1, <3>1, <3>2
  <2> QED BY <1>11, <2>1 DEF FoldsIn
<1>13. PICK f : Runs(f, Tbl, t, N, G) /\ f[N] = c[1..N]
  BY <1>4, <1>12, FoldRuns
<1>14. ASSUME NEW i \in 1..N PROVE f[i] = TestStep(f[i - 1], i, v)
  <2>1. i - 1 \in 0..N
    BY <1>4
  <2> QED BY <1>5, <1>13, <2>1 DEF Runs
<1> QED BY <1>1, <1>2, <1>13, <1>14 DEF Runs

-----------------------------------------------------------------------------
(* What PutKeys has made of t after index i, of DropKeys too, and what     *)
(* TestKeys makes of it.                                                   *)
PutUpTo(t, v, n, i, u) ==
  /\ u \in Tbl /\ Same(t, u)
  /\ u.ok => /\ u.idxError = t.idxError /\ u.dbError = t.dbError
             /\ \A j \in 1..N :
                  u.index[j] = IF j <= i THEN BagAdd(t.index[j], Pair(j, v, n)) ELSE t.index[j]
             /\ \A j \in 1..N : j <= i /\ t.unique[j] => ~Holds(t, j, v)
  /\ ~u.ok => /\ u.dbError \in {"DB_UNIQUE", "DB_INDEX"}
              /\ u.dbError = "DB_UNIQUE" => Clash(t, v) \/ t.idxError # "IDX_NOERR"
              /\ \/ t.idxError # "IDX_NOERR"
                 \/ \E j \in 1..N : t.unique[j] /\ Holds(t, j, v)

DropUpTo(t, v, n, i, u) ==
  /\ u \in Tbl /\ Same(t, u) /\ u.dbError = t.dbError
  /\ u.ok => /\ u.idxError = t.idxError
             /\ \A j \in 1..N :
                  u.index[j] = IF j <= i THEN BagRemove(t.index[j], Pair(j, v, n))
                               ELSE t.index[j]
             /\ \A j \in 1..N : j <= i => Pair(j, v, n) \in DOMAIN t.index[j]
  /\ ~u.ok => \E j \in 1..N : Pair(j, v, n) \notin DOMAIN t.index[j]

LEMMA FieldFacts == FieldIndexes \subseteq 1..N /\ MultiIndexes \subseteq 1..N
BY IndexFacts DEF FieldIndexes, MultiIndexes

LEMMA SameFacts ==
  /\ \A t : Same(t, t)
  /\ \A t, u, w : Same(t, u) /\ Same(u, w) => Same(t, w)
  /\ \A t, u : Same(t, u) => u.unique = t.unique
BY DEF Same

LEMMA PutKeysMakes ==
  ASSUME NEW t \in Tbl, t.ok, NEW v \in Vals, NEW n \in Nat
  PROVE  PutUpTo(t, v, n, N, PutKeys(t, v, n))
<1>1. PICK f \in [0..N -> Tbl] :
        /\ f[0] = t /\ f[N] = PutKeys(t, v, n)
        /\ \A i \in 1..N : f[i] = PutStep(f[i - 1], i, v, n)
  BY PutKeysRun
<1> DEFINE T == {i \in Nat : i <= N => PutUpTo(t, v, n, i, f[i])}
<1>2. PutUpTo(t, v, n, 0, t)
  <2>1. \A j \in 1..N : ~(j <= 0)
    OBVIOUS
  <2> QED BY <2>1, SameFacts DEF PutUpTo
<1>3. ASSUME NEW k \in Nat, k \in T, k + 1 <= N PROVE PutUpTo(t, v, n, k + 1, f[k + 1])
  <2> DEFINE i == k + 1
             u == f[k]
             p == PutKey(u, i, v, n)
             d == IF i \in FieldIndexes /\ p.idxError = "IDX_UNIQUE" THEN "DB_UNIQUE" ELSE "DB_INDEX"
             w == [p EXCEPT !.dbError = d]
  <2>1. i \in 1..N /\ i - 1 = k /\ k \in 0..N /\ k <= N
    BY <1>3, IndexFacts
  <2>2. u \in Tbl /\ PutUpTo(t, v, n, k, u)
    BY <1>1, <1>3, <2>1
  <2>3. f[i] = PutStep(u, i, v, n)
    BY <1>1, <2>1
  <2>4. PutStep(u, i, v, n) = IF ~u.ok THEN u ELSE IF p.ok THEN p ELSE w
    BY DEF PutStep
  <2> HIDE DEF T, w, p, u, d
  <2>5. CASE ~u.ok
    BY <2>2, <2>3, <2>4, <2>5 DEF PutUpTo
  <2>6. CASE u.ok
    <3>1. PutMade(u, i, v, n, p)
      BY <2>1, <2>2, <2>6, PutKeyMakes DEF p
    <3>2. u.index[i] = t.index[i] /\ u.unique = t.unique /\ Same(t, u)
      <4>1. ~(i <= k)
        BY <2>1
      <4> QED BY <2>1, <2>2, <2>6, <4>1, SameFacts DEF PutUpTo
    <3>3. Holds(u, i, v) = Holds(t, i, v)
      BY <3>2 DEF Holds
    <3>4. CASE p.ok
      <4>1. p \in Tbl /\ Same(t, p)
        BY <3>1, <3>2, SameFacts DEF PutMade
      <4>2. p.idxError = t.idxError /\ p.dbError = t.dbError
        BY <2>2, <2>6, <3>1, <3>4 DEF PutMade, PutUpTo
      <4>3. ASSUME NEW j \in 1..N
            PROVE  p.index[j] = IF j <= i THEN BagAdd(t.index[j], Pair(j, v, n))
                                ELSE t.index[j]
        <5>1. p.index = [u.index EXCEPT ![i] = BagAdd(u.index[i], Pair(i, v, n))]
          BY <3>1, <3>4 DEF PutMade
        <5>2. u.index \in [1..N -> Bag]
          BY <2>2, TblFields
        <5>3. u.index[j] = IF j <= k THEN BagAdd(t.index[j], Pair(j, v, n)) ELSE t.index[j]
          BY <2>2, <2>6 DEF PutUpTo
        <5>4. (j <= i <=> j <= k \/ j = i) /\ (j = i => ~(j <= k))
          BY <2>1
        <5>5. p.index[j] = IF j = i THEN BagAdd(u.index[i], Pair(i, v, n)) ELSE u.index[j]
          BY <2>1, <5>1, <5>2
        <5> QED BY <3>2, <5>3, <5>4, <5>5
      <4>4. ASSUME NEW j \in 1..N, j <= i, t.unique[j] PROVE ~Holds(t, j, v)
        <5>1. j <= k \/ j = i
          BY <2>1, <4>4
        <5>2. CASE j = i
          BY <3>1, <3>2, <3>3, <3>4, <4>4, <5>2 DEF PutMade
        <5>3. CASE j <= k
          BY <2>2, <2>6, <4>4, <5>3 DEF PutUpTo
        <5> QED BY <5>1, <5>2, <5>3
      <4>5. PutUpTo(t, v, n, i, p)
        BY <3>4, <4>1, <4>2, <4>3, <4>4 DEF PutUpTo
      <4> QED BY <2>3, <2>4, <2>6, <3>4, <4>5
    <3>5. CASE ~p.ok
      <4>1. p \in Tbl
        BY <3>1 DEF PutMade
      <4>2. d \in {"DB_UNIQUE", "DB_INDEX"} /\ d \in DbErrors
        BY DEF d, DbErrors
      <4>3. w \in Tbl /\ Same(p, w) /\ w.ok = p.ok /\ w.dbError = d
        <5>1. \A e \in DbErrors : LET x == [p EXCEPT !.dbError = e]
                                  IN x \in Tbl /\ Same(p, x) /\ x.ok = p.ok /\ x.dbError = e
          BY <4>1 DEF Tbl, Same
        <5> QED BY <4>2, <5>1 DEF w
      <4>4. Same(t, w)
        BY <3>1, <3>2, <4>3, SameFacts DEF PutMade
      <4>5. ASSUME d = "DB_UNIQUE" PROVE Clash(t, v) \/ t.idxError # "IDX_NOERR"
        <5>1. i \in FieldIndexes /\ p.idxError = "IDX_UNIQUE"
          BY <4>5 DEF d
        <5>2. Holds(t, i, v) \/ u.idxError = "IDX_UNIQUE"
          BY <3>1, <3>3, <3>5, <5>1 DEF PutMade
        <5>3. t.unique[i] /\ u.idxError = t.idxError
          BY <2>2, <2>6, <3>1, <3>2, <3>5 DEF PutMade, PutUpTo
        <5> QED BY <5>1, <5>2, <5>3 DEF Clash
      <4>6. t.idxError # "IDX_NOERR" \/ \E j \in 1..N : t.unique[j] /\ Holds(t, j, v)
        <5>1. u.idxError = t.idxError /\ u.unique = t.unique
          BY <2>2, <2>6, <3>2 DEF PutUpTo
        <5>2. u.unique[i] /\ (Holds(u, i, v) \/ u.idxError # "IDX_NOERR")
          BY <3>1, <3>5 DEF PutMade
        <5> QED BY <2>1, <3>3, <5>1, <5>2
      <4>7. PutUpTo(t, v, n, i, w)
        BY <3>5, <4>2, <4>3, <4>4, <4>5, <4>6 DEF PutUpTo
      <4> QED BY <2>3, <2>4, <2>6, <3>5, <4>7
    <3> QED BY <3>4, <3>5
  <2> QED BY <2>5, <2>6
<1>4. 0 \in T
  BY <1>1, <1>2
<1>5. \A k \in Nat : k \in T => k + 1 \in T
  BY <1>3
<1> HIDE DEF T
<1>6. N \in T /\ N \in Nat
  BY <1>4, <1>5, NumberInduction, IndexFacts
<1> QED BY <1>1, <1>6 DEF T

LEMMA DropKeysMakes ==
  ASSUME NEW t \in Tbl, t.ok, NEW v \in Vals, NEW n \in Nat
  PROVE  DropUpTo(t, v, n, N, DropKeys(t, v, n))
<1>1. PICK f \in [0..N -> Tbl] :
        /\ f[0] = t /\ f[N] = DropKeys(t, v, n)
        /\ \A i \in 1..N : f[i] = DropStep(f[i - 1], i, v, n)
  BY DropKeysRun
<1> DEFINE T == {i \in Nat : i <= N => DropUpTo(t, v, n, i, f[i])}
<1>2. DropUpTo(t, v, n, 0, t)
  <2>1. \A j \in 1..N : ~(j <= 0)
    OBVIOUS
  <2> QED BY <2>1, SameFacts DEF DropUpTo
<1>3. ASSUME NEW k \in Nat, k \in T, k + 1 <= N PROVE DropUpTo(t, v, n, k + 1, f[k + 1])
  <2> DEFINE i == k + 1
             u == f[k]
             p == DropKey(u, i, v, n)
  <2>1. i \in 1..N /\ i - 1 = k /\ k \in 0..N /\ k <= N
    BY <1>3, IndexFacts
  <2>2. u \in Tbl /\ DropUpTo(t, v, n, k, u)
    BY <1>1, <1>3, <2>1
  <2>3. f[i] = DropStep(u, i, v, n)
    BY <1>1, <2>1
  <2>4. DropStep(u, i, v, n) = IF u.ok THEN p ELSE u
    BY DEF DropStep
  <2> HIDE DEF T, p, u
  <2>5. CASE ~u.ok
    BY <2>2, <2>3, <2>4, <2>5 DEF DropUpTo
  <2>6. CASE u.ok
    <3>1. DropMade(u, i, v, n, p)
      BY <2>1, <2>2, <2>6, DropKeyMakes DEF p
    <3>2. u.index[i] = t.index[i] /\ u.dbError = t.dbError /\ Same(t, u)
      <4>1. ~(i <= k)
        BY <2>1
      <4> QED BY <2>1, <2>2, <2>6, <4>1 DEF DropUpTo
    <3>3. p \in Tbl /\ Same(t, p) /\ p.dbError = t.dbError
      BY <3>1, <3>2, SameFacts DEF DropMade
    <3>4. ASSUME p.ok, NEW j \in 1..N
          PROVE  p.index[j] = IF j <= i THEN BagRemove(t.index[j], Pair(j, v, n))
                              ELSE t.index[j]
      <4>1. p.index = [u.index EXCEPT ![i] = BagRemove(u.index[i], Pair(i, v, n))]
        BY <3>1, <3>4 DEF DropMade
      <4>2. u.index \in [1..N -> Bag]
        BY <2>2, TblFields
      <4>3. u.index[j] = IF j <= k THEN BagRemove(t.index[j], Pair(j, v, n)) ELSE t.index[j]
        BY <2>2, <2>6 DEF DropUpTo
      <4>4. (j <= i <=> j <= k \/ j = i) /\ (j = i => ~(j <= k))
        BY <2>1
      <4>5. p.index[j] = IF j = i THEN BagRemove(u.index[i], Pair(i, v, n)) ELSE u.index[j]
        BY <2>1, <4>1, <4>2
      <4> QED BY <3>2, <4>3, <4>4, <4>5
    <3>5. ASSUME p.ok, NEW j \in 1..N, j <= i PROVE Pair(j, v, n) \in DOMAIN t.index[j]
      <4>1. j <= k \/ j = i
        BY <2>1, <3>5
      <4>2. CASE j = i
        BY <3>1, <3>2, <3>5, <4>2 DEF DropMade
      <4>3. CASE j <= k
        BY <2>2, <2>6, <3>5, <4>3 DEF DropUpTo
      <4> QED BY <4>1, <4>2, <4>3
    <3>6. p.ok => p.idxError = t.idxError
      BY <2>2, <2>6, <3>1 DEF DropMade, DropUpTo
    <3>7. ~p.ok => Pair(i, v, n) \notin DOMAIN t.index[i]
      BY <3>1, <3>2 DEF DropMade
    <3>8. DropUpTo(t, v, n, i, p)
      BY <2>1, <3>3, <3>4, <3>5, <3>6, <3>7 DEF DropUpTo
    <3> QED BY <2>3, <2>4, <2>6, <3>8
  <2> QED BY <2>5, <2>6
<1>4. 0 \in T
  BY <1>1, <1>2
<1>5. \A k \in Nat : k \in T => k + 1 \in T
  BY <1>3
<1> HIDE DEF T
<1>6. N \in T /\ N \in Nat
  BY <1>4, <1>5, NumberInduction, IndexFacts
<1> QED BY <1>1, <1>6 DEF T

LEMMA TestKeysMakes ==
  ASSUME NEW t \in Tbl, t.ok, NEW v \in Vals
  PROVE  TestKeys(t, v) = IF Clash(t, v) THEN [t EXCEPT !.ok = FALSE] ELSE t
<1>1. PICK f \in [0..N -> Tbl] :
        /\ f[0] = t /\ f[N] = TestKeys(t, v)
        /\ \A i \in 1..N : f[i] = TestStep(f[i - 1], i, v)
  BY TestKeysRun
<1> DEFINE Early(i) == \E j \in FieldIndexes : j <= i /\ t.unique[j] /\ Holds(t, j, v)
           w == [t EXCEPT !.ok = FALSE]
           T == {i \in Nat : i <= N => f[i] = IF Early(i) THEN w ELSE t}
<1>2. ~w.ok
  BY DEF Tbl
<1> HIDE DEF w
<1>3. ASSUME NEW k \in Nat, k \in T, k + 1 <= N
      PROVE  f[k + 1] = IF Early(k + 1) THEN w ELSE t
  <2> DEFINE i == k + 1
  <2>1. i \in 1..N /\ i - 1 = k /\ k <= N
    BY <1>3, IndexFacts
  <2>2. f[k] = IF Early(k) THEN w ELSE t
    BY <1>3, <2>1
  <2>3. f[i] = TestStep(f[k], i, v)
    BY <1>1, <2>1
  <2>4. Early(i) <=> Early(k) \/ (i \in FieldIndexes /\ t.unique[i] /\ Holds(t, i, v))
    <3>1. \A j \in FieldIndexes : j <= i <=> j <= k \/ j = i
      BY FieldFacts
    <3> QED BY <3>1
  <2> HIDE DEF T, i, Early
  <2>5. CASE Early(k)
    BY <1>2, <2>2, <2>3, <2>4, <2>5 DEF TestStep, i
  <2>6. CASE ~Early(k)
    <3>1. f[i] = IF i \in FieldIndexes /\ t.unique[i] /\ Holds(t, i, v) THEN w ELSE t
      BY <2>2, <2>3, <2>6 DEF TestStep, TestKey, w
    <3> QED BY <2>4, <2>6, <3>1 DEF i
  <2> QED BY <2>5, <2>6
<1>4. 0 \in T
  <2>1. ~Early(0)
    BY FieldFacts
  <2> QED BY <1>1, <2>1
<1>5. \A k \in Nat : k \in T => k + 1 \in T
  BY <1>3
<1> HIDE DEF T
<1>6. N \in T /\ N \in Nat
  BY <1>4, <1>5, NumberInduction, IndexFacts
<1>7. Early(N) <=> Clash(t, v)
  <2>1. \A j \in FieldIndexes : j <= N
    BY FieldFacts, <1>6
  <2> QED BY <2>1 DEF Clash
<1> QED BY <1>1, <1>6, <1>7 DEF T, w

-----------------------------------------------------------------------------
(* The pairs index i has for records with the values W, and an index that  *)
(* lists them.                                                             *)
Rows(i, W)    == {Pair(i, W[n], n) : n \in DOMAIN W}
Listing(b, W) == \A i \in 1..N : b[i] = SetToBag(Rows(i, W))

UniqueRows(W) ==
  \A i \in FieldIndexes :
    Indexes[i].isUnique =>
      \A m, n \in DOMAIN W : KeyOf(i, W[m]) = KeyOf(i, W[n]) => m = n

Grown(W, c, v) == [n \in 1..c + 1 |-> IF n <= c THEN W[n] ELSE v]

LEMMA RowFacts ==
  ASSUME NEW c \in Nat, NEW W \in [1..c -> Vals], NEW i \in 1..N
  PROVE  /\ Rows(i, W) \in SUBSET KeyPair
         /\ \A p \in Rows(i, W) : p.item \in 1..c /\ p = Pair(i, W[p.item], p.item)
         /\ \A n \in 1..c : Pair(i, W[n], n) \in Rows(i, W)
<1>1. \A n \in 1..c : W[n] \in Vals /\ n \in Nat
  OBVIOUS
<1>2. \A n \in 1..c : Pair(i, W[n], n) \in KeyPair /\ Pair(i, W[n], n).item = n
  BY <1>1, PairFacts
<1>3. \A p : p \in Rows(i, W) <=> \E n \in 1..c : p = Pair(i, W[n], n)
  BY DEF Rows
<1> QED BY <1>2, <1>3

LEMMA ListedKeys ==
  ASSUME NEW c \in Nat, NEW W \in [1..c -> Vals], NEW i \in 1..N, NEW t,
         t.index[i] = SetToBag(Rows(i, W)), NEW v \in Vals
  PROVE  /\ Holds(t, i, v) <=> \E n \in 1..c : KeyOf(i, W[n]) = KeyOf(i, v)
         /\ \A n \in Nat : Pair(i, v, n) \in DOMAIN t.index[i] =>
              n \in 1..c /\ KeyOf(i, W[n]) = KeyOf(i, v)
<1>1. DOMAIN t.index[i] = Rows(i, W)
  BY RowFacts, PairFacts, SetBags DEF SetToBag
<1>2. \A n \in 1..c : Pair(i, W[n], n).key = KeyOf(i, W[n])
  BY DEF Pair
<1>3. Holds(t, i, v) <=> \E n \in 1..c : KeyOf(i, W[n]) = KeyOf(i, v)
  <2>1. ASSUME Holds(t, i, v) PROVE \E n \in 1..c : KeyOf(i, W[n]) = KeyOf(i, v)
    <3>1. PICK p \in Rows(i, W) : p.key = KeyOf(i, v)
      BY <1>1, <2>1 DEF Holds
    <3>2. p.item \in 1..c /\ p = Pair(i, W[p.item], p.item)
      BY RowFacts
    <3> QED BY <1>2, <3>1, <3>2
  <2>2. ASSUME NEW n \in 1..c, KeyOf(i, W[n]) = KeyOf(i, v) PROVE Holds(t, i, v)
    <3>1. Pair(i, W[n], n) \in DOMAIN t.index[i]
      BY <1>1, RowFacts
    <3> QED BY <1>2, <2>2, <3>1 DEF Holds
  <2> QED BY <2>1, <2>2
<1>4. ASSUME NEW n \in Nat, Pair(i, v, n) \in DOMAIN t.index[i]
      PROVE  n \in 1..c /\ KeyOf(i, W[n]) = KeyOf(i, v)
  <2>1. Pair(i, v, n).item = n /\ Pair(i, v, n).key = KeyOf(i, v)
    BY DEF Pair
  <2>2. Pair(i, v, n) \in Rows(i, W)
    BY <1>1, <1>4
  <2>3. n \in 1..c /\ Pair(i, v, n) = Pair(i, W[n], n)
    BY <2>1, <2>2, RowFacts
  <2> QED BY <1>2, <2>1, <2>3
<1> QED BY <1>3, <1>4

LEMMA ListingGrows ==
  ASSUME NEW c \in Nat, NEW W \in [1..c -> Vals], NEW v \in Vals, NEW t, NEW u,
         Listing(t.index, W), UniqueRows(W),
         \A i \in FieldIndexes : t.unique[i] = Indexes[i].isUnique,
         \A i \in 1..N : u.index[i] = BagAdd(t.index[i], Pair(i, v, c + 1)),
         \A i \in 1..N : t.unique[i] => ~Holds(t, i, v)
  PROVE  /\ Grown(W, c, v) \in [1..c + 1 -> Vals]
         /\ Listing(u.index, Grown(W, c, v)) /\ UniqueRows(Grown(W, c, v))
<1> DEFINE G == Grown(W, c, v)
<1>1. G \in [1..c + 1 -> Vals]
  BY DEF Grown
<1>2. \A n \in 1..c : n \in 1..c + 1 /\ n # c + 1 /\ G[n] = W[n]
  BY DEF Grown
<1>3. c + 1 \in 1..c + 1 /\ G[c + 1] = v /\ \A n \in 1..c + 1 : n = c + 1 \/ n \in 1..c
  BY DEF Grown
<1> HIDE DEF G
<1>4. ASSUME NEW i \in 1..N PROVE u.index[i] = SetToBag(Rows(i, G))
  <2>1. Rows(i, G) = Rows(i, W) \cup {Pair(i, v, c + 1)}
    <3>1. \A p : p \in Rows(i, G) <=> \E n \in 1..c + 1 : p = Pair(i, G[n], n)
      BY <1>1 DEF Rows
    <3>2. \A p : p \in Rows(i, W) <=> \E n \in 1..c : p = Pair(i, W[n], n)
      BY DEF Rows
    <3>3. \A p : p \in Rows(i, G) <=> p \in Rows(i, W) \/ p = Pair(i, v, c + 1)
      BY <1>2, <1>3, <3>1, <3>2
    <3> QED BY <3>3
  <2>2. Pair(i, v, c + 1) \notin Rows(i, W)
    <3>1. Pair(i, v, c + 1).item = c + 1
      BY DEF Pair
    <3>2. c + 1 \notin 1..c
      OBVIOUS
    <3> QED BY <3>1, <3>2, RowFacts
  <2>3. Rows(i, W) \in SUBSET KeyPair /\ Pair(i, v, c + 1) \in KeyPair
    BY RowFacts, PairFacts
  <2>4. BagAdd(SetToBag(Rows(i, W)), Pair(i, v, c + 1)) = SetToBag(Rows(i, G))
    BY <2>1, <2>2, <2>3, SetBags
  <2> QED BY <2>4 DEF Listing
<1>5. Listing(u.index, G)
  BY <1>4 DEF Listing
<1>6. UniqueRows(G)
  <2>1. SUFFICES ASSUME NEW i \in FieldIndexes, Indexes[i].isUnique,
                        NEW m \in 1..c + 1, NEW n \in 1..c + 1,
                        KeyOf(i, G[m]) = KeyOf(i, G[n])
                 PROVE  m = n
    BY <1>1 DEF UniqueRows
  <2>2. i \in 1..N
    BY FieldFacts
  <2>3. \A k \in 1..c : KeyOf(i, W[k]) # KeyOf(i, v)
    <3>1. t.index[i] = SetToBag(Rows(i, W)) /\ ~Holds(t, i, v)
      BY <2>1, <2>2 DEF Listing
    <3> QED BY <2>2, <3>1, ListedKeys
  <2>4. \A k, l \in 1..c : KeyOf(i, W[k]) = KeyOf(i, W[l]) => k = l
    BY <2>1 DEF UniqueRows
  <2> QED BY <1>2, <1>3, <2>1, <2>3, <2>4
<1> QED BY <1>1, <1>5, <1>6 DEF G

(* Record n gets the values v: its keys, those of k, are deleted, which    *)
(* makes d of t, and those of v added, which makes u.                      *)
Replaced(t, k, d, v, u, n) ==
  /\ d.unique = t.unique
  /\ \A i \in 1..N : Pair(i, k, n) \in DOMAIN t.index[i]
  /\ \A i \in 1..N : d.index[i] = BagRemove(t.index[i], Pair(i, k, n))
  /\ \A i \in 1..N : u.index[i] = BagAdd(d.index[i], Pair(i, v, n))
  /\ \A i \in 1..N : d.unique[i] => ~Holds(d, i, v)

LEMMA ListingChanges ==
  ASSUME NEW c \in Nat, NEW W \in [1..c -> Vals], NEW v \in Vals, NEW k \in Vals,
         NEW n \in 1..c, NEW t, NEW d, NEW u,
         Listing(t.index, W), UniqueRows(W),
         \A i \in FieldIndexes : t.unique[i] = Indexes[i].isUnique,
         Replaced(t, k, d, v, u, n)
  PROVE  /\ Listing(u.index, [W EXCEPT ![n] = v]) /\ UniqueRows([W EXCEPT ![n] = v])
<1> DEFINE G == [W EXCEPT ![n] = v]
<1>1. G \in [1..c -> Vals] /\ G[n] = v /\ \A m \in 1..c : m # n => G[m] = W[m]
  OBVIOUS
<1> HIDE DEF G
<1>2. n \in Nat
  OBVIOUS
<1>3. /\ d.unique = t.unique
      /\ \A i \in 1..N : /\ Pair(i, k, n) \in DOMAIN t.index[i]
                         /\ d.index[i] = BagRemove(t.index[i], Pair(i, k, n))
                         /\ u.index[i] = BagAdd(d.index[i], Pair(i, v, n))
                         /\ d.unique[i] => ~Holds(d, i, v)
  BY DEF Replaced
<1>4. ASSUME NEW i \in 1..N
      PROVE  /\ DOMAIN d.index[i] = Rows(i, W) \ {Pair(i, W[n], n)}
             /\ u.index[i] = SetToBag(Rows(i, G))
  <2> DEFINE p == Pair(i, W[n], n)
             S == Rows(i, W) \ {p}
  <2>1. t.index[i] = SetToBag(Rows(i, W))
    BY DEF Listing
  <2>2. Pair(i, k, n) = p
    <3>1. KeyOf(i, W[n]) = KeyOf(i, k)
      BY <1>2, <1>3, <2>1, ListedKeys
    <3> QED BY <3>1 DEF Pair
  <2>3. p \in Rows(i, W) /\ Rows(i, W) \in SUBSET KeyPair
    BY RowFacts
  <2>4. d.index[i] = SetToBag(S) /\ DOMAIN SetToBag(S) = S
    <3>1. p \in KeyPair /\ S \in SUBSET KeyPair
      BY <2>3
    <3> HIDE DEF p, S
    <3>2. BagRemove(SetToBag(Rows(i, W)), p) = SetToBag(Rows(i, W) \ {p})
      BY <2>3, <3>1, SetBags
    <3>3. DOMAIN SetToBag(S) = S
      BY <3>1, SetBags
    <3> QED BY <1>3, <2>1, <2>2, <3>2, <3>3 DEF S
  <2>5. Pair(i, v, n) \notin S
    <3>1. Pair(i, v, n).item = n
      BY DEF Pair
    <3>2. \A x \in Rows(i, W) : x.item = n => x = p
      BY RowFacts
    <3> QED BY <3>1, <3>2
  <2>6. Rows(i, G) = S \cup {Pair(i, v, n)}
    <3>1. \A x : x \in Rows(i, G) <=> \E m \in 1..c : x = Pair(i, G[m], m)
      BY <1>1 DEF Rows
    <3>2. \A x : x \in Rows(i, W) <=> \E m \in 1..c : x = Pair(i, W[m], m)
      BY DEF Rows
    <3>3. \A m, l \in 1..c : m # l => Pair(i, W[m], m) # Pair(i, W[l], l)
      BY DEF Pair
    <3>4. \A x : x \in S <=> \E m \in 1..c : m # n /\ x = Pair(i, W[m], m)
      BY <3>2, <3>3
    <3>5. \A x : x \in Rows(i, G) <=> x \in S \/ x = Pair(i, v, n)
      <4> HIDE DEF S
      <4> QED BY <1>1, <3>1, <3>4
    <3> HIDE DEF S
    <3> QED BY <3>5
  <2>7. BagAdd(SetToBag(S), Pair(i, v, n)) = SetToBag(S \cup {Pair(i, v, n)})
    <3>1. S \in SUBSET KeyPair /\ Pair(i, v, n) \in KeyPair
      BY <1>2, <2>3, PairFacts
    <3> HIDE DEF S
    <3> QED BY <2>5, <3>1, SetBags
  <2> HIDE DEF S, p
  <2>8. DOMAIN d.index[i] = Rows(i, W) \ {Pair(i, W[n], n)}
    BY <2>4 DEF S, p
  <2> QED BY <1>3, <2>4, <2>6, <2>7, <2>8
<1>5. Listing(u.index, G)
  BY <1>4 DEF Listing
<1>6. UniqueRows(G)
  <2>1. SUFFICES ASSUME NEW i \in FieldIndexes, Indexes[i].isUnique,
                        NEW m \in 1..c, NEW l \in 1..c,
                        KeyOf(i, G[m]) = KeyOf(i, G[l])
                 PROVE  m = l
    BY <1>1 DEF UniqueRows
  <2>2. i \in 1..N /\ d.unique[i]
    BY <1>3, <2>1, FieldFacts
  <2>3. ASSUME NEW j \in 1..c, j # n PROVE KeyOf(i, W[j]) # KeyOf(i, v)
    <3>1. Pair(i, W[j], j) \in Rows(i, W)
      BY <2>2, RowFacts
    <3>2. Pair(i, W[j], j) # Pair(i, W[n], n) /\ Pair(i, W[j], j).key = KeyOf(i, W[j])
      BY <2>3 DEF Pair
    <3>3. Pair(i, W[j], j) \in DOMAIN d.index[i]
      BY <1>4, <2>2, <3>1, <3>2
    <3> QED BY <1>3, <2>2, <3>2, <3>3 DEF Holds
  <2>4. \A j, h \in 1..c : KeyOf(i, W[j]) = KeyOf(i, W[h]) => j = h
    BY <2>1 DEF UniqueRows
  <2> QED BY <1>1, <2>1, <2>3, <2>4
<1> QED BY <1>5, <1>6 DEF G

-----------------------------------------------------------------------------
(* The file.                                                               *)
Values(t, c) == [n \in 1..c |-> t.file[n].vals]
Intact(t, c) == Listing(t.index, Values(t, c)) /\ UniqueRows(Values(t, c))

(* What holds of tbl whatever the program does.                            *)
Base(t) ==
  /\ t \in Tbl /\ t.numRecords <= Len(t.file) /\ t.header <= Len(t.file)
  /\ \A i \in FieldIndexes : t.unique[i] = Indexes[i].isUnique

LEMMA ValuesFacts ==
  ASSUME NEW t \in Tbl, NEW c \in Nat, c <= Len(t.file)
  PROVE  /\ Values(t, c) \in [1..c -> Vals]
         /\ \A n \in 1..c : n \in DOMAIN t.file /\ Values(t, c)[n] = t.file[n].vals
<1>1. t.file \in Seq(Record) /\ Len(t.file) \in Nat /\ DOMAIN t.file = 1..Len(t.file)
  BY TblFields, LenProperties
<1>2. \A n \in 1..Len(t.file) : t.file[n] \in Record
  BY <1>1, ElementOfSeq
<1>3. \A r \in Record : r.vals \in Vals
  BY DEF Record
<1>4. \A n \in 1..c : n \in 1..Len(t.file)
  BY <1>1
<1> QED BY <1>1, <1>2, <1>3, <1>4 DEF Values

(* A record written at place n, or behind the last.                        *)
Written(f, n, r) == IF n \in DOMAIN f THEN [f EXCEPT ![n] = r] ELSE Append(f, r)

LEMMA WrittenFacts ==
  ASSUME NEW f \in Seq(Record), NEW n \in Int, NEW r \in Record
  PROVE  /\ Written(f, n, r) \in Seq(Record) /\ Len(f) <= Len(Written(f, n, r))
         /\ \A m \in 1..Len(f) : Written(f, n, r)[m] = IF m = n THEN r ELSE f[m]
         /\ n = Len(f) + 1 => Len(Written(f, n, r)) = n /\ Written(f, n, r)[n] = r
<1>1. Len(f) \in Nat /\ DOMAIN f = 1..Len(f)
  BY LenProperties
<1>2. CASE n \in DOMAIN f
  <2>1. [f EXCEPT ![n] = r] \in Seq(Record) /\ Len([f EXCEPT ![n] = r]) = Len(f)
    BY <1>1, <1>2, ExceptSeq
  <2>2. \A m \in 1..Len(f) : [f EXCEPT ![n] = r][m] = IF m = n THEN r ELSE f[m]
    BY <1>1
  <2>3. n # Len(f) + 1 /\ Written(f, n, r) = [f EXCEPT ![n] = r]
    BY <1>1, <1>2 DEF Written
  <2> DEFINE g == [f EXCEPT ![n] = r]
  <2> HIDE DEF g
  <2>4. g \in Seq(Record) /\ Len(g) = Len(f) /\ \A m \in 1..Len(f) : g[m] = IF m = n THEN r ELSE f[m]
    BY <2>1, <2>2 DEF g
  <2>5. Written(f, n, r) = g /\ n # Len(f) + 1
    BY <2>3 DEF g
  <2> QED BY <1>1, <2>4, <2>5
<1>3. CASE n \notin DOMAIN f
  <2>1. /\ Append(f, r) \in Seq(Record) /\ Len(Append(f, r)) = Len(f) + 1
        /\ \A m \in 1..Len(f) : Append(f, r)[m] = f[m]
        /\ Append(f, r)[Len(f) + 1] = r
    BY AppendProperties
  <2> DEFINE g == Append(f, r)
  <2> HIDE DEF g
  <2>2. /\ g \in Seq(Record) /\ Len(g) = Len(f) + 1 /\ g[Len(f) + 1] = r
        /\ \A m \in 1..Len(f) : g[m] = f[m] /\ m # n
    BY <1>1, <1>3, <2>1 DEF g
  <2>3. Written(f, n, r) = g
    BY <1>3 DEF Written, g
  <2> QED BY <1>1, <2>2, <2>3
<1> QED BY <1>2, <1>3

LEMMA WriteAtMakes ==
  ASSUME NEW t \in Tbl, NEW n \in Int, NEW r \in Record
  PROVE  WriteAt(t, n, r) = [t EXCEPT !.file = Written(t.file, n, r)]
BY DEF WriteAt, Written

(* What AppendRecord makes of t.                                           *)
Appended(t, v, u) ==
  /\ Base(u) /\ u.numRecords = t.numRecords + 1
  /\ u.crec = u.numRecords /\ u.offset = u.numRecords
  /\ u.header = t.header /\ u.index = t.index /\ u.ok = t.ok
  /\ u.dbError = t.dbError /\ u.idxError = t.idxError
  /\ u.unique = t.unique /\ u.rejected = t.rejected
  /\ u.file = Written(t.file, t.numRecords + 1, [deleted |-> t.marked, vals |-> v])
  /\ Values(u, t.numRecords + 1) = Grown(Values(t, t.numRecords), t.numRecords, v)

LEMMA AppendMakes ==
  ASSUME NEW t, Base(t), NEW v \in Vals
  PROVE  Appended(t, v, AppendRecord(t, v))
<1> DEFINE n == t.numRecords + 1
           r == [deleted |-> t.marked, vals |-> v]
           f == Written(t.file, n, r)
           u == [t EXCEPT !.file = f, !.numRecords = n, !.crec = n, !.offset = n]
<1>1. t \in Tbl /\ t.numRecords <= Len(t.file) /\ t.header <= Len(t.file)
  BY DEF Base
<1>2. r \in Record /\ r.vals = v
  BY <1>1, TblFields DEF Record
<1>3. n \in Nat /\ n - 1 = t.numRecords /\ Len(t.file) \in Nat /\ t.file \in Seq(Record)
  BY <1>1, TblFields, LenProperties
<1>4. /\ f \in Seq(Record) /\ Len(t.file) <= Len(f)
      /\ \A m \in 1..Len(t.file) : f[m] = IF m = n THEN r ELSE t.file[m]
      /\ n = Len(t.file) + 1 => Len(f) = n /\ f[n] = r
  <2> HIDE DEF n, r
  <2> QED BY <1>2, <1>3, WrittenFacts
<1>5. AppendRecord(t, v) = u
  <2>1. WriteAt(t, n, r) = [t EXCEPT !.file = f]
    BY <1>1, <1>2, <1>3, WriteAtMakes
  <2> HIDE DEF f, r
  <2>2. [[t EXCEPT !.file = f] EXCEPT !.numRecords = n, !.crec = n, !.offset = n] = u
    BY <1>1 DEF Tbl
  <2> QED BY <2>1, <2>2 DEF AppendRecord, r
<1> HIDE DEF f, n
<1>6. u \in Tbl
  <2>1. t \in Tbl /\ f \in Seq(Record) /\ n \in Nat /\ n \in Int
    BY <1>1, <1>3, <1>4
  <2>2. u = [[[[t EXCEPT !.file = f] EXCEPT !.numRecords = n] EXCEPT !.crec = n]
               EXCEPT !.offset = n]
    BY <1>1 DEF Tbl
  <2> HIDE DEF u
  <2> QED BY <2>1, <2>2, FieldChanges
<1>7. /\ u.file = f /\ u.numRecords = n /\ u.crec = n /\ u.offset = n
      /\ u.header = t.header /\ u.index = t.index /\ u.ok = t.ok
      /\ u.unique = t.unique /\ u.dbError = t.dbError /\ u.idxError = t.idxError
      /\ u.rejected = t.rejected
  BY <1>1 DEF Tbl
<1>8. f = Written(t.file, t.numRecords + 1, [deleted |-> t.marked, vals |-> v])
  BY DEF f, n
<1> HIDE DEF u, r
<1>9. n <= Len(f) /\ f[n].vals = v /\ Len(f) \in Nat
  <2>1. Len(f) \in Nat
    BY <1>4, LenProperties
  <2>2. n = Len(t.file) + 1 \/ n \in 1..Len(t.file)
    BY <1>1, <1>3, TblFields DEF n
  <2> QED BY <1>2, <1>3, <1>4, <2>1, <2>2
<1>10. Base(u)
  <2>1. t.header <= Len(f)
    BY <1>1, <1>3, <1>4, <1>9, TblFields
  <2> QED BY <1>6, <1>7, <1>9, <2>1 DEF Base
<1>11. Values(u, n) = Grown(Values(t, n - 1), n - 1, v)
  <2>1. ASSUME NEW m \in 1..n
        PROVE  u.file[m].vals = IF m <= n - 1 THEN Values(t, n - 1)[m] ELSE v
    <3>1. CASE m = n
      BY <1>3, <1>7, <1>9, <3>1
    <3>2. CASE m # n
      <4>1. m \in 1..n - 1 /\ m \in 1..Len(t.file) /\ m <= n - 1
        BY <1>1, <1>3, <3>2
      <4>2. Values(t, n - 1)[m] = t.file[m].vals
        BY <4>1 DEF Values
      <4>3. f[m] = t.file[m]
        BY <1>4, <3>2, <4>1
      <4> QED BY <1>7, <4>1, <4>2, <4>3
    <3> QED BY <3>1, <3>2
  <2>2. (n - 1) + 1 = n
    BY <1>3
  <2> QED BY <2>1, <2>2 DEF Values, Grown
<1> QED BY <1>3, <1>5, <1>7, <1>8, <1>10, <1>11 DEF Appended, n

LEMMA StoreMakes ==
  ASSUME NEW t, Base(t)
  PROVE  LET u == StoreTableHeader(t)
         IN /\ Base(u) /\ u.header = t.numRecords /\ u.file = t.file /\ u.index = t.index
            /\ u.numRecords = t.numRecords /\ u.crec = t.crec /\ u.offset = t.offset
            /\ u.ok = t.ok /\ u.dbError = t.dbError /\ u.idxError = t.idxError
            /\ u.unique = t.unique /\ u.rejected = t.rejected
<1>1. t \in Tbl
  BY DEF Base
<1>2. \A x \in Nat : LET u == [t EXCEPT !.header = x]
        IN /\ u \in Tbl /\ u.header = x /\ u.file = t.file /\ u.index = t.index
           /\ u.numRecords = t.numRecords /\ u.crec = t.crec /\ u.offset = t.offset
           /\ u.ok = t.ok /\ u.dbError = t.dbError /\ u.idxError = t.idxError
           /\ u.unique = t.unique /\ u.rejected = t.rejected
  BY <1>1 DEF Tbl
<1> QED BY <1>1, <1>2, TblFields DEF StoreTableHeader, Base

-----------------------------------------------------------------------------
(* Adding a record.  What AddDBIndexes makes of a t in which no error is   *)
(* noted: if it fails because of a duplicate it has changed nothing.       *)
Ready(t) == Base(t) /\ t.ok /\ t.dbError = "DB_NOERROR" /\ t.idxError = "IDX_NOERR"

Indexed(t, v, u) ==
  /\ Base(u) /\ Same(t, u)
  /\ u.ok => /\ Ready(u) /\ ~Clash(t, v)
             /\ \A i \in 1..N :
                  u.index[i] = BagAdd(t.index[i], Pair(i, v, t.numRecords + 1))
             /\ \A i \in 1..N : t.unique[i] => ~Holds(t, i, v)
  /\ ~u.ok => \/ u.dbError = "DB_INDEX" /\ ~Clash(t, v)
              \/ u.dbError = "DB_UNIQUE" /\ u.idxError = t.idxError /\ u.index = t.index

LEMMA SameBase ==
  ASSUME NEW t, NEW u \in Tbl, Base(t), Same(t, u)
  PROVE  Base(u)
BY DEF Base, Same

(* With an error noted from before, only this is certain.                  *)
LEMMA AddClashes ==
  ASSUME NEW t \in Tbl, t.ok, NEW v \in Vals, Clash(t, v)
  PROVE  LET u == AddDBIndexes(t, v)
         IN /\ u \in Tbl /\ Same(t, u) /\ ~u.ok /\ u.dbError = "DB_UNIQUE"
            /\ u.idxError = t.idxError /\ u.index = t.index
<1> DEFINE a == [t EXCEPT !.ok = FALSE]
           u == [a EXCEPT !.dbError = "DB_UNIQUE"]
<1>1. TestKeys(t, v) = a
  BY TestKeysMakes
<1>2. ~a.ok
  BY DEF Tbl
<1>3. u = [t EXCEPT !.ok = FALSE, !.dbError = "DB_UNIQUE"]
  BY DEF Tbl
<1>4. \A d \in DbErrors :
        LET w == [t EXCEPT !.ok = FALSE, !.dbError = d]
        IN w \in Tbl /\ Same(t, w) /\ ~w.ok /\ w.dbError = d
           /\ w.idxError = t.idxError /\ w.index = t.index
  BY DEF Tbl, Same
<1>5. "DB_UNIQUE" \in DbErrors
  BY DEF DbErrors
<1>6. AddDBIndexes(t, v) = u
  <2> HIDE DEF a
  <2> QED BY <1>1, <1>2 DEF AddDBIndexes
<1> HIDE DEF a, u
<1>7. /\ u \in Tbl /\ Same(t, u) /\ ~u.ok /\ u.dbError = "DB_UNIQUE"
      /\ u.idxError = t.idxError /\ u.index = t.index
  BY <1>3, <1>4, <1>5
<1> QED BY <1>6, <1>7

LEMMA AddDBIndexesMakes ==
  ASSUME NEW t, Ready(t), NEW v \in Vals
  PROVE  Indexed(t, v, AddDBIndexes(t, v))
<1> DEFINE u == AddDBIndexes(t, v)
           n == t.numRecords + 1
<1>1. t \in Tbl /\ t.ok /\ n \in Nat
  BY TblFields DEF Ready, Base
<1>2. CASE Clash(t, v)
  <2>1. /\ u \in Tbl /\ Same(t, u) /\ ~u.ok /\ u.dbError = "DB_UNIQUE"
        /\ u.idxError = t.idxError /\ u.index = t.index
    BY <1>1, <1>2, AddClashes
  <2> HIDE DEF u
  <2>2. Indexed(t, v, u)
    BY <2>1, SameBase DEF Indexed, Ready
  <2> QED BY <2>2 DEF u
<1>3. CASE ~Clash(t, v)
  <2>1. u = PutKeys(t, v, n)
    <3>1. TestKeys(t, v) = t
      BY <1>1, <1>3, TestKeysMakes
    <3> QED BY <1>1, <3>1 DEF AddDBIndexes
  <2>2. PutUpTo(t, v, n, N, u)
    BY <1>1, <2>1, PutKeysMakes
  <2>3. \A i \in 1..N : i <= N
    BY IndexFacts
  <2> HIDE DEF u, n
  <2>4. Base(u)
    BY <2>2, SameBase DEF PutUpTo, Ready
  <2>5. ASSUME u.ok
        PROVE  /\ Ready(u)
               /\ \A i \in 1..N : u.index[i] = BagAdd(t.index[i], Pair(i, v, n))
               /\ \A i \in 1..N : t.unique[i] => ~Holds(t, i, v)
    BY <2>2, <2>3, <2>4, <2>5 DEF PutUpTo, Ready
  <2>6. ~u.ok => u.dbError = "DB_INDEX"
    BY <1>3, <2>2 DEF PutUpTo, Ready
  <2>7. Same(t, u)
    BY <2>2 DEF PutUpTo
  <2>8. Indexed(t, v, u)
    BY <1>3, <2>4, <2>5, <2>6, <2>7 DEF Indexed, n
  <2> QED BY <2>8 DEF u
<1> QED BY <1>2, <1>3

-----------------------------------------------------------------------------
(* crec and offset go together, the header is not far behind and, if it is *)
(* behind at all, numRecords is a multiple of TABLE_FLUSH; an error of an  *)
(* index that is left noted has been reported as one.                      *)
Cursor(t) ==
  \/ t.offset = t.crec + 1
  \/ t.offset = t.crec /\ t.crec = t.numRecords

HeaderNear(t) ==
  \/ t.header = t.numRecords
  \/ t.header = t.numRecords - 1 /\ t.numRecords % TABLE_FLUSH = 0

Reported(t) == t.idxError = "IDX_NOERR" \/ t.dbError = "DB_INDEX"

(* Every call on an open table makes a u like this of t, and one that the  *)
(* caller need not answer with a reindexing keeps the table intact.        *)
Called(t, u) == Base(u) /\ (Cursor(t) => Cursor(u)) /\ Reported(u)

Kept(t, u) ==
  /\ HeaderNear(t) => HeaderNear(u)
  /\ Intact(t, t.numRecords) => Intact(u, u.numRecords)

LEMMA SameKept ==
  ASSUME NEW t, NEW u, Same(t, u)
  PROVE  /\ Cursor(t) => Cursor(u)
         /\ HeaderNear(t) => HeaderNear(u)
         /\ u.index = t.index => Kept(t, u)
<1>1. /\ u.offset = t.offset /\ u.crec = t.crec /\ u.numRecords = t.numRecords
      /\ u.header = t.header /\ u.file = t.file
  BY DEF Same
<1>2. Values(u, u.numRecords) = Values(t, t.numRecords)
  BY <1>1 DEF Values
<1> QED BY <1>1, <1>2 DEF Cursor, HeaderNear, Kept, Intact

LEMMA FlushApart ==
  ASSUME NEW n \in Nat, n % TABLE_FLUSH = 0
  PROVE  (n + 1) % TABLE_FLUSH # 0
<1>1. TABLE_FLUSH \in Nat /\ TABLE_FLUSH > 1
  BY FlushAssumption
<1> DEFINE q == n \div TABLE_FLUSH
           r == (n + 1) \div TABLE_FLUSH
<1>2. q \in Int /\ r \in Int
  BY <1>1
<1>3. n = TABLE_FLUSH * q
  BY <1>1
<1>4. (n + 1) % TABLE_FLUSH = 0 => n + 1 = TABLE_FLUSH * r
  BY <1>1
<1> HIDE DEF q, r
<1>5. n + 1 # TABLE_FLUSH * r
  <2>1. SUFFICES ASSUME n + 1 = TABLE_FLUSH * r PROVE FALSE
    OBVIOUS
  <2>2. TABLE_FLUSH * (r - q) = 1
    BY <1>1, <1>2, <1>3, <2>1
  <2>3. r - q \in Int /\ (r - q <= 0 \/ r - q >= 1)
    BY <1>2
  <2>4. \A x, y \in Int : x > 1 /\ y >= 1 => x * y > 1
    OBVIOUS
  <2>5. \A x, y \in Int : x > 1 /\ y <= 0 => x * y <= 0
    OBVIOUS
  <2> QED BY <1>1, <2>2, <2>3, <2>4, <2>5
<1> QED BY <1>4, <1>5

(* What AppendRecord makes of a t that AddDBIndexes has made of s.         *)
LEMMA AddedRow ==
  ASSUME NEW s, Base(s), NEW v \in Vals, NEW a, Indexed(s, v, a), a.ok,
         NEW u, Appended(a, v, u)
  PROVE  /\ Ready(u) /\ Cursor(u) /\ u.numRecords = s.numRecords + 1 /\ u.header = s.header
         /\ Intact(s, s.numRecords) => Intact(u, u.numRecords)
<1> DEFINE c == s.numRecords
           W == Values(s, c)
<1>1. s \in Tbl /\ c \in Nat /\ c <= Len(s.file)
  BY TblFields DEF Base
<1>2. W \in [1..c -> Vals]
  BY <1>1, ValuesFacts
<1>3. a.numRecords = c /\ Values(a, c) = W /\ a.header = s.header
  BY DEF Indexed, Same, Values
<1> HIDE DEF W, c
<1>4. Ready(u) /\ Cursor(u) /\ u.numRecords = c + 1 /\ u.header = s.header
  BY <1>3 DEF Indexed, Appended, Ready, Cursor
<1>5. ASSUME Intact(s, c) PROVE Intact(u, c + 1)
  <2>1. Listing(s.index, W) /\ UniqueRows(W)
    BY <1>5 DEF Intact, W
  <2>2. \A i \in 1..N : u.index[i] = BagAdd(s.index[i], Pair(i, v, c + 1))
    BY DEF Indexed, Appended, c
  <2>3. \A i \in 1..N : s.unique[i] => ~Holds(s, i, v)
    BY DEF Indexed
  <2>4. \A i \in FieldIndexes : s.unique[i] = Indexes[i].isUnique
    BY DEF Base
  <2>5. Listing(u.index, Grown(W, c, v)) /\ UniqueRows(Grown(W, c, v))
    BY <1>1, <1>2, <2>1, <2>2, <2>3, <2>4, ListingGrows
  <2>6. Values(u, c + 1) = Grown(W, c, v)
    BY <1>3 DEF Appended
  <2> QED BY <2>5, <2>6 DEF Intact
<1> QED BY <1>4, <1>5 DEF c

Added(t, v, u) ==
  /\ Called(t, u)
  /\ u.ok => Ready(u) /\ Kept(t, u)
  /\ ~u.ok => /\ Same(t, u)
              /\ \/ u.dbError = "DB_INDEX" /\ ~Clash(t, v)
                 \/ u.dbError = "DB_UNIQUE" /\ u.idxError = t.idxError /\ u.index = t.index

LEMMA AddRecordMakes ==
  ASSUME NEW t, Ready(t), NEW v \in Vals
  PROVE  Added(t, v, AddRecord(t, v))
<1> DEFINE a == AddDBIndexes(t, v)
           b == AppendRecord(a, v)
           u == IF b.numRecords % TABLE_FLUSH # 0 THEN StoreTableHeader(b) ELSE b
<1>1. AddRecord(t, v) = IF a.ok THEN u ELSE a
  BY DEF AddRecord
<1>2. Indexed(t, v, a)
  BY AddDBIndexesMakes
<1> HIDE DEF a
<1>3. CASE ~a.ok
  <2>1. Base(a) /\ Same(t, a)
    BY <1>2 DEF Indexed
  <2>2. Reported(a)
    BY <1>2, <1>3 DEF Indexed, Reported, Ready
  <2>3. Called(t, a)
    BY <2>1, <2>2, SameKept DEF Called
  <2>4. Added(t, v, a)
    BY <1>2, <1>3, <2>1, <2>3 DEF Added, Indexed
  <2> QED BY <1>1, <1>3, <2>4
<1>4. CASE a.ok
  <2>1. Appended(a, v, b)
    BY <1>2, AppendMakes DEF Indexed
  <2> HIDE DEF b
  <2>2. /\ Ready(b) /\ Cursor(b) /\ b.numRecords = t.numRecords + 1 /\ b.header = t.header
        /\ Intact(t, t.numRecords) => Intact(b, b.numRecords)
    BY <1>2, <1>4, <2>1, AddedRow DEF Ready
  <2>3. u.numRecords = b.numRecords /\ u.header = IF b.numRecords % TABLE_FLUSH # 0
                                                    THEN b.numRecords ELSE b.header
    BY <2>2, StoreMakes DEF Ready
  <2>4. /\ Ready(u) /\ Cursor(u)
        /\ Intact(t, t.numRecords) => Intact(u, u.numRecords)
    <3> DEFINE w == StoreTableHeader(b)
    <3>1. /\ Base(w) /\ w.header = b.numRecords /\ w.file = b.file /\ w.index = b.index
          /\ w.numRecords = b.numRecords /\ w.crec = b.crec /\ w.offset = b.offset
          /\ w.ok = b.ok /\ w.dbError = b.dbError /\ w.idxError = b.idxError
      BY <2>2, StoreMakes DEF Ready
    <3> HIDE DEF w
    <3>2. /\ Ready(w) /\ Cursor(w)
          /\ Intact(t, t.numRecords) => Intact(w, w.numRecords)
      BY <2>2, <3>1 DEF Ready, Cursor, Intact, Values
    <3> QED BY <2>2, <3>2 DEF w
  <2> HIDE DEF u
  <2>5. HeaderNear(t) => HeaderNear(u)
    <3>1. t.numRecords \in Nat /\ t.header \in Nat
      BY TblFields DEF Ready, Base
    <3>2. t.numRecords % TABLE_FLUSH = 0 => (t.numRecords + 1) % TABLE_FLUSH # 0
      BY <3>1, FlushApart
    <3>3. t.numRecords + 1 = u.numRecords
      BY <2>2, <2>3
    <3>4. u.header = IF u.numRecords % TABLE_FLUSH # 0 THEN u.numRecords ELSE t.header
      BY <2>2, <2>3
    <3>5. (t.numRecords + 1) - 1 = t.numRecords
      BY <3>1
    <3> QED BY <3>2, <3>3, <3>4, <3>5 DEF HeaderNear
  <2>6. Called(t, u)
    BY <2>4 DEF Called, Ready, Reported
  <2>7. Added(t, v, u)
    BY <2>4, <2>5, <2>6 DEF Added, Kept, Ready
  <2> QED BY <1>1, <1>4, <2>7
<1> QED BY <1>3, <1>4

-----------------------------------------------------------------------------
(* massAddRecords.                                                         *)
MassAdded(t, u) ==
  /\ Called(t, u)
  /\ u.ok => Ready(u) /\ (Intact(t, t.numRecords) => Intact(u, u.numRecords))

LEMMA Unmarked ==
  ASSUME NEW t, Base(t)
  PROVE  LET u == [t EXCEPT !.marked = FALSE]
         IN /\ Base(u) /\ u.file = t.file /\ u.index = t.index /\ u.numRecords = t.numRecords
            /\ u.header = t.header /\ u.crec = t.crec /\ u.offset = t.offset
            /\ u.ok = t.ok /\ u.dbError = t.dbError /\ u.idxError = t.idxError
            /\ u.unique = t.unique /\ u.rejected = t.rejected /\ ~u.marked
<1>1. t \in Tbl
  BY DEF Base
<1>2. LET u == [t EXCEPT !.marked = FALSE]
      IN /\ u \in Tbl /\ u.file = t.file /\ u.index = t.index /\ u.numRecords = t.numRecords
         /\ u.header = t.header /\ u.crec = t.crec /\ u.offset = t.offset
         /\ u.ok = t.ok /\ u.dbError = t.dbError /\ u.idxError = t.idxError
         /\ u.unique = t.unique /\ u.rejected = t.rejected /\ ~u.marked
  BY <1>1 DEF Tbl
<1> QED BY <1>2 DEF Base

LEMMA MassAddOneMakes ==
  ASSUME NEW t, Ready(t), NEW v \in Vals
  PROVE  MassAdded(t, MassAddOne(t, v))
<1> DEFINE s == [t EXCEPT !.marked = FALSE]
           a == AddDBIndexes(s, v)
           b == IF a.ok THEN AppendRecord(a, v) ELSE a
           w == [b EXCEPT !.ok = TRUE, !.rejected = Append(@, v),
                          !.dbError = "DB_NOERROR", !.idxError = "IDX_NOERR"]
<1>1. /\ Ready(s) /\ s.numRecords = t.numRecords /\ (Cursor(t) => Cursor(s))
      /\ (Intact(t, t.numRecords) => Intact(s, s.numRecords))
  <2>1. /\ Base(s) /\ s.file = t.file /\ s.index = t.index /\ s.numRecords = t.numRecords
        /\ s.crec = t.crec /\ s.offset = t.offset
        /\ s.ok = t.ok /\ s.dbError = t.dbError /\ s.idxError = t.idxError
    BY Unmarked DEF Ready
  <2> HIDE DEF s
  <2> QED BY <2>1 DEF Ready, Cursor, Intact, Values
<1> HIDE DEF s
<1>2. MassAddOne(t, v) =
        IF ~a.ok /\ a.dbError # "DB_UNIQUE" THEN a
        ELSE IF b.dbError = "DB_NOERROR" THEN b
        ELSE IF b.dbError = "DB_UNIQUE" THEN w
        ELSE [b EXCEPT !.ok = FALSE]
  BY DEF MassAddOne, s
<1>3. Indexed(s, v, a)
  BY <1>1, AddDBIndexesMakes
<1>4. Base(a) /\ (Cursor(t) => Cursor(a))
  BY <1>1, <1>3, SameKept DEF Indexed
<1> HIDE DEF a
<1>5. CASE a.ok
  <2>1. b = AppendRecord(a, v)
    BY <1>5
  <2>2. Appended(a, v, b)
    BY <1>4, <2>1, AppendMakes
  <2> HIDE DEF b, w
  <2>3. /\ Ready(b) /\ Cursor(b)
        /\ Intact(s, s.numRecords) => Intact(b, b.numRecords)
    BY <1>1, <1>3, <1>5, <2>2, AddedRow DEF Ready
  <2>4. MassAdded(t, b)
    BY <1>1, <2>3 DEF MassAdded, Called, Ready, Reported
  <2>5. MassAddOne(t, v) = b
    BY <1>2, <1>5, <2>3 DEF Ready
  <2> QED BY <2>4, <2>5
<1>6. CASE ~a.ok /\ a.dbError = "DB_UNIQUE"
  <2>1. b = a
    BY <1>6
  <2>2. MassAddOne(t, v) = w
    BY <1>2, <1>6, <2>1
  <2>3. a \in Tbl /\ a.index = s.index /\ Same(s, a)
    BY <1>3, <1>6 DEF Indexed, Base
  <2>4. Append(a.rejected, v) \in Seq(Vals)
    BY <2>3, TblFields, AppendProperties
  <2> DEFINE x == Append(a.rejected, v)
             y == [[[[a EXCEPT !.ok = TRUE] EXCEPT !.rejected = x]
                       EXCEPT !.dbError = "DB_NOERROR"] EXCEPT !.idxError = "IDX_NOERR"]
  <2>5. TRUE \in BOOLEAN /\ "DB_NOERROR" \in DbErrors /\ "IDX_NOERR" \in IdxErrors
    BY DEF DbErrors, IdxErrors
  <2> HIDE DEF x
  <2>6. y \in Tbl
    BY <2>3, <2>4, <2>5, FieldChanges DEF x
  <2>7. w = y
    <3>1. w = [a EXCEPT !.ok = TRUE, !.rejected = x,
                        !.dbError = "DB_NOERROR", !.idxError = "IDX_NOERR"]
      BY <2>1 DEF x
    <3> HIDE DEF w, b
    <3> QED BY <2>3, <3>1 DEF Tbl
  <2> HIDE DEF w, b
  <2>8. /\ w \in Tbl /\ w.ok /\ w.dbError = "DB_NOERROR" /\ w.idxError = "IDX_NOERR"
        /\ w.file = a.file /\ w.index = a.index /\ w.numRecords = a.numRecords
        /\ w.header = a.header /\ w.crec = a.crec /\ w.offset = a.offset
        /\ w.unique = a.unique
    <3>1. /\ y.ok /\ y.dbError = "DB_NOERROR" /\ y.idxError = "IDX_NOERR"
          /\ y.file = a.file /\ y.index = a.index /\ y.numRecords = a.numRecords
          /\ y.header = a.header /\ y.crec = a.crec /\ y.offset = a.offset
          /\ y.unique = a.unique
      BY <2>3 DEF Tbl
    <3> HIDE DEF y
    <3> QED BY <2>6, <2>7, <3>1
  <2>9. Ready(w) /\ (Cursor(a) => Cursor(w))
    BY <1>4, <2>8 DEF Ready, Base, Cursor
  <2>10. Intact(s, s.numRecords) => Intact(w, w.numRecords)
    BY <2>3, <2>8 DEF Intact, Values, Same
  <2>11. MassAdded(t, w)
    BY <1>1, <1>4, <2>9, <2>10 DEF MassAdded, Called, Ready, Reported
  <2> QED BY <2>2, <2>11
<1>7. CASE ~a.ok /\ a.dbError # "DB_UNIQUE"
  <2>1. MassAddOne(t, v) = a
    BY <1>2, <1>7
  <2>2. Reported(a)
    BY <1>3, <1>7 DEF Indexed, Reported
  <2>3. MassAdded(t, a)
    BY <1>4, <1>7, <2>2 DEF MassAdded, Called
  <2> QED BY <2>1, <2>3
<1> QED BY <1>5, <1>6, <1>7

(* The records of the list are added one after the other.                  *)
MassAddRuns(t, list, f, K) ==
  /\ K = Len(list) /\ f \in [0..K -> {u \in Tbl : MassAdded(t, u)}] /\ f[0] = t
  /\ \A i \in 1..K : f[i] = IF f[i - 1].ok THEN MassAddOne(f[i - 1], list[i]) ELSE f[i - 1]
  /\ MassAddRecords(t, list) = IF f[K].ok THEN StoreTableHeader(f[K]) ELSE f[K]

LEMMA MassAddRecordsRuns ==
  ASSUME NEW t, Ready(t), NEW list \in Seq(Vals)
  PROVE  \E f : MassAddRuns(t, list, f, Len(list))
<1> DEFINE K == Len(list)
           U == {u \in Tbl : MassAdded(t, u)}
           Op(u, v) == IF u.ok THEN MassAddOne(u, v) ELSE u
           G == [i \in 1..K |-> [u \in U |-> Op(u, list[i])]]
           Eq(h) == h = [s \in SUBSET DOMAIN list |->
                          IF s = {} THEN t ELSE Op(h[s \ {Max(s)}], list[Max(s)])]
           c == CHOOSE g : Eq(g)
           a == c[DOMAIN list]
<1>1. MassAddRecords(t, list) = IF a.ok THEN StoreTableHeader(a) ELSE a
  BY DEF MassAddRecords, FoldLeft, MapThenFoldSet
<1>2. DOMAIN list = 1..K /\ K \in Nat /\ \A i \in 1..K : list[i] \in Vals
  BY LenProperties, ElementOfSeq
<1>3. t \in U
  BY DEF Ready, Base, MassAdded, Called, Reported
<1>4. \A u \in U, v \in Vals : Op(u, v) \in U
  <2>1. SUFFICES ASSUME NEW u \in U, NEW v \in Vals, u.ok PROVE MassAddOne(u, v) \in U
    OBVIOUS
  <2>2. MassAdded(t, u) /\ Ready(u)
    BY <2>1 DEF MassAdded
  <2>3. MassAdded(u, MassAddOne(u, v))
    BY <2>2, MassAddOneMakes
  <2>4. MassAdded(t, MassAddOne(u, v))
    BY <2>1, <2>2, <2>3 DEF MassAdded, Called
  <2> QED BY <2>4 DEF MassAdded, Called, Base
<1> HIDE DEF Op, U, K
<1>5. G \in [1..K -> [U -> U]]
  BY <1>2, <1>4
<1>6. \A i \in 1..K, u \in U : G[i][u] = Op(u, list[i])
  OBVIOUS
<1> HIDE DEF G
<1>7. \A s \in SUBSET (1..K) : s # {} => Max(s) \in 1..K
  BY <1>2, MaxExists
<1>8. PICK h \in [SUBSET (1..K) -> U] : Folds(h, t, K, G)
  BY <1>2, <1>3, <1>5, FoldExists
<1>9. Eq(h)
  <2>1. ASSUME NEW s \in SUBSET (1..K)
        PROVE  h[s] = IF s = {} THEN t ELSE Op(h[s \ {Max(s)}], list[Max(s)])
    <3>1. s # {} => Max(s) \in 1..K /\ h[s \ {Max(s)}] \in U
      BY <1>7
    <3>2. h[s] = IF s = {} THEN t ELSE G[Max(s)][h[s \ {Max(s)}]]
      BY <1>8 DEF Folds
    <3> QED BY <1>6, <3>1, <3>2
  <2> QED BY <1>2, <2>1
<1>10. Eq(c)
  <2> HIDE DEF Eq
  <2> QED BY <1>9
<1>11. \A s \in SUBSET (1..K) :
         c[s] = IF s = {} THEN t ELSE Op(c[s \ {Max(s)}], list[Max(s)])
  BY <1>2, <1>10
<1> HIDE DEF c, Eq
<1>12. FoldsIn(c, U, t, K, G)
  <2>1. ASSUME NEW s \in SUBSET (1..K), s # {}, c[s \ {Max(s)}] \in U
        PROVE  c[s] = G[Max(s)][c[s \ {Max(s)}]]
    BY <1>6, <1>7, <1>11, <2>1
  <2>2. c[{}] = t
    BY <1>11
  <2> QED BY <2>1, <2>2 DEF FoldsIn
<1>13. PICK f : Runs(f, U, t, K, G) /\ f[K] = c[1..K]
  BY <1>2, <1>3, <1>5, <1>12, FoldRuns
<1>14. f \in [0..K -> U] /\ f[0] = t /\ f[K] = a
  BY <1>2, <1>13 DEF Runs
<1>15. \A i \in 1..K : f[i] = Op(f[i - 1], list[i])
  <2>1. ASSUME NEW i \in 1..K PROVE f[i - 1] \in U /\ f[i] = G[i][f[i - 1]]
    BY <1>2, <1>13 DEF Runs
  <2> QED BY <1>6, <2>1
<1> HIDE DEF a
<1>16. MassAddRuns(t, list, f, K)
  <2>1. \A i \in 1..K :
          f[i] = IF f[i - 1].ok THEN MassAddOne(f[i - 1], list[i]) ELSE f[i - 1]
    BY <1>15 DEF Op
  <2>2. K = Len(list) /\ f \in [0..K -> {u \in Tbl : MassAdded(t, u)}]
    BY <1>14 DEF K, U
  <2> QED BY <1>1, <1>14, <2>1, <2>2 DEF MassAddRuns
<1> QED BY <1>16 DEF K

LEMMA MassAddRecordsMakes ==
  ASSUME NEW t, Ready(t), NEW list \in Seq(Vals)
  PROVE  /\ Called(t, MassAddRecords(t, list))
         /\ MassAddRecords(t, list).ok => Kept(t, MassAddRecords(t, list))
<1> DEFINE K == Len(list)
<1>1. K \in Nat
  BY LenProperties
<1>2. PICK f : MassAddRuns(t, list, f, K)
  BY MassAddRecordsRuns
<1> DEFINE a == f[K]
<1> HIDE DEF K
<1>3. MassAdded(t, a)
  BY <1>1, <1>2 DEF MassAddRuns
<1>4. MassAddRecords(t, list) = IF a.ok THEN StoreTableHeader(a) ELSE a
  BY <1>2 DEF MassAddRuns
<1> HIDE DEF a
<1>5. CASE ~a.ok
  BY <1>4, <1>3, <1>5 DEF MassAdded
<1>6. CASE a.ok
  <2> DEFINE w == StoreTableHeader(a)
  <2>1. Ready(a) /\ Base(a) /\ Cursor(t) => Cursor(a)
    BY <1>3, <1>6 DEF MassAdded, Called, Ready
  <2>2. /\ Base(w) /\ w.header = a.numRecords /\ w.file = a.file /\ w.index = a.index
        /\ w.numRecords = a.numRecords /\ w.crec = a.crec /\ w.offset = a.offset
        /\ w.ok = a.ok /\ w.dbError = a.dbError /\ w.idxError = a.idxError
    <3>1. Base(a)
      BY <1>3 DEF MassAdded, Called
    <3> QED BY <3>1, StoreMakes
  <2> HIDE DEF w
  <2>3. Called(t, w)
    BY <1>3, <1>6, <2>2 DEF MassAdded, Called, Cursor, Reported, Ready
  <2>4. HeaderNear(w)
    BY <2>2 DEF HeaderNear
  <2>5. Intact(a, a.numRecords) => Intact(w, w.numRecords)
    BY <2>2 DEF Intact, Values
  <2>6. Kept(t, w)
    BY <1>3, <1>6, <2>4, <2>5 DEF MassAdded, Kept
  <2>7. MassAddRecords(t, list) = w
    BY <1>4, <1>6 DEF w
  <2> QED BY <2>3, <2>6, <2>7
<1> QED BY <1>5, <1>6

-----------------------------------------------------------------------------
(* Changing a record.                                                      *)
LEMMA PutKeysSkips ==
  ASSUME NEW t \in Tbl, ~t.ok, NEW v \in Vals, NEW n \in Nat
  PROVE  PutKeys(t, v, n) = t
<1>1. PICK f \in [0..N -> Tbl] :
        /\ f[0] = t /\ f[N] = PutKeys(t, v, n)
        /\ \A i \in 1..N : f[i] = PutStep(f[i - 1], i, v, n)
  BY PutKeysRun
<1> DEFINE T == {i \in Nat : i <= N => f[i] = t}
<1>2. ASSUME NEW k \in Nat, k \in T, k + 1 <= N PROVE f[k + 1] = t
  <2>1. k + 1 \in 1..N /\ (k + 1) - 1 = k /\ f[k] = t
    BY <1>2, IndexFacts
  <2> QED BY <1>1, <2>1 DEF PutStep
<1>3. 0 \in T /\ \A k \in Nat : k \in T => k + 1 \in T
  BY <1>1, <1>2
<1> HIDE DEF T
<1>4. N \in T /\ N \in Nat
  BY <1>3, NumberInduction, IndexFacts
<1> QED BY <1>1, <1>4 DEF T

(* What Overwrite makes of t.                                              *)
Overwritten(t, v, u) ==
  /\ Base(u) /\ u.numRecords = t.numRecords /\ u.header = t.header /\ u.index = t.index
  /\ u.crec = t.crec /\ u.offset = t.offset /\ u.ok = t.ok
  /\ u.dbError = t.dbError /\ u.idxError = t.idxError
  /\ t.offset \in 1..t.numRecords =>
       Values(u, t.numRecords) = [Values(t, t.numRecords) EXCEPT ![t.offset] = v]

LEMMA OverwriteMakes ==
  ASSUME NEW t, Base(t), NEW v \in Vals
  PROVE  Overwritten(t, v, Overwrite(t, v))
<1> DEFINE n == t.offset
           r == [deleted |-> FALSE, vals |-> v]
           f == Written(t.file, n, r)
           u == [t EXCEPT !.file = f, !.marked = FALSE]
<1>1. /\ t \in Tbl /\ t.numRecords <= Len(t.file) /\ t.header <= Len(t.file)
      /\ t.numRecords \in Nat /\ t.header \in Nat
  BY TblFields DEF Base
<1>2. r \in Record /\ r.vals = v
  BY DEF Record
<1>3. n \in Int /\ Len(t.file) \in Nat /\ t.file \in Seq(Record)
  BY <1>1, TblFields, LenProperties
<1>4. /\ f \in Seq(Record) /\ Len(t.file) <= Len(f) /\ Len(f) \in Nat
      /\ \A m \in 1..Len(t.file) : f[m] = IF m = n THEN r ELSE t.file[m]
  <2> HIDE DEF n, r
  <2> QED BY <1>2, <1>3, WrittenFacts, LenProperties
<1>5. Overwrite(t, v) = u
  <2>1. WriteAt(t, n, r) = [t EXCEPT !.file = f]
    BY <1>1, <1>2, <1>3, WriteAtMakes
  <2> HIDE DEF f, r
  <2>2. [[t EXCEPT !.file = f] EXCEPT !.marked = FALSE] = u
    BY <1>1 DEF Tbl
  <2> QED BY <2>1, <2>2 DEF Overwrite, r
<1> HIDE DEF f, r
<1>6. u \in Tbl
  <2>1. u = [[t EXCEPT !.file = f] EXCEPT !.marked = FALSE]
    BY <1>1 DEF Tbl
  <2> QED BY <1>1, <1>4, <2>1, FieldChanges
<1>7. /\ u.file = f /\ u.numRecords = t.numRecords /\ u.header = t.header
      /\ u.crec = t.crec /\ u.offset = t.offset
      /\ u.index = t.index /\ u.ok = t.ok
      /\ u.unique = t.unique /\ u.dbError = t.dbError /\ u.idxError = t.idxError
  BY <1>1 DEF Tbl
<1> HIDE DEF u
<1>8. Base(u)
  <2>1. t.numRecords <= Len(f) /\ t.header <= Len(f)
    BY <1>1, <1>3, <1>4
  <2> QED BY <1>6, <1>7, <2>1 DEF Base
<1>9. ASSUME n \in 1..t.numRecords
      PROVE  Values(u, t.numRecords) = [Values(t, t.numRecords) EXCEPT ![n] = v]
  <2>1. ASSUME NEW m \in 1..t.numRecords
        PROVE  u.file[m].vals = IF m = n THEN v ELSE t.file[m].vals
    <3>1. m \in 1..Len(t.file)
      BY <1>1, <1>3
    <3> QED BY <1>2, <1>4, <1>7, <3>1
  <2> QED BY <2>1 DEF Values
<1> QED BY <1>5, <1>7, <1>8, <1>9 DEF Overwritten

LEMMA UnreadMakes ==
  ASSUME NEW t, Ready(t)
  PROVE  Called(t, Unread(t)) /\ Kept(t, Unread(t)) /\ ~Unread(t).ok
<1> DEFINE u == Unread(t)
<1>1. t \in Tbl
  BY DEF Ready, Base
<1>2. u = [[[t EXCEPT !.ok = FALSE] EXCEPT !.dbError = "DB_IO_READWRITE"] EXCEPT !.marked = FALSE]
  BY <1>1 DEF Unread, Tbl
<1>3. "DB_IO_READWRITE" \in DbErrors
  BY DEF DbErrors
<1>4. u \in Tbl
  <2> HIDE DEF u
  <2> QED BY <1>1, <1>2, <1>3, FieldChanges
<1>5. /\ ~u.ok /\ u.idxError = t.idxError
      /\ u.file = t.file /\ u.index = t.index /\ u.numRecords = t.numRecords
      /\ u.header = t.header /\ u.crec = t.crec /\ u.offset = t.offset /\ u.unique = t.unique
  BY <1>1 DEF Unread, Tbl
<1> HIDE DEF u
<1>6. Base(u) /\ Reported(u) /\ (Cursor(t) => Cursor(u))
  BY <1>4, <1>5 DEF Ready, Base, Reported, Cursor
<1>7. Kept(t, u)
  BY <1>5 DEF Kept, HeaderNear, Intact, Values
<1>8. Called(t, u) /\ Kept(t, u) /\ ~u.ok
  BY <1>5, <1>6, <1>7 DEF Called
<1> QED BY <1>8 DEF u

(* Without an index of a field the indexes of several fields are not kept  *)
(* up to date.                                                             *)
KeepsIndexes == FieldIndexes # {} \/ MultiIndexes = {}

LEMMA NoIndexes ==
  ASSUME KeepsIndexes, FieldIndexes = {}
  PROVE  \A t, c : Intact(t, c)
<1>1. 1..N = {}
  BY IndexFacts DEF KeepsIndexes, MultiIndexes
<1> QED BY <1>1 DEF Intact, Listing, UniqueRows

Updated(t, u) ==
  /\ Called(t, u)
  /\ HeaderNear(t) => HeaderNear(u)
  /\ u.ok /\ KeepsIndexes /\ Cursor(t) /\ Intact(t, t.numRecords) =>
       Intact(u, u.numRecords)

(* The keys k of the record at offset have been deleted and those of v     *)
(* added.                                                                  *)
LEMMA UpdatedIndexes ==
  ASSUME NEW t, Base(t), NEW k \in Vals, NEW v \in Vals, NEW d, NEW a, NEW u,
         DropUpTo(t, k, t.crec + 1, N, d), d.ok,
         PutUpTo(d, v, t.crec + 1, N, a), a.ok, Overwritten(a, v, u),
         FieldIndexes # {}, Cursor(t), Intact(t, t.numRecords)
  PROVE  Intact(u, u.numRecords)
<1> DEFINE c == t.numRecords
           n == t.crec + 1
           W == Values(t, c)
<1>1. t \in Tbl /\ c \in Nat /\ c <= Len(t.file) /\ n \in Nat
  BY TblFields DEF Base
<1>2. W \in [1..c -> Vals]
  BY <1>1, ValuesFacts
<1>3. Listing(t.index, W) /\ UniqueRows(W)
  BY DEF Intact
<1>4. \A i \in 1..N : i <= N
  BY IndexFacts
<1>5. \A i \in 1..N : /\ Pair(i, k, n) \in DOMAIN t.index[i]
                      /\ d.index[i] = BagRemove(t.index[i], Pair(i, k, n))
                      /\ a.index[i] = BagAdd(d.index[i], Pair(i, v, n))
                      /\ d.unique[i] => ~Holds(d, i, v)
  BY <1>4 DEF DropUpTo, PutUpTo
<1>6. d.unique = t.unique /\ u.index = a.index
  BY DEF DropUpTo, Same, Overwritten
<1>7. \A i \in FieldIndexes : t.unique[i] = Indexes[i].isUnique
  BY DEF Base
<1> HIDE DEF W
<1>8. n \in 1..c
  <2>1. PICK i \in FieldIndexes : i \in 1..N
    BY FieldFacts
  <2>2. t.index[i] = SetToBag(Rows(i, W))
    BY <1>3, <2>1 DEF Listing
  <2>3. Pair(i, k, n) \in DOMAIN t.index[i]
    BY <1>5, <2>1
  <2> HIDE DEF c, n
  <2> QED BY <1>1, <1>2, <2>1, <2>2, <2>3, ListedKeys
<1>9. t.offset = n
  <2>1. t.crec # c
    BY <1>1, <1>8, TblFields
  <2> QED BY <2>1 DEF Cursor
<1>10. Listing(u.index, [W EXCEPT ![n] = v]) /\ UniqueRows([W EXCEPT ![n] = v])
  <2>1. Replaced(t, k, d, v, u, n)
    BY <1>5, <1>6 DEF Replaced
  <2> HIDE DEF c, n
  <2> QED BY <1>1, <1>2, <1>3, <1>7, <1>8, <2>1, ListingChanges
<1>11. a.file = t.file /\ a.numRecords = c /\ a.offset = n
  BY <1>9 DEF DropUpTo, PutUpTo, Same
<1>12. Values(a, c) = W
  BY <1>11 DEF Values, W
<1>13. u.numRecords = c /\ Values(u, c) = [W EXCEPT ![n] = v]
  BY <1>8, <1>11, <1>12 DEF Overwritten
<1> QED BY <1>10, <1>13 DEF Intact

LEMMA UpdateRecordMakes ==
  ASSUME NEW t, Ready(t), NEW v \in Vals
  PROVE  Updated(t, UpdateRecord(t, v))
<1>1. Base(t) /\ t \in Tbl /\ t.ok
  BY DEF Ready, Base
<1>2. CASE FieldIndexes = {}
  <2> DEFINE u == Overwrite(t, v)
  <2>1. UpdateRecord(t, v) = u
    BY <1>2 DEF UpdateRecord
  <2>2. Overwritten(t, v, u)
    BY <1>1, OverwriteMakes
  <2> HIDE DEF u
  <2>3. Called(t, u) /\ (HeaderNear(t) => HeaderNear(u))
    BY <2>2 DEF Overwritten, Called, Cursor, Reported, Ready, HeaderNear
  <2>4. Updated(t, u)
    BY <1>2, <2>3, NoIndexes DEF Updated
  <2> QED BY <2>1, <2>4
<1>3. CASE FieldIndexes # {} /\ ~Readable(t)
  <2>1. UpdateRecord(t, v) = Unread(t)
    BY <1>3 DEF UpdateRecord
  <2>2. Called(t, Unread(t)) /\ Kept(t, Unread(t))
    BY UnreadMakes
  <2> QED BY <2>1, <2>2 DEF Updated, Kept
<1>4. CASE FieldIndexes # {} /\ Readable(t)
  <2> DEFINE old == t.file[t.offset]
             k == IF old.deleted THEN v ELSE old.vals
             n == t.crec + 1
             d == DropKeys(t, k, n)
             a == PutKeys(d, v, n)
             u == Overwrite(a, v)
             e == [a EXCEPT !.dbError = "DB_INDEX"]
  <2>1. UpdateRecord(t, v) = IF a.ok THEN u ELSE e
    BY <1>4 DEF UpdateRecord
  <2>2. k \in Vals /\ n \in Nat
    <3>1. old \in Record
      BY <1>1, <1>4, TblFields, ElementOfSeq, LenProperties DEF Readable
    <3>2. \A r \in Record : r.vals \in Vals
      BY DEF Record
    <3> HIDE DEF old
    <3> QED BY <1>1, <3>1, <3>2, TblFields
  <2> HIDE DEF k, n, old
  <2>3. DropUpTo(t, k, n, N, d)
    BY <1>1, <2>2, DropKeysMakes
  <2> HIDE DEF d
  <2>4. d \in Tbl /\ Same(t, d)
    BY <2>3 DEF DropUpTo
  <2>5. a \in Tbl /\ Same(t, a) /\ (d.ok => PutUpTo(d, v, n, N, a)) /\ (~d.ok => ~a.ok)
    <3>1. CASE d.ok
      <4>1. PutUpTo(d, v, n, N, a)
        BY <2>2, <2>4, <3>1, PutKeysMakes
      <4>2. a \in Tbl /\ Same(d, a)
        BY <4>1 DEF PutUpTo
      <4> QED BY <2>4, <3>1, <4>1, <4>2, SameFacts
    <3>2. CASE ~d.ok
      <4>1. a = d
        BY <2>2, <2>4, <3>2, PutKeysSkips
      <4> QED BY <2>4, <3>2, <4>1
    <3> QED BY <3>1, <3>2
  <2> HIDE DEF a
  <2>6. CASE ~a.ok
    <3>1. e \in Tbl /\ Same(a, e) /\ e.dbError = "DB_INDEX" /\ ~e.ok
      <4>1. "DB_INDEX" \in DbErrors
        BY DEF DbErrors
      <4>2. e \in Tbl
        BY <2>5, <4>1, FieldChanges
      <4>3. Same(a, e) /\ e.dbError = "DB_INDEX" /\ ~e.ok
        BY <2>5, <2>6 DEF Tbl, Same
      <4> QED BY <4>2, <4>3
    <3> HIDE DEF e
    <3>2. Same(t, e) /\ Base(e)
      BY <1>1, <2>5, <3>1, SameFacts, SameBase
    <3>3. Updated(t, e)
      BY <3>1, <3>2, SameKept DEF Updated, Called, Reported
    <3> QED BY <2>1, <2>6, <3>3
  <2>7. CASE a.ok
    <3>1. d.ok /\ PutUpTo(d, v, n, N, a) /\ Base(a)
      BY <1>1, <2>5, <2>7, SameBase
    <3>2. Overwritten(a, v, u)
      BY <3>1, OverwriteMakes
    <3> HIDE DEF u
    <3>3. a.idxError = t.idxError /\ (Cursor(t) => Cursor(a)) /\ (HeaderNear(t) => HeaderNear(a))
      BY <2>3, <2>5, <2>7, <3>1, SameKept DEF DropUpTo, PutUpTo
    <3>4. Called(t, u) /\ (HeaderNear(t) => HeaderNear(u))
      BY <3>2, <3>3 DEF Overwritten, Called, Cursor, Reported, Ready, HeaderNear
    <3>5. Cursor(t) /\ Intact(t, t.numRecords) => Intact(u, u.numRecords)
      BY <1>1, <1>4, <2>2, <2>3, <2>7, <3>1, <3>2, UpdatedIndexes DEF n
    <3>6. Updated(t, u)
      BY <3>4, <3>5 DEF Updated
    <3> QED BY <2>1, <2>7, <3>6
  <2> QED BY <2>6, <2>7
<1> QED BY <1>2, <1>3, <1>4

(* Changing a record cannot fail, though, as long as every index lists it  *)
(* and none that refuses duplicates has a key of v for another one.        *)
Changeable(t, v) ==
  /\ Ready(t) /\ t.offset = t.crec + 1 /\ t.offset \in 1..t.numRecords
  /\ ~t.file[t.offset].deleted
  /\ FieldIndexes # {} => Intact(t, t.numRecords)
  /\ \A i \in DOMAIN Indexes, m \in 1..t.numRecords :
       t.unique[i] /\ m # t.offset => KeyOf(i, t.file[m].vals) # KeyOf(i, v)

LEMMA OverwriteSucceeds ==
  ASSUME NEW t \in Tbl, NEW v \in Vals, Readable(t)
  PROVE  /\ Overwrite(t, v).ok = t.ok
         /\ Overwrite(t, v).file[t.offset] = [deleted |-> FALSE, vals |-> v]
<1> DEFINE n == t.offset
           r == [deleted |-> FALSE, vals |-> v]
           w == WriteAt(t, n, r)
<1>1. n \in DOMAIN t.file
  BY DEF Readable
<1>2. w = [t EXCEPT !.file = [t.file EXCEPT ![n] = r]]
  BY <1>1 DEF WriteAt
<1>3. w.ok = t.ok /\ w.file = [t.file EXCEPT ![n] = r]
  BY <1>2 DEF Tbl
<1>4. w.file[n] = r
  BY <1>1, <1>3, TblFields, LenProperties
<1>5. DOMAIN w = DOMAIN t
  BY <1>2
<1>6. Overwrite(t, v) = [w EXCEPT !.marked = FALSE]
  BY DEF Overwrite
<1> HIDE DEF w, r, n
<1>7. Overwrite(t, v).ok = w.ok /\ Overwrite(t, v).file = w.file
  BY <1>5, <1>6 DEF Tbl
<1> QED BY <1>3, <1>4, <1>7 DEF n, r

LEMMA UpdateSucceedsMakes ==
  ASSUME NEW t, NEW v \in Vals, Changeable(t, v)
  PROVE  /\ UpdateRecord(t, v).ok
         /\ UpdateRecord(t, v).file[t.offset] = [deleted |-> FALSE, vals |-> v]
<1> DEFINE c == t.numRecords
           n == t.offset
           W == Values(t, c)
           k == W[n]
           d == DropKeys(t, k, n)
           a == PutKeys(d, v, n)
<1>1. /\ Base(t) /\ t \in Tbl /\ t.ok /\ t.idxError = "IDX_NOERR"
      /\ c \in Nat /\ c <= Len(t.file) /\ n \in 1..c /\ n \in Nat /\ n = t.crec + 1
  BY TblFields DEF Changeable, Ready, Base
<1>2. W \in [1..c -> Vals] /\ \A m \in 1..c : m \in DOMAIN t.file /\ W[m] = t.file[m].vals
  BY <1>1, ValuesFacts
<1> HIDE DEF W
<1>3. Readable(t) /\ k \in Vals
  BY <1>1, <1>2 DEF Readable
<1>4. CASE FieldIndexes = {}
  BY <1>1, <1>3, <1>4, OverwriteSucceeds DEF UpdateRecord
<1>5. CASE FieldIndexes # {}
  <2>1. \A i \in 1..N : t.index[i] = SetToBag(Rows(i, W))
    BY <1>5 DEF Changeable, Intact, Listing, W
  <2>2. UpdateRecord(t, v) = IF a.ok THEN Overwrite(a, v) ELSE [a EXCEPT !.dbError = "DB_INDEX"]
    <3>1. ~t.file[n].deleted /\ t.file[n].vals = k
      BY <1>1, <1>2 DEF Changeable
    <3> HIDE DEF k
    <3> QED BY <1>1, <1>3, <1>5, <3>1 DEF UpdateRecord
  <2>3. DropUpTo(t, k, n, N, d)
    BY <1>1, <1>3, DropKeysMakes
  <2> HIDE DEF d
  <2>4. \A i \in 1..N : Pair(i, k, n) \in Rows(i, W) /\ Rows(i, W) \in SUBSET KeyPair
    BY <1>1, <1>2, RowFacts DEF k
  <2>5. \A i \in 1..N : DOMAIN t.index[i] = Rows(i, W)
    BY <2>1, <2>4, SetBags
  <2> HIDE DEF k
  <2>6. d.ok
    BY <2>3, <2>4, <2>5 DEF DropUpTo
  <2>7. d \in Tbl /\ Same(t, d) /\ d.idxError = "IDX_NOERR"
    BY <1>1, <2>3, <2>6 DEF DropUpTo
  <2>8. PutUpTo(d, v, n, N, a)
    BY <1>1, <2>6, <2>7, PutKeysMakes
  <2> HIDE DEF a
  <2>9. ASSUME NEW i \in 1..N, d.unique[i] PROVE ~Holds(d, i, v)
    <3> DEFINE p == Pair(i, k, n)
    <3>1. DOMAIN d.index[i] = Rows(i, W) \ {p}
      <4>1. d.index[i] = BagRemove(SetToBag(Rows(i, W)), p)
        <5>1. i <= N
          BY IndexFacts
        <5> QED BY <2>1, <2>3, <2>6, <5>1 DEF DropUpTo
      <4>2. p \in Rows(i, W) /\ p \in KeyPair /\ Rows(i, W) \ {p} \in SUBSET KeyPair
        BY <2>4
      <4> HIDE DEF p
      <4> QED BY <2>4, <4>1, <4>2, SetBags
    <3> HIDE DEF p
    <3>2. ASSUME NEW x \in Rows(i, W) \ {p} PROVE x.key # KeyOf(i, v)
      <4>1. PICK m \in 1..c : x = Pair(i, W[m], m)
        BY <1>2 DEF Rows
      <4>2. m # n
        BY <4>1 DEF p, k
      <4>3. t.unique[i] /\ i \in DOMAIN Indexes
        BY <2>7, <2>9, IndexFacts DEF Same
      <4>4. KeyOf(i, W[m]) # KeyOf(i, v)
        BY <1>2, <4>2, <4>3 DEF Changeable
      <4> QED BY <4>1, <4>4 DEF Pair
    <3> QED BY <3>1, <3>2 DEF Holds
  <2>10. a.ok
    BY <2>7, <2>8, <2>9 DEF PutUpTo
  <2>11. a \in Tbl /\ a.offset = n /\ Readable(a)
    BY <1>3, <2>7, <2>8 DEF PutUpTo, Same, Readable
  <2>12. Overwrite(a, v).ok /\ Overwrite(a, v).file[n] = [deleted |-> FALSE, vals |-> v]
    <3>1. a.ok \in BOOLEAN
      BY <2>11 DEF Tbl
    <3> QED BY <2>10, <2>11, <3>1, OverwriteSucceeds
  <2> QED BY <2>2, <2>10, <2>12
<1> QED BY <1>4, <1>5

-----------------------------------------------------------------------------
(* The calls that leave the indexes alone.                                 *)
Edited(t, u) == Called(t, u) /\ Kept(t, u)

LEMMA MarkMakes ==
  ASSUME NEW t, Ready(t), Readable(t), NEW b \in BOOLEAN
  PROVE  Edited(t, Mark(t, b))
<1> DEFINE n == t.offset
           r == [t.file[n] EXCEPT !.deleted = b]
           f == [t.file EXCEPT ![n] = r]
           u == [t EXCEPT !.file = f, !.marked = b]
<1>1. /\ t \in Tbl /\ t.numRecords <= Len(t.file) /\ t.header <= Len(t.file)
      /\ t.numRecords \in Nat /\ t.header \in Nat /\ Base(t)
  BY TblFields DEF Ready, Base
<1>2. t.file \in Seq(Record) /\ Len(t.file) \in Nat /\ n \in 1..Len(t.file)
      /\ t.file[n] \in Record
  BY <1>1, TblFields, LenProperties, ElementOfSeq DEF Readable
<1>3. r \in Record /\ r.vals = t.file[n].vals
  BY <1>2 DEF Record
<1> HIDE DEF r
<1>4. f \in Seq(Record) /\ Len(f) = Len(t.file) /\ \A m \in 1..Len(t.file) :
        f[m].vals = t.file[m].vals
  <2>1. f \in Seq(Record) /\ Len(f) = Len(t.file)
    BY <1>2, <1>3, ExceptSeq
  <2>2. \A m \in 1..Len(t.file) : f[m] = IF m = n THEN r ELSE t.file[m]
    BY <1>2
  <2> HIDE DEF f, n
  <2> QED BY <1>3, <2>1, <2>2
<1>5. Mark(t, b) = u
  BY <1>1, <1>2 DEF Mark, Tbl, r
<1> HIDE DEF f
<1>6. u \in Tbl
  <2>1. u = [[t EXCEPT !.file = f] EXCEPT !.marked = b]
    BY <1>1 DEF Tbl
  <2> QED BY <1>1, <1>4, <2>1, FieldChanges
<1>7. /\ u.file = f /\ u.numRecords = t.numRecords /\ u.header = t.header
      /\ u.crec = t.crec /\ u.offset = t.offset /\ u.index = t.index
      /\ u.unique = t.unique /\ u.idxError = t.idxError
  BY <1>1 DEF Tbl
<1> HIDE DEF u, n
<1>8. Base(u) /\ Reported(u) /\ (Cursor(t) => Cursor(u))
  BY <1>1, <1>4, <1>6, <1>7 DEF Ready, Base, Reported, Cursor
<1>9. Values(u, u.numRecords) = Values(t, t.numRecords)
  <2>1. \A m \in 1..t.numRecords : u.file[m].vals = t.file[m].vals
    BY <1>1, <1>2, <1>4, <1>7
  <2> QED BY <1>7, <2>1 DEF Values
<1>10. Kept(t, u)
  BY <1>7, <1>9 DEF Kept, HeaderNear, Intact
<1> QED BY <1>5, <1>8, <1>10 DEF Edited, Called

(* A move changes nothing but the cursor and the two flags.                *)
Moved(t, u) ==
  /\ u \in Tbl /\ u.file = t.file /\ u.numRecords = t.numRecords /\ u.header = t.header
  /\ u.index = t.index /\ u.unique = t.unique /\ u.idxError = t.idxError

LEMMA MovedEdited ==
  ASSUME NEW t, Ready(t), NEW u, Moved(t, u), Cursor(t) => Cursor(u)
  PROVE  Edited(t, u)
<1>1. Base(u) /\ Reported(u)
  BY DEF Ready, Base, Moved, Reported
<1>2. Kept(t, u)
  BY DEF Moved, Kept, HeaderNear, Intact, Values
<1> QED BY <1>1, <1>2 DEF Edited, Called

LEMMA Flags ==
  ASSUME NEW t \in Tbl, NEW b \in BOOLEAN, NEW e \in BOOLEAN
  PROVE  LET u == [t EXCEPT !.bof = b, !.eof = e]
         IN Moved(t, u) /\ u.crec = t.crec /\ u.offset = t.offset
<1>1. [t EXCEPT !.bof = b, !.eof = e] = [[t EXCEPT !.bof = b] EXCEPT !.eof = e]
  BY DEF Tbl
<1>2. [t EXCEPT !.bof = b, !.eof = e] \in Tbl
  BY <1>1, FieldChanges
<1> QED BY <1>2 DEF Moved, Tbl

PlacedAt(t, c, o) == [t EXCEPT !.crec = c, !.offset = o]

LEMMA Placed ==
  ASSUME NEW t \in Tbl, NEW c \in Nat, NEW o \in Int
  PROVE  /\ Moved(t, PlacedAt(t, c, o))
         /\ PlacedAt(t, c, o).crec = c /\ PlacedAt(t, c, o).offset = o
<1>1. [t EXCEPT !.crec = c, !.offset = o] = [[t EXCEPT !.crec = c] EXCEPT !.offset = o]
  BY DEF Tbl
<1>2. [t EXCEPT !.crec = c, !.offset = o] \in Tbl
  BY <1>1, FieldChanges
<1> QED BY <1>2 DEF Moved, Tbl, PlacedAt

LEMMA MovedTwice ==
  \A t, u, w : Moved(t, u) /\ Moved(u, w) => Moved(t, w)
BY DEF Moved

LEMMA AtMakes ==
  ASSUME NEW t, Ready(t), NEW n \in Nat \ {0}, NEW b \in BOOLEAN, NEW e \in BOOLEAN
  PROVE  /\ Edited(t, [At(t, n) EXCEPT !.bof = b, !.eof = e])
         /\ Edited(t, [At(t, n) EXCEPT !.eof = e])
         /\ Edited(t, [At(t, n) EXCEPT !.bof = b])
<1> DEFINE s == At(t, n)
<1>1. t \in Tbl /\ n - 1 \in Nat /\ n \in Int /\ n = (n - 1) + 1
  BY DEF Ready, Base
<1> DEFINE c == n - 1
<1>2. s = PlacedAt(t, c, n)
  BY DEF At, PlacedAt
<1> HIDE DEF s, c
<1>3. c \in Nat /\ c = n - 1
  BY <1>1 DEF c
<1>4. s \in Tbl /\ Moved(t, s) /\ s.crec = n - 1 /\ s.offset = n
  BY <1>1, <1>2, <1>3, Placed DEF Moved
<1>5. s.bof \in BOOLEAN /\ s.eof \in BOOLEAN
  BY <1>4, TblFields
<1>6. \A x, y \in BOOLEAN : Edited(t, [s EXCEPT !.bof = x, !.eof = y])
  <2>1. SUFFICES ASSUME NEW x \in BOOLEAN, NEW y \in BOOLEAN
                 PROVE  Edited(t, [s EXCEPT !.bof = x, !.eof = y])
    OBVIOUS
  <2> DEFINE u == [s EXCEPT !.bof = x, !.eof = y]
  <2>2. Moved(s, u) /\ u.crec = s.crec /\ u.offset = s.offset
    BY <1>4, Flags
  <2> HIDE DEF u
  <2>3. Moved(t, u) /\ Cursor(u)
    BY <1>1, <1>4, <2>2, MovedTwice DEF Cursor
  <2>4. Edited(t, u)
    BY <2>3, MovedEdited
  <2> QED BY <2>4 DEF u
<1>7. /\ [s EXCEPT !.eof = e] = [s EXCEPT !.bof = s.bof, !.eof = e]
      /\ [s EXCEPT !.bof = b] = [s EXCEPT !.bof = b, !.eof = s.eof]
  BY <1>4 DEF Tbl
<1>8. Edited(t, [s EXCEPT !.bof = b, !.eof = e])
  BY <1>6
<1>9. Edited(t, [s EXCEPT !.eof = e])
  BY <1>5, <1>6, <1>7
<1>10. Edited(t, [s EXCEPT !.bof = b])
  BY <1>5, <1>6, <1>7
<1> QED BY <1>8, <1>9, <1>10 DEF s

LEMMA FlagsEdited ==
  ASSUME NEW t, Ready(t), NEW b \in BOOLEAN
  PROVE  Edited(t, t) /\ Edited(t, [t EXCEPT !.bof = b]) /\ Edited(t, [t EXCEPT !.eof = b])
<1>1. t \in Tbl
  BY DEF Ready, Base
<1>2. t.bof \in BOOLEAN /\ t.eof \in BOOLEAN
  BY <1>1, TblFields
<1>3. /\ [t EXCEPT !.eof = b] = [t EXCEPT !.bof = t.bof, !.eof = b]
      /\ [t EXCEPT !.bof = b] = [t EXCEPT !.bof = b, !.eof = t.eof]
  BY <1>1 DEF Tbl
<1>4. \A x, y \in BOOLEAN : Edited(t, [t EXCEPT !.bof = x, !.eof = y])
  <2>1. SUFFICES ASSUME NEW x \in BOOLEAN, NEW y \in BOOLEAN
                 PROVE  Edited(t, [t EXCEPT !.bof = x, !.eof = y])
    OBVIOUS
  <2> DEFINE u == [t EXCEPT !.bof = x, !.eof = y]
  <2>2. Moved(t, u) /\ u.crec = t.crec /\ u.offset = t.offset
    BY <1>1, Flags
  <2> HIDE DEF u
  <2>3. Cursor(t) => Cursor(u)
    BY <2>2 DEF Cursor, Moved
  <2>4. Edited(t, u)
    BY <2>2, <2>3, MovedEdited
  <2> QED BY <2>4 DEF u
<1>5. Edited(t, t)
  <2>1. Moved(t, t)
    BY <1>1 DEF Moved
  <2> QED BY <2>1, MovedEdited
<1>6. Edited(t, [t EXCEPT !.eof = b])
  BY <1>2, <1>3, <1>4
<1>7. Edited(t, [t EXCEPT !.bof = b])
  BY <1>2, <1>3, <1>4
<1> QED BY <1>5, <1>6, <1>7

(* One record forwards or back.                                            *)
LEMMA ByMakes ==
  ASSUME NEW t, Ready(t), NEW d \in {-1, 1}, t.crec + d \in Nat, t.crec < t.numRecords
  PROVE  Edited(t, By(t, d))
<1> DEFINE c == t.crec + d
           o == t.offset + d
           s == [t EXCEPT !.crec = c, !.offset = o]
           u == [s EXCEPT !.bof = FALSE, !.eof = FALSE]
<1>1. t \in Tbl /\ c \in Nat /\ o \in Int /\ t.crec \in Nat /\ t.offset \in Int
      /\ t.numRecords \in Nat
  BY TblFields DEF Ready, Base
<1>2. By(t, d) = u
  BY <1>1 DEF By, Tbl
<1> HIDE DEF c, o
<1>3. s = PlacedAt(t, c, o)
  BY DEF PlacedAt
<1> HIDE DEF s
<1>4. Moved(t, s) /\ s.crec = c /\ s.offset = o
  BY <1>1, <1>3, Placed
<1>5. Moved(s, u) /\ u.crec = c /\ u.offset = o
  BY <1>4, Flags DEF Moved
<1> HIDE DEF u
<1>6. Cursor(t) => Cursor(u)
  <2>1. ASSUME Cursor(t) PROVE t.offset = t.crec + 1
    BY <1>1, <2>1 DEF Cursor
  <2>2. t.offset = t.crec + 1 => o = c + 1
    BY <1>1 DEF o, c
  <2> QED BY <1>5, <2>1, <2>2 DEF Cursor
<1>7. Edited(t, u)
  BY <1>4, <1>5, <1>6, MovedTwice, MovedEdited
<1> QED BY <1>2, <1>7

LEMMA EditsMake ==
  ASSUME NEW t, Ready(t)
  PROVE  /\ Edited(t, DeleteRecord(t)) /\ Edited(t, UndeleteRecord(t))
         /\ Edited(t, RetrieveRecord(t)) /\ Edited(t, IsRecordDeleted(t))
<1>1. t \in Tbl
  BY DEF Ready, Base
<1>2. Edited(t, Unread(t))
  BY UnreadMakes DEF Edited
<1>3. Edited(t, [Unread(t) EXCEPT !.ok = TRUE])
  <2> DEFINE s == Unread(t)
             u == [s EXCEPT !.ok = TRUE]
  <2>1. s \in Tbl
    BY <1>2 DEF Edited, Called, Base
  <2> HIDE DEF s
  <2>2. u \in Tbl
    BY <2>1, FieldChanges
  <2>3. /\ u.file = s.file /\ u.numRecords = s.numRecords /\ u.header = s.header
        /\ u.index = s.index /\ u.unique = s.unique /\ u.idxError = s.idxError
        /\ u.dbError = s.dbError /\ u.crec = s.crec /\ u.offset = s.offset
    BY <2>1 DEF Tbl
  <2> HIDE DEF u
  <2>4. Edited(t, s)
    BY <1>2 DEF s
  <2>5. Called(t, u)
    BY <2>2, <2>3, <2>4 DEF Edited, Called, Base, Cursor, Reported
  <2>6. Kept(t, u)
    BY <2>3, <2>4 DEF Edited, Kept, HeaderNear, Intact, Values
  <2>7. Edited(t, u)
    BY <2>5, <2>6 DEF Edited
  <2> QED BY <2>7 DEF u, s
<1>4. \A b \in BOOLEAN : Edited(t, [t EXCEPT !.marked = b])
  <2>1. SUFFICES ASSUME NEW b \in BOOLEAN PROVE Edited(t, [t EXCEPT !.marked = b])
    OBVIOUS
  <2> DEFINE u == [t EXCEPT !.marked = b]
  <2>2. u \in Tbl
    BY <1>1, FieldChanges
  <2>3. Moved(t, u) /\ u.crec = t.crec /\ u.offset = t.offset
    BY <1>1, <2>2 DEF Moved, Tbl
  <2> HIDE DEF u
  <2>4. Cursor(t) => Cursor(u)
    BY <2>3 DEF Cursor, Moved
  <2>5. Edited(t, u)
    BY <2>3, <2>4, MovedEdited
  <2> QED BY <2>5 DEF u
<1>5. Readable(t) => t.file[t.offset].deleted \in BOOLEAN
  <2>1. ASSUME Readable(t) PROVE t.file[t.offset] \in Record
    BY <1>1, <2>1, TblFields, LenProperties, ElementOfSeq DEF Readable
  <2>2. \A r \in Record : r.deleted \in BOOLEAN
    BY DEF Record
  <2> QED BY <2>1, <2>2
<1>6. Edited(t, DeleteRecord(t))
  BY <1>3, MarkMakes DEF DeleteRecord
<1>7. Edited(t, UndeleteRecord(t))
  BY <1>2, MarkMakes DEF UndeleteRecord
<1>8. Edited(t, RetrieveRecord(t))
  BY <1>2, <1>4 DEF RetrieveRecord
<1>9. Edited(t, IsRecordDeleted(t))
  BY <1>2, <1>4, <1>5 DEF IsRecordDeleted
<1> QED BY <1>6, <1>7, <1>8, <1>9

LEMMA MovesMake ==
  ASSUME NEW t, Ready(t)
  PROVE  /\ Edited(t, NextRecord(t)) /\ Edited(t, PrevRecord(t))
         /\ Edited(t, HeadRecord(t)) /\ Edited(t, TailRecord(t))
<1>1. t \in Tbl /\ t.numRecords \in Nat /\ t.crec \in Nat
  BY TblFields DEF Ready, Base
<1>2. Edited(t, t) /\ Edited(t, [t EXCEPT !.bof = TRUE]) /\ Edited(t, [t EXCEPT !.eof = TRUE])
  BY FlagsEdited
<1>3. \A n \in Nat \ {0}, b, e \in BOOLEAN :
        /\ Edited(t, [At(t, n) EXCEPT !.bof = b, !.eof = e])
        /\ Edited(t, [At(t, n) EXCEPT !.eof = e])
        /\ Edited(t, [At(t, n) EXCEPT !.bof = b])
  BY AtMakes
<1>4. t.numRecords # 0 => t.numRecords \in Nat \ {0}
  BY <1>1
<1>5. 1 \in Nat \ {0}
  OBVIOUS
<1>6. Edited(t, NextRecord(t))
  <2>1. ~(t.crec + 1 >= t.numRecords) => Edited(t, By(t, 1))
    <3>1. ASSUME ~(t.crec + 1 >= t.numRecords) PROVE Edited(t, By(t, 1))
      <4>1. t.crec < t.numRecords /\ t.crec + 1 \in Nat /\ 1 \in {-1, 1}
        BY <1>1, <3>1
      <4> QED BY <4>1, ByMakes
    <3> QED BY <3>1
  <2> QED BY <1>2, <1>3, <1>4, <2>1 DEF NextRecord
<1>7. Edited(t, PrevRecord(t))
  <2>1. t.crec # 0 /\ ~(t.crec >= t.numRecords) => Edited(t, By(t, -1))
    <3>1. ASSUME t.crec # 0 /\ ~(t.crec >= t.numRecords) PROVE Edited(t, By(t, -1))
      <4>1. t.crec < t.numRecords /\ t.crec + (-1) \in Nat /\ -1 \in {-1, 1}
        BY <1>1, <3>1
      <4> QED BY <4>1, ByMakes
    <3> QED BY <3>1
  <2> QED BY <1>2, <1>3, <1>4, <1>5, <2>1 DEF PrevRecord
<1>8. Edited(t, HeadRecord(t))
  BY <1>2, <1>3, <1>5 DEF HeadRecord
<1>9. Edited(t, TailRecord(t))
  BY <1>2, <1>3, <1>4 DEF TailRecord
<1> QED BY <1>6, <1>7, <1>8, <1>9

LEMMA GotoRecordMakes ==
  ASSUME NEW t, Ready(t), NEW n \in Int
  PROVE  Edited(t, GotoRecord(t, n))
<1> DEFINE x == IF n <= t.numRecords THEN n ELSE t.numRecords
           y == IF x >= 1 THEN x ELSE 1
<1>1. t \in Tbl /\ t.numRecords \in Nat
  BY TblFields DEF Ready, Base
<1>2. x \in Int /\ y \in Nat \ {0}
  BY <1>1
<1>3. Min({n, t.numRecords}) = x
  BY <1>1 DEF Min
<1>4. Max({1, x}) = y
  <2> HIDE DEF x
  <2> QED BY <1>2 DEF Max
<1>5. GotoRecord(t, n) =
        IF t.numRecords = 0 THEN t
        ELSE [At(t, y) EXCEPT
                !.bof = @ \/ (t.numRecords > 1 /\ n <= 0),
                !.eof = @ \/ (t.numRecords > 1 /\ n > t.numRecords)]
  <2> HIDE DEF x, y
  <2> QED BY <1>3, <1>4 DEF GotoRecord
<1> HIDE DEF x, y
<1> DEFINE s == At(t, y)
           b == s.bof \/ (t.numRecords > 1 /\ n <= 0)
           e == s.eof \/ (t.numRecords > 1 /\ n > t.numRecords)
<1>6. b \in BOOLEAN /\ e \in BOOLEAN
  OBVIOUS
<1>7. GotoRecord(t, n) = IF t.numRecords = 0 THEN t ELSE [s EXCEPT !.bof = b, !.eof = e]
  BY <1>5
<1> HIDE DEF b, e
<1>8. Edited(t, [s EXCEPT !.bof = b, !.eof = e])
  BY <1>2, <1>6, AtMakes
<1>9. Edited(t, t)
  BY FlagsEdited
<1> HIDE DEF s
<1> QED BY <1>7, <1>8, <1>9

-----------------------------------------------------------------------------
(* Opening, closing, reindexing and packing a table.                       *)
(* u is t with new variables of the program, and h in the header.          *)
Renewed(t, h, u) ==
  /\ Base(u) /\ u.header = h /\ u.numRecords = h /\ u.crec = 0 /\ u.offset = 1
  /\ u.ok /\ u.dbError = "DB_NOERROR" /\ u.idxError = t.idxError
  /\ u.file = t.file /\ u.index = t.index

Relocked(t, b) == [t EXCEPT !.locked = b]
Renoted(t, e)  == [t EXCEPT !.idxError = e]

LEMMA FreshMakes ==
  ASSUME NEW t, Base(t)
  PROVE  Renewed(t, t.header, Fresh(t))
<1> DEFINE u == Fresh(t)
           y == [[[[t EXCEPT !.numRecords = t.header] EXCEPT !.crec = 0] EXCEPT !.offset = 1]
                   EXCEPT !.marked = FALSE]
           z == [[[[[y EXCEPT !.bof = FALSE] EXCEPT !.eof = FALSE]
                   EXCEPT !.dbError = "DB_NOERROR"] EXCEPT !.ok = TRUE] EXCEPT !.rejected = <<>>]
<1>1. t \in Tbl /\ t.header \in Nat /\ t.header <= Len(t.file)
  BY TblFields DEF Base
<1>2. u = z
  BY <1>1 DEF Fresh, Tbl
<1>3. y \in Tbl
  <2> DEFINE first == 1
             a == [t EXCEPT !.numRecords = t.header]
             b == [a EXCEPT !.crec = 0]
             c == [b EXCEPT !.offset = first]
  <2>0. first \in Int
    OBVIOUS
  <2> HIDE DEF first
  <2>1. a \in Tbl
    BY <1>1, FieldChanges
  <2> HIDE DEF a
  <2>2. b \in Tbl
    BY <2>1, FieldChanges
  <2> HIDE DEF b
  <2>3. c \in Tbl
    BY <2>0, <2>2, FieldChanges
  <2> HIDE DEF c
  <2>4. [c EXCEPT !.marked = FALSE] \in Tbl
    BY <2>3, FieldChanges
  <2> QED BY <2>4 DEF a, b, c, first
<1>4. "DB_NOERROR" \in DbErrors /\ <<>> \in Seq(Vals) /\ FALSE \in BOOLEAN /\ TRUE \in BOOLEAN
  BY EmptySeq DEF DbErrors
<1>5. z \in Tbl
  <2> HIDE DEF y
  <2> QED BY <1>3, <1>4, FieldChanges
<1>6. /\ u.header = t.header /\ u.numRecords = t.header /\ u.crec = 0 /\ u.offset = 1
      /\ u.ok /\ u.dbError = "DB_NOERROR" /\ u.idxError = t.idxError
      /\ u.file = t.file /\ u.index = t.index /\ u.unique = t.unique
  BY <1>1 DEF Fresh, Tbl
<1> HIDE DEF z
<1>7. u \in Tbl
  BY <1>2, <1>5
<1> HIDE DEF u
<1>8. Base(u)
  BY <1>1, <1>6, <1>7 DEF Base
<1>9. Renewed(t, t.header, u)
  BY <1>6, <1>8 DEF Renewed
<1> QED BY <1>9 DEF u

LEMMA RelockedMakes ==
  ASSUME NEW t, Base(t), NEW b \in BOOLEAN
  PROVE  LET u == Relocked(t, b)
         IN /\ Base(u) /\ u.header = t.header /\ u.numRecords = t.numRecords /\ u.crec = t.crec
            /\ u.offset = t.offset /\ u.ok = t.ok /\ u.dbError = t.dbError
            /\ u.idxError = t.idxError /\ u.file = t.file /\ u.index = t.index
<1>1. t \in Tbl
  BY DEF Base
<1>2. Relocked(t, b) \in Tbl
  BY <1>1, FieldChanges DEF Relocked
<1>3. LET u == Relocked(t, b)
      IN /\ u.header = t.header /\ u.numRecords = t.numRecords /\ u.crec = t.crec
         /\ u.offset = t.offset /\ u.ok = t.ok /\ u.dbError = t.dbError
         /\ u.idxError = t.idxError /\ u.file = t.file /\ u.index = t.index
         /\ u.unique = t.unique
  BY <1>1 DEF Relocked, Tbl
<1> QED BY <1>2, <1>3 DEF Base

LEMMA RenotedMakes ==
  ASSUME NEW t, Base(t), NEW e \in IdxErrors
  PROVE  LET u == Renoted(t, e)
         IN /\ Base(u) /\ u.header = t.header /\ u.numRecords = t.numRecords /\ u.crec = t.crec
            /\ u.offset = t.offset /\ u.ok = t.ok /\ u.dbError = t.dbError
            /\ u.idxError = e /\ u.file = t.file /\ u.index = t.index
<1>1. t \in Tbl
  BY DEF Base
<1>2. Renoted(t, e) \in Tbl
  BY <1>1, FieldChanges DEF Renoted
<1>3. LET u == Renoted(t, e)
      IN /\ u.header = t.header /\ u.numRecords = t.numRecords /\ u.crec = t.crec
         /\ u.offset = t.offset /\ u.ok = t.ok /\ u.dbError = t.dbError
         /\ u.idxError = e /\ u.file = t.file /\ u.index = t.index
         /\ u.unique = t.unique
  BY <1>1 DEF Renoted, Tbl
<1> QED BY <1>2, <1>3 DEF Base

LEMMA CloseMakes ==
  ASSUME NEW t, Base(t)
  PROVE  Renewed(t, t.numRecords, CloseTable(t))
<1> DEFINE s == StoreTableHeader(t)
           w == Fresh(s)
           u == Relocked(w, FALSE)
<1>1. CloseTable(t) = u
  BY DEF CloseTable, Relocked
<1>2. Base(s) /\ s.header = t.numRecords /\ s.file = t.file /\ s.index = t.index
      /\ s.idxError = t.idxError
  BY StoreMakes
<1> HIDE DEF s
<1>3. Renewed(s, t.numRecords, w)
  BY <1>2, FreshMakes
<1> HIDE DEF w
<1>4. /\ Base(u) /\ u.header = w.header /\ u.numRecords = w.numRecords /\ u.crec = w.crec
      /\ u.offset = w.offset /\ u.ok = w.ok /\ u.dbError = w.dbError
      /\ u.idxError = w.idxError /\ u.file = w.file /\ u.index = w.index
  BY <1>3, RelockedMakes DEF Renewed
<1> HIDE DEF u
<1> QED BY <1>1, <1>2, <1>3, <1>4 DEF Renewed

(* The indexes are new and empty.                                          *)
LEMMA EmptyIndexes ==
  /\ [i \in DOMAIN Indexes |-> EmptyBag] \in [DOMAIN Indexes -> Bag]
  /\ \A W : DOMAIN W = {} => Listing([i \in DOMAIN Indexes |-> EmptyBag], W) /\ UniqueRows(W)
<1>1. EmptyBag = SetToBag({})
  BY DEF EmptyBag
<1>2. {} \in SUBSET KeyPair
  OBVIOUS
<1>3. SetToBag({}) \in [{} -> Nat \ {0}]
  BY DEF SetToBag
<1>4. EmptyBag \in Bag
  BY <1>1, <1>2, <1>3 DEF Bag
<1>5. ASSUME NEW W, DOMAIN W = {}
      PROVE  Listing([i \in DOMAIN Indexes |-> EmptyBag], W) /\ UniqueRows(W)
  <2>1. \A i : Rows(i, W) = {}
    BY <1>5 DEF Rows
  <2> QED BY <1>1, <1>5, <2>1, IndexFacts DEF Listing, UniqueRows
<1> QED BY <1>4, <1>5

(* What reindexTable takes for the records.                                *)
LastSeen(t) == IF t.header >= 1 THEN t.header ELSE 1
Seen(t) == [n \in 1..LastSeen(t) |-> ValuesAt(t, n)]

LEMMA SeenFacts ==
  ASSUME NEW t, Base(t)
  PROVE  /\ LastSeen(t) \in Nat /\ LastSeen(t) >= 1 /\ Max({1, t.header}) = LastSeen(t)
         /\ \A n \in 1..LastSeen(t) : ValuesAt(t, n) \in Vals
<1>1. t \in Tbl /\ t.header \in Nat
  BY TblFields DEF Base
<1>2. LastSeen(t) \in Nat /\ LastSeen(t) >= 1
  BY <1>1 DEF LastSeen
<1>3. Max({1, t.header}) = LastSeen(t)
  BY <1>1 DEF Max, LastSeen
<1>4. ASSUME NEW n \in 1..LastSeen(t) PROVE ValuesAt(t, n) \in Vals
  <2>1. Blank \in Vals
    BY DEF Blank, Vals
  <2>2. n \in DOMAIN t.file => t.file[n] \in Record
    BY <1>1, TblFields, LenProperties, ElementOfSeq
  <2>3. \A r \in Record : r.vals \in Vals
    BY DEF Record
  <2> QED BY <2>1, <2>2, <2>3 DEF ValuesAt
<1> QED BY <1>2, <1>3, <1>4

LEMMA NewIndexesMakes ==
  ASSUME NEW t, Base(t)
  PROVE  LET u == NewIndexes(t)
         IN /\ Base(u) /\ u.ok /\ u.dbError = "DB_NOERROR" /\ u.idxError = t.idxError
            /\ u.file = t.file /\ u.header = t.header /\ u.numRecords = t.header
            /\ u.index = [i \in DOMAIN Indexes |-> EmptyBag]
<1> DEFINE s == Fresh(t)
           x == [i \in DOMAIN Indexes |-> EmptyBag]
           y == [i \in DOMAIN Indexes |->
                  IF i \in MultiIndexes THEN Indexes[i].isCase ELSE Indexes[i].isUnique]
           u == [s EXCEPT !.locked = TRUE, !.index = x, !.unique = y]
<1>1. Renewed(t, t.header, s)
  BY FreshMakes
<1>2. NewIndexes(t) = u
  BY DEF NewIndexes
<1>3. s \in Tbl
  BY <1>1 DEF Renewed, Base
<1>4. x \in [DOMAIN Indexes -> Bag] /\ y \in [DOMAIN Indexes -> BOOLEAN]
  BY EmptyIndexes, IndexFacts
<1>5. \A i \in FieldIndexes : y[i] = Indexes[i].isUnique
  BY FieldFacts, IndexFacts DEF MultiIndexes
<1> HIDE DEF s, x, y
<1>6. u \in Tbl
  <2>1. u = [[[s EXCEPT !.locked = TRUE] EXCEPT !.index = x] EXCEPT !.unique = y]
    BY <1>3 DEF Tbl
  <2> QED BY <1>3, <1>4, <2>1, FieldChanges
<1>7. /\ u.ok = s.ok /\ u.dbError = s.dbError /\ u.idxError = s.idxError
      /\ u.file = s.file /\ u.header = s.header /\ u.numRecords = s.numRecords
      /\ u.index = x /\ u.unique = y
  BY <1>3 DEF Tbl
<1> HIDE DEF u
<1>8. Base(u)
  BY <1>1, <1>5, <1>6, <1>7 DEF Base, Renewed
<1> QED BY <1>1, <1>2, <1>7, <1>8 DEF Renewed, x

(* t after the records up to n: u.                                         *)
ReindexedTo(t, n, u) ==
  /\ Base(u) /\ u.file = t.file /\ u.header = t.header /\ u.numRecords = t.header
  /\ u.ok => /\ u.dbError = "DB_NOERROR" /\ u.idxError = t.idxError
             /\ Listing(u.index, [m \in 1..n |-> ValuesAt(t, m)])
             /\ UniqueRows([m \in 1..n |-> ValuesAt(t, m)])
  /\ ~u.ok => /\ u.dbError \in {"DB_UNIQUE", "DB_INDEX"}
              /\ u.dbError = "DB_UNIQUE" =>
                   t.idxError # "IDX_NOERR" \/ ~UniqueRows(Seen(t))

LEMMA ReindexRecordMakes ==
  ASSUME NEW t, Base(t), NEW n \in 1..LastSeen(t), NEW u, ReindexedTo(t, n - 1, u)
  PROVE  ReindexedTo(t, n, ReindexRecord(t, u, n))
<1> DEFINE v == ValuesAt(t, n)
           c == n - 1
           W == [m \in 1..c |-> ValuesAt(t, m)]
           w == PutKeys(u, v, n)
<1>1. /\ v \in Vals /\ n \in Nat /\ c \in Nat /\ c + 1 = n /\ LastSeen(t) \in Nat
      /\ W \in [1..c -> Vals] /\ u \in Tbl
  <2>1. LastSeen(t) \in Nat /\ \A m \in 1..LastSeen(t) : ValuesAt(t, m) \in Vals
    BY SeenFacts
  <2>2. \A m \in 1..c : m \in 1..LastSeen(t)
    BY <2>1
  <2> QED BY <2>1, <2>2 DEF ReindexedTo, Base
<1>2. ReindexRecord(t, u, n) = IF u.ok THEN w ELSE u
  BY DEF ReindexRecord
<1>3. CASE ~u.ok
  BY <1>2, <1>3 DEF ReindexedTo
<1>4. CASE u.ok
  <2>1. PutUpTo(u, v, n, N, w)
    BY <1>1, <1>4, PutKeysMakes
  <2> HIDE DEF w, v
  <2>2. Base(w) /\ w.file = t.file /\ w.header = t.header /\ w.numRecords = t.header
    <3>1. Base(u) /\ Same(u, w) /\ w \in Tbl
      BY <2>1 DEF ReindexedTo, PutUpTo
    <3> QED BY <3>1, SameBase DEF ReindexedTo, Same
  <2>3. u.idxError = t.idxError /\ u.dbError = "DB_NOERROR" /\ Listing(u.index, W)
        /\ UniqueRows(W)
    BY <1>4 DEF ReindexedTo
  <2>4. \A i \in FieldIndexes : u.unique[i] = Indexes[i].isUnique
    BY DEF ReindexedTo, Base
  <2>5. Grown(W, c, v) = [m \in 1..n |-> ValuesAt(t, m)]
    <3>1. \A m \in 1..n : (IF m <= c THEN W[m] ELSE v) = ValuesAt(t, m)
      BY <1>1 DEF v
    <3> HIDE DEF c, W
    <3> QED BY <1>1, <3>1 DEF Grown
  <2> HIDE DEF W, c
  <2>6. CASE w.ok
    <3>1. \A i \in 1..N : i <= N
      BY IndexFacts
    <3>2. \A i \in 1..N : w.index[i] = BagAdd(u.index[i], Pair(i, v, c + 1))
      BY <1>1, <2>1, <2>6, <3>1 DEF PutUpTo
    <3>3. \A i \in 1..N : u.unique[i] => ~Holds(u, i, v)
      BY <2>1, <2>6, <3>1 DEF PutUpTo
    <3>4. Listing(w.index, Grown(W, c, v)) /\ UniqueRows(Grown(W, c, v))
      BY <1>1, <2>3, <2>4, <3>2, <3>3, ListingGrows
    <3>5. w.idxError = t.idxError /\ w.dbError = "DB_NOERROR"
      BY <2>1, <2>3, <2>6 DEF PutUpTo
    <3>6. ReindexedTo(t, n, w)
      BY <2>2, <2>5, <2>6, <3>4, <3>5 DEF ReindexedTo
    <3> QED BY <1>2, <1>4, <3>6
  <2>7. CASE ~w.ok
    <3>1. ASSUME Clash(u, v) PROVE ~UniqueRows(Seen(t))
      <4>1. PICK i \in FieldIndexes : u.unique[i] /\ Holds(u, i, v)
        BY <3>1 DEF Clash
      <4>2. i \in 1..N /\ Indexes[i].isUnique
        BY <2>4, <4>1, FieldFacts
      <4>3. u.index[i] = SetToBag(Rows(i, W))
        BY <2>3, <4>2 DEF Listing
      <4>4. PICK m \in 1..c : KeyOf(i, W[m]) = KeyOf(i, v)
        BY <1>1, <4>1, <4>2, <4>3, ListedKeys
      <4>5. m \in 1..LastSeen(t) /\ n \in 1..LastSeen(t) /\ m # n
        BY <1>1
      <4>6. W[m] = ValuesAt(t, m)
        BY DEF W
      <4>7. Seen(t)[m] = W[m] /\ Seen(t)[n] = v /\ DOMAIN Seen(t) = 1..LastSeen(t)
        BY <4>5, <4>6 DEF Seen, v
      <4> QED BY <4>1, <4>2, <4>4, <4>5, <4>7 DEF UniqueRows
    <3>2. w.dbError \in {"DB_UNIQUE", "DB_INDEX"}
          /\ (w.dbError = "DB_UNIQUE" => Clash(u, v) \/ u.idxError # "IDX_NOERR")
      BY <2>1, <2>7 DEF PutUpTo
    <3>3. ReindexedTo(t, n, w)
      BY <2>2, <2>3, <2>7, <3>1, <3>2 DEF ReindexedTo
    <3> QED BY <1>2, <1>4, <3>3
  <2> QED BY <2>6, <2>7
<1> QED BY <1>3, <1>4

LEMMA PutKeysType ==
  ASSUME NEW t \in Tbl, NEW v \in Vals, NEW n \in Nat
  PROVE  PutKeys(t, v, n) \in Tbl
<1>1. PICK f \in [0..N -> Tbl] : f[N] = PutKeys(t, v, n)
  BY PutKeysRun
<1>2. N \in 0..N
  BY IndexFacts
<1> QED BY <1>1, <1>2

Reindexed(t, u) ==
  /\ Base(u) /\ u.file = t.file /\ u.header = t.header
  /\ u.ok => /\ u.numRecords = t.header /\ u.dbError = "DB_NOERROR"
             /\ u.idxError = t.idxError
             /\ Listing(u.index, Seen(t)) /\ UniqueRows(Seen(t))
  /\ ~u.ok => /\ u.dbError \in {"DB_UNIQUE", "DB_INDEX"}
              /\ u.dbError = "DB_UNIQUE" =>
                   t.idxError # "IDX_NOERR" \/ ~UniqueRows(Seen(t))

LEMMA ReindexTableMakes ==
  ASSUME NEW t, Base(t)
  PROVE  Reindexed(t, ReindexTable(t))
<1> DEFINE K == LastSeen(t)
           s == NewIndexes(t)
           q == [n \in 1..Max({1, t.header}) |-> n]
           Op(u, n) == ReindexRecord(t, u, n)
           G == [i \in 1..K |-> [u \in Tbl |-> Op(u, i)]]
           Eq(h) == h = [r \in SUBSET DOMAIN q |->
                          IF r = {} THEN s ELSE Op(h[r \ {Max(r)}], q[Max(r)])]
           c == CHOOSE g : Eq(g)
           a == c[DOMAIN q]
<1>1. ReindexTable(t) = IF a.ok THEN CloseTable(a) ELSE a
  BY DEF ReindexTable, FoldLeft, MapThenFoldSet
<1>2. DOMAIN q = 1..K /\ K \in Nat /\ \A i \in 1..K : q[i] = i
  BY SeenFacts
<1>3. \A n \in 1..K : ValuesAt(t, n) \in Vals
  BY SeenFacts
<1>4. s \in Tbl /\ ReindexedTo(t, 0, s)
  <2>1. /\ Base(s) /\ s.ok /\ s.dbError = "DB_NOERROR" /\ s.idxError = t.idxError
        /\ s.file = t.file /\ s.header = t.header /\ s.numRecords = t.header
        /\ s.index = [i \in DOMAIN Indexes |-> EmptyBag]
    BY NewIndexesMakes
  <2> HIDE DEF s
  <2>2. DOMAIN [m \in 1..0 |-> ValuesAt(t, m)] = {}
    OBVIOUS
  <2> QED BY <2>1, <2>2, EmptyIndexes DEF ReindexedTo, Base
<1>5. \A u \in Tbl, i \in 1..K : Op(u, i) \in Tbl
  BY <1>2, <1>3, PutKeysType DEF ReindexRecord
<1> HIDE DEF Op, K, s, q
<1>6. G \in [1..K -> [Tbl -> Tbl]]
  BY <1>2, <1>5
<1>7. \A i \in 1..K, u \in Tbl : G[i][u] = Op(u, i)
  OBVIOUS
<1> HIDE DEF G
<1>8. \A r \in SUBSET (1..K) : r # {} => Max(r) \in 1..K
  BY <1>2, MaxExists
<1>9. PICK h \in [SUBSET (1..K) -> Tbl] : Folds(h, s, K, G)
  BY <1>2, <1>4, <1>6, FoldExists
<1>10. Eq(h)
  <2>1. ASSUME NEW r \in SUBSET (1..K)
        PROVE  h[r] = IF r = {} THEN s ELSE Op(h[r \ {Max(r)}], q[Max(r)])
    <3>1. r # {} => Max(r) \in 1..K /\ h[r \ {Max(r)}] \in Tbl
      BY <1>8
    <3>2. h[r] = IF r = {} THEN s ELSE G[Max(r)][h[r \ {Max(r)}]]
      BY <1>9 DEF Folds
    <3> QED BY <1>2, <1>7, <3>1, <3>2
  <2> QED BY <1>2, <2>1
<1>11. Eq(c)
  <2> HIDE DEF Eq
  <2> QED BY <1>10
<1>12. \A r \in SUBSET (1..K) :
         c[r] = IF r = {} THEN s ELSE Op(c[r \ {Max(r)}], q[Max(r)])
  BY <1>2, <1>11
<1> HIDE DEF c, Eq
<1>13. FoldsIn(c, Tbl, s, K, G)
  <2>1. ASSUME NEW r \in SUBSET (1..K), r # {}, c[r \ {Max(r)}] \in Tbl
        PROVE  c[r] = G[Max(r)][c[r \ {Max(r)}]]
    <3>1. Max(r) \in 1..K /\ q[Max(r)] = Max(r)
      BY <1>2, <1>8, <2>1
    <3>2. c[r] = Op(c[r \ {Max(r)}], Max(r))
      BY <1>12, <2>1, <3>1
    <3> QED BY <1>7, <2>1, <3>1, <3>2
  <2>2. c[{}] = s
    BY <1>12
  <2> QED BY <2>1, <2>2 DEF FoldsIn
<1>14. PICK f : Runs(f, Tbl, s, K, G) /\ f[K] = c[1..K]
  BY <1>2, <1>4, <1>6, <1>13, FoldRuns
<1> DEFINE T == {n \in Nat : n <= K => ReindexedTo(t, n, f[n])}
<1>15. 0 \in T
  BY <1>4, <1>14 DEF Runs
<1>16. ASSUME NEW k \in Nat, k \in T PROVE k + 1 \in T
  <2>1. SUFFICES ASSUME k + 1 <= K PROVE ReindexedTo(t, k + 1, f[k + 1])
    OBVIOUS
  <2> DEFINE n == k + 1
  <2>2. n \in 1..K /\ n - 1 = k /\ k \in 0..K /\ k <= K
    BY <1>2, <2>1
  <2>3. ReindexedTo(t, n - 1, f[k]) /\ f[k] \in Tbl
    BY <1>14, <1>16, <2>2 DEF Runs
  <2> HIDE DEF n, T
  <2>4. f[n] = ReindexRecord(t, f[k], n)
    BY <1>7, <1>14, <2>2, <2>3 DEF Runs, Op
  <2>5. ReindexedTo(t, n, f[n])
    BY <2>2, <2>3, <2>4, ReindexRecordMakes DEF K
  <2> QED BY <2>5 DEF n
<1> HIDE DEF T
<1>17. ReindexedTo(t, K, a)
  <2>1. K \in T
    BY <1>2, <1>15, <1>16, NumberInduction
  <2> QED BY <1>2, <1>14, <2>1 DEF T
<1> HIDE DEF a
<1>18. [m \in 1..K |-> ValuesAt(t, m)] = Seen(t)
  BY DEF Seen, K
<1>19. CASE ~a.ok
  <2>1. Reindexed(t, a)
    BY <1>17, <1>19 DEF ReindexedTo, Reindexed
  <2> QED BY <1>1, <1>19, <2>1
<1>20. CASE a.ok
  <2> DEFINE w == CloseTable(a)
  <2>1. Base(a) /\ a.numRecords = t.header
    BY <1>17 DEF ReindexedTo
  <2>2. Renewed(a, t.header, w)
    BY <2>1, CloseMakes
  <2> HIDE DEF w
  <2>3. Reindexed(t, w)
    BY <1>17, <1>18, <1>20, <2>2 DEF ReindexedTo, Reindexed, Renewed
  <2> QED BY <1>1, <1>20, <2>3 DEF w
<1> QED BY <1>19, <1>20

-----------------------------------------------------------------------------
(* u after some of the records have been packed.                           *)
Packed(u) ==
  /\ Base(u)
  /\ u.ok => Ready(u) /\ Intact(u, u.numRecords)
  /\ ~u.ok => u.dbError = "DB_INDEX"

LEMMA PackOneMakes ==
  ASSUME NEW t, Packed(t), t.ok, NEW v \in Vals
  PROVE  Packed(PackOne(t, v))
<1> DEFINE s == [t EXCEPT !.marked = FALSE]
           a == AddRecord(s, v)
           w == [a EXCEPT !.ok = TRUE, !.dbError = "DB_NOERROR"]
<1>1. PackOne(t, v) = IF ~a.ok /\ a.dbError = "DB_UNIQUE" THEN w ELSE a
  BY DEF PackOne
<1>2. Ready(s) /\ Intact(s, s.numRecords)
  <2>1. Base(t)
    BY DEF Packed
  <2>2. /\ Base(s) /\ s.file = t.file /\ s.index = t.index /\ s.numRecords = t.numRecords
        /\ s.ok = t.ok /\ s.dbError = t.dbError /\ s.idxError = t.idxError
    BY <2>1, Unmarked
  <2> HIDE DEF s
  <2> QED BY <2>2 DEF Packed, Ready, Intact, Values
<1> HIDE DEF s
<1>3. Added(s, v, a)
  BY <1>2, AddRecordMakes
<1> HIDE DEF a
<1>4. Base(a)
  BY <1>3 DEF Added, Called
<1>5. CASE a.ok
  <2>1. Packed(a)
    BY <1>2, <1>3, <1>4, <1>5 DEF Added, Kept, Packed
  <2> QED BY <1>1, <1>5, <2>1
<1>6. CASE ~a.ok /\ a.dbError # "DB_UNIQUE"
  <2>1. Packed(a)
    BY <1>3, <1>4, <1>6 DEF Added, Packed
  <2> QED BY <1>1, <1>6, <2>1
<1>7. CASE ~a.ok /\ a.dbError = "DB_UNIQUE"
  <2>1. Same(s, a) /\ a.idxError = s.idxError /\ a.index = s.index /\ a \in Tbl
    BY <1>3, <1>4, <1>7 DEF Added, Base
  <2>2. w = [[a EXCEPT !.ok = TRUE] EXCEPT !.dbError = "DB_NOERROR"]
    BY <2>1 DEF Tbl
  <2>3. w \in Tbl
    <3>1. "DB_NOERROR" \in DbErrors /\ TRUE \in BOOLEAN
      BY DEF DbErrors
    <3> HIDE DEF w
    <3> QED BY <2>1, <2>2, <3>1, FieldChanges
  <2>4. /\ w.file = a.file /\ w.numRecords = a.numRecords /\ w.header = a.header
        /\ w.index = a.index /\ w.unique = a.unique /\ w.idxError = a.idxError
        /\ w.dbError = "DB_NOERROR" /\ w.ok
    BY <2>1 DEF Tbl
  <2> HIDE DEF w
  <2>5. Ready(w)
    BY <1>2, <1>4, <2>1, <2>3, <2>4 DEF Ready, Base
  <2>6. Intact(w, w.numRecords)
    BY <1>2, <2>1, <2>4 DEF Intact, Values, Same
  <2>7. Packed(w)
    BY <2>4, <2>5, <2>6 DEF Packed, Ready
  <2> QED BY <1>1, <1>7, <2>7
<1> QED BY <1>5, <1>6, <1>7

LEMMA UnindexedMakes ==
  ASSUME NEW t, Base(t)
  PROVE  LET u == Unindexed(t)
         IN /\ Base(u) /\ u.file = t.file /\ u.header = t.header /\ u.numRecords = t.numRecords
            /\ u.idxError = t.idxError /\ u.dbError = t.dbError /\ u.ok = t.ok
            /\ u.unique = t.unique /\ u.index = [i \in DOMAIN Indexes |-> EmptyBag]
<1> DEFINE x == [i \in DOMAIN Indexes |-> EmptyBag]
           u == [t EXCEPT !.index = x]
<1>1. t \in Tbl
  BY DEF Base
<1>2. u \in Tbl
  BY <1>1, EmptyIndexes, FieldChanges
<1>3. /\ u.file = t.file /\ u.header = t.header /\ u.numRecords = t.numRecords
      /\ u.idxError = t.idxError /\ u.dbError = t.dbError /\ u.ok = t.ok
      /\ u.unique = t.unique /\ u.index = x
  BY <1>1 DEF Tbl
<1>4. Unindexed(t) = u
  BY DEF Unindexed
<1> HIDE DEF u
<1> QED BY <1>2, <1>3, <1>4 DEF Base

(* The new table has nothing in it.                                        *)
NewlyMade(u) ==
  /\ Packed(u) /\ u.ok /\ u.numRecords = 0 /\ u.file = <<>>
  /\ u.index = [i \in DOMAIN Indexes |-> EmptyBag]
  /\ u.unique = [i \in DOMAIN Indexes |-> Indexes[i].isUnique]

LEMMA NewTableMakes ==
  ASSUME NEW t, Ready(t)
  PROVE  NewlyMade(NewTable(t))
<1> DEFINE s == Unindexed(t)
           y == [i \in DOMAIN Indexes |-> Indexes[i].isUnique]
           a == [[s EXCEPT !.file = <<>>] EXCEPT !.header = 0]
           b == [a EXCEPT !.numRecords = 0]
           u == [[b EXCEPT !.dbError = "DB_NOERROR"] EXCEPT !.unique = y]
<1>1. /\ Base(s) /\ s.idxError = "IDX_NOERR" /\ s.ok /\ s \in Tbl
      /\ s.index = [i \in DOMAIN Indexes |-> EmptyBag]
  BY UnindexedMakes DEF Ready, Base
<1>2. NewTable(t) = [s EXCEPT !.file = <<>>, !.header = 0, !.numRecords = 0,
                              !.dbError = "DB_NOERROR", !.unique = y]
  BY DEF NewTable
<1>3. /\ <<>> \in Seq(Record) /\ "DB_NOERROR" \in DbErrors
      /\ y \in [DOMAIN Indexes -> BOOLEAN] /\ \A i \in FieldIndexes : y[i] = Indexes[i].isUnique
  BY EmptySeq, IndexFacts, FieldFacts DEF DbErrors
<1> HIDE DEF s, y
<1>4. NewTable(t) = u
  BY <1>1, <1>2 DEF Tbl
<1>5. a \in Tbl
  <2>1. [s EXCEPT !.file = <<>>] \in Tbl
    BY <1>1, <1>3, FieldChanges
  <2> QED BY <2>1, FieldChanges
<1>6. /\ a.numRecords \in Nat /\ a.file = <<>> /\ a.header = 0 /\ a.index = s.index
      /\ a.idxError = s.idxError /\ a.ok = s.ok
  BY <1>1, <1>5 DEF Tbl
<1> HIDE DEF a
<1>7. b \in Tbl
  BY <1>5, FieldChanges
<1>8. /\ b.numRecords = 0 /\ b.file = <<>> /\ b.header = 0 /\ b.index = s.index
      /\ b.idxError = s.idxError /\ b.ok = s.ok
  BY <1>5, <1>6 DEF Tbl
<1> HIDE DEF b
<1>9. u \in Tbl
  <2>1. [b EXCEPT !.dbError = "DB_NOERROR"] \in Tbl
    BY <1>3, <1>7, FieldChanges
  <2> QED BY <1>3, <2>1, FieldChanges
<1>10. /\ u.numRecords = 0 /\ u.file = <<>> /\ u.header = 0 /\ u.index = s.index
       /\ u.idxError = s.idxError /\ u.ok = s.ok /\ u.dbError = "DB_NOERROR" /\ u.unique = y
  BY <1>7, <1>8 DEF Tbl
<1> HIDE DEF u
<1>11. Ready(u)
  <2>1. Len(<<>>) = 0
    BY EmptySeq
  <2> QED BY <1>1, <1>3, <1>9, <1>10, <2>1 DEF Ready, Base
<1>12. Intact(u, u.numRecords)
  <2>1. DOMAIN Values(u, 0) = {}
    BY DEF Values
  <2> QED BY <1>1, <1>10, <2>1, EmptyIndexes DEF Intact
<1>13. Packed(u)
  BY <1>11, <1>12 DEF Packed, Ready
<1>14. NewlyMade(u)
  BY <1>1, <1>10, <1>13 DEF NewlyMade, y
<1> QED BY <1>4, <1>14

LEMMA VisitedFacts ==
  ASSUME NEW t, Base(t)
  PROVE  Visited(t) \in Seq(Nat)
<1> DEFINE q == [n \in 1..t.numRecords |-> n]
           e == IF t.numRecords - LastBuffered(t) > TABLE_BUFFER_SIZE
                  THEN <<t.numRecords>> ELSE <<>>
<1>1. t.numRecords \in Nat
  BY TblFields DEF Base
<1>2. q \in Seq(Nat)
  BY <1>1, IsASeq
<1>3. e \in Seq(Nat)
  BY <1>1, EmptySeq
<1> HIDE DEF q, e
<1>4. q \o e \in Seq(Nat)
  BY <1>2, <1>3, ConcatProperties
<1> QED BY <1>4 DEF Visited, q, e

(* What is left of t after packTable.                                      *)
PackedTable(u) ==
  /\ Base(u)
  /\ u.ok => /\ Cursor(u) /\ HeaderNear(u) /\ Intact(u, u.numRecords)
             /\ u.dbError = "DB_NOERROR" /\ u.idxError = "IDX_NOERR"
  /\ ~u.ok => u.dbError = "DB_INDEX"

LEMMA PackTableFails ==
  ASSUME NEW t, Ready(t), NEW a, Packed(a), ~a.ok
  PROVE  PackedTable([CloseTable(Unindexed(t)) EXCEPT
                        !.ok = FALSE, !.dbError = a.dbError, !.idxError = a.idxError])
<1> DEFINE s == CloseTable(Unindexed(t))
           u == [[[s EXCEPT !.ok = FALSE] EXCEPT !.dbError = a.dbError]
                   EXCEPT !.idxError = a.idxError]
<1>1. Base(Unindexed(t))
  BY UnindexedMakes DEF Ready
<1>2. Base(s) /\ s \in Tbl
  BY <1>1, CloseMakes DEF Renewed, Base
<1>3. a.dbError = "DB_INDEX" /\ a.dbError \in DbErrors /\ a.idxError \in IdxErrors
  BY TblFields DEF Packed, Base
<1> HIDE DEF s
<1>4. u = [s EXCEPT !.ok = FALSE, !.dbError = a.dbError, !.idxError = a.idxError]
  BY <1>2 DEF Tbl
<1>5. u \in Tbl
  <2> DEFINE x == [s EXCEPT !.ok = FALSE]
             y == [x EXCEPT !.dbError = a.dbError]
  <2>1. x \in Tbl
    BY <1>2, FieldChanges
  <2> HIDE DEF x
  <2>2. y \in Tbl
    BY <1>3, <2>1, FieldChanges
  <2> HIDE DEF y
  <2>3. [y EXCEPT !.idxError = a.idxError] \in Tbl
    BY <1>3, <2>2, FieldChanges
  <2> QED BY <2>3 DEF x, y
<1>6. /\ u.file = s.file /\ u.numRecords = s.numRecords /\ u.header = s.header
      /\ u.unique = s.unique /\ u.dbError = a.dbError /\ ~u.ok
  BY <1>2 DEF Tbl
<1> HIDE DEF u
<1>7. PackedTable(u)
  BY <1>2, <1>3, <1>5, <1>6 DEF PackedTable, Base
<1> QED BY <1>4, <1>7 DEF s

LEMMA PackTableSucceeds ==
  ASSUME NEW a, Packed(a), a.ok
  PROVE  PackedTable(Fresh(StoreTableHeader(a)))
<1> DEFINE s == StoreTableHeader(a)
           u == Fresh(s)
<1>1. Base(a) /\ Intact(a, a.numRecords) /\ a.idxError = "IDX_NOERR"
  BY DEF Packed, Ready
<1>2. /\ Base(s) /\ s.header = a.numRecords /\ s.file = a.file /\ s.index = a.index
      /\ s.idxError = a.idxError
  BY <1>1, StoreMakes
<1> HIDE DEF s
<1>3. Renewed(s, a.numRecords, u)
  BY <1>2, FreshMakes
<1> HIDE DEF u
<1>4. /\ Base(u) /\ u.header = a.numRecords /\ u.numRecords = a.numRecords
      /\ u.crec = 0 /\ u.offset = 1 /\ u.ok /\ u.dbError = "DB_NOERROR"
      /\ u.idxError = "IDX_NOERR" /\ u.file = a.file /\ u.index = a.index
  BY <1>1, <1>2, <1>3 DEF Renewed
<1>5. Intact(u, u.numRecords)
  BY <1>1, <1>4 DEF Intact, Values
<1>6. Cursor(u) /\ HeaderNear(u)
  BY <1>4 DEF Cursor, HeaderNear
<1>7. PackedTable(u)
  BY <1>4, <1>5, <1>6 DEF PackedTable
<1> QED BY <1>7 DEF u, s

(* The records are packed one after the other.                             *)
PackRuns(t, f, K) ==
  /\ K = Len(Visited(t)) /\ f \in [0..K -> {u \in Tbl : Packed(u)}]
  /\ f[0] = NewTable(t)
  /\ \A i \in 1..K : f[i] = PackRecord(t, f[i - 1], Visited(t)[i])
  /\ PackTable(t) = IF f[K].ok THEN Fresh(StoreTableHeader(f[K]))
                    ELSE [CloseTable(Unindexed(t)) EXCEPT
                            !.ok = FALSE, !.dbError = f[K].dbError,
                            !.idxError = f[K].idxError]

LEMMA PackTableRuns ==
  ASSUME NEW t, Ready(t)
  PROVE  \E f : PackRuns(t, f, Len(Visited(t)))
<1> DEFINE list == Visited(t)
           K == Len(list)
           U == {u \in Tbl : Packed(u)}
           s == NewTable(t)
           Op(u, n) == PackRecord(t, u, n)
           G == [i \in 1..K |-> [u \in U |-> Op(u, list[i])]]
           Eq(h) == h = [r \in SUBSET DOMAIN list |->
                          IF r = {} THEN s ELSE Op(h[r \ {Max(r)}], list[Max(r)])]
           c == CHOOSE g : Eq(g)
           a == c[DOMAIN list]
<1>1. PackTable(t) = IF a.ok THEN Fresh(StoreTableHeader(a))
                     ELSE [CloseTable(Unindexed(t)) EXCEPT
                             !.ok = FALSE, !.dbError = a.dbError, !.idxError = a.idxError]
  BY DEF PackTable, FoldLeft, MapThenFoldSet
<1>2. DOMAIN list = 1..K /\ K \in Nat
  <2>1. list \in Seq(Nat)
    BY VisitedFacts DEF Ready
  <2> HIDE DEF list
  <2> QED BY <2>1, LenProperties
<1>3. s \in U
  BY NewTableMakes DEF NewlyMade, Packed, Base
<1>4. \A u \in U : \A n : Op(u, n) \in U
  <2>1. SUFFICES ASSUME NEW u \in U, NEW n, u.ok, Live(t, n)
                 PROVE  PackOne(u, t.file[n].vals) \in U
    BY DEF PackRecord
  <2>2. t.file[n].vals \in Vals
    <3>1. t.file[n] \in Record
      BY <2>1, TblFields, LenProperties, ElementOfSeq DEF Live, Ready, Base
    <3> QED BY <3>1 DEF Record
  <2>3. Packed(PackOne(u, t.file[n].vals))
    BY <2>1, <2>2, PackOneMakes
  <2> QED BY <2>3 DEF Packed, Base
<1> HIDE DEF Op, U, K, s, list
<1>5. G \in [1..K -> [U -> U]]
  BY <1>2, <1>4
<1>6. \A i \in 1..K, u \in U : G[i][u] = Op(u, list[i])
  OBVIOUS
<1> HIDE DEF G
<1>7. \A r \in SUBSET (1..K) : r # {} => Max(r) \in 1..K
  BY <1>2, MaxExists
<1>8. PICK h \in [SUBSET (1..K) -> U] : Folds(h, s, K, G)
  BY <1>2, <1>3, <1>5, FoldExists
<1>9. Eq(h)
  <2>1. ASSUME NEW r \in SUBSET (1..K)
        PROVE  h[r] = IF r = {} THEN s ELSE Op(h[r \ {Max(r)}], list[Max(r)])
    <3>1. r # {} => Max(r) \in 1..K /\ h[r \ {Max(r)}] \in U
      BY <1>7
    <3>2. h[r] = IF r = {} THEN s ELSE G[Max(r)][h[r \ {Max(r)}]]
      BY <1>8 DEF Folds
    <3> QED BY <1>6, <3>1, <3>2
  <2> QED BY <1>2, <2>1
<1>10. Eq(c)
  <2> HIDE DEF Eq
  <2> QED BY <1>9
<1>11. \A r \in SUBSET (1..K) :
         c[r] = IF r = {} THEN s ELSE Op(c[r \ {Max(r)}], list[Max(r)])
  BY <1>2, <1>10
<1> HIDE DEF c, Eq
<1>12. FoldsIn(c, U, s, K, G)
  <2>1. ASSUME NEW r \in SUBSET (1..K), r # {}, c[r \ {Max(r)}] \in U
        PROVE  c[r] = G[Max(r)][c[r \ {Max(r)}]]
    BY <1>6, <1>7, <1>11, <2>1
  <2>2. c[{}] = s
    BY <1>11
  <2> QED BY <2>1, <2>2 DEF FoldsIn
<1>13. PICK f : Runs(f, U, s, K, G) /\ f[K] = c[1..K]
  BY <1>2, <1>3, <1>5, <1>12, FoldRuns
<1>14. f \in [0..K -> U] /\ f[0] = s /\ f[K] = a
  BY <1>2, <1>13 DEF Runs
<1>15. \A i \in 1..K : f[i] = Op(f[i - 1], list[i])
  <2>1. ASSUME NEW i \in 1..K PROVE f[i - 1] \in U /\ f[i] = G[i][f[i - 1]]
    BY <1>2, <1>13 DEF Runs
  <2> QED BY <1>6, <2>1
<1> HIDE DEF a
<1>16. PackRuns(t, f, K)
  <2>1. \A i \in 1..K : f[i] = PackRecord(t, f[i - 1], list[i])
    BY <1>15 DEF Op
  <2>2. list = Visited(t) /\ K = Len(Visited(t))
    BY DEF list, K
  <2>3. f \in [0..K -> {u \in Tbl : Packed(u)}] /\ f[0] = NewTable(t)
    BY <1>14 DEF U, s
  <2> QED BY <1>1, <1>14, <2>1, <2>2, <2>3 DEF PackRuns
<1> QED BY <1>16 DEF K, list

LEMMA PackTableMakes ==
  ASSUME NEW t, Ready(t)
  PROVE  PackedTable(PackTable(t))
<1> DEFINE K == Len(Visited(t))
<1>1. K \in Nat
  BY VisitedFacts, LenProperties DEF Ready
<1>2. PICK f : PackRuns(t, f, K)
  BY PackTableRuns
<1> DEFINE a == f[K]
<1> HIDE DEF K
<1>3. Packed(a)
  BY <1>1, <1>2 DEF PackRuns
<1>4. PackTable(t) = IF a.ok THEN Fresh(StoreTableHeader(a))
                     ELSE [CloseTable(Unindexed(t)) EXCEPT
                             !.ok = FALSE, !.dbError = a.dbError, !.idxError = a.idxError]
  BY <1>2 DEF PackRuns
<1> HIDE DEF a
<1>5. CASE a.ok
  BY <1>3, <1>4, <1>5, PackTableSucceeds
<1>6. CASE ~a.ok
  <2> DEFINE b == [CloseTable(Unindexed(t)) EXCEPT
                     !.ok = FALSE, !.dbError = a.dbError, !.idxError = a.idxError]
  <2>1. PackTable(t) = b
    BY <1>4, <1>6
  <2>2. PackedTable(b)
    BY <1>3, <1>6, PackTableFails
  <2> HIDE DEF b
  <2> QED BY <2>1, <2>2
<1> QED BY <1>5, <1>6

-----------------------------------------------------------------------------
(* A call begins.                                                          *)
Begun(t, u) ==
  /\ Ready(u) /\ u.file = t.file /\ u.index = t.index /\ u.header = t.header
  /\ u.numRecords = t.numRecords /\ u.crec = t.crec /\ u.offset = t.offset
  /\ u.unique = t.unique

(* Also with other errors noted.                                           *)
Restarted(t, d, e, u) ==
  /\ Base(u) /\ u.file = t.file /\ u.index = t.index /\ u.header = t.header
  /\ u.numRecords = t.numRecords /\ u.crec = t.crec /\ u.offset = t.offset
  /\ u.unique = t.unique /\ u.ok /\ u.dbError = d /\ u.idxError = e

LEMMA BeginMakes ==
  ASSUME NEW t, Base(t), NEW d \in DbErrors, NEW e \in IdxErrors
  PROVE  Restarted(t, d, e, [Begin(t) EXCEPT !.dbError = d, !.idxError = e])
<1> DEFINE x == [t EXCEPT !.ok = TRUE]
           y == [x EXCEPT !.rejected = <<>>]
           z == [y EXCEPT !.dbError = d]
           u == [z EXCEPT !.idxError = e]
<1>1. t \in Tbl
  BY DEF Base
<1>2. u = [Begin(t) EXCEPT !.dbError = d, !.idxError = e]
  BY <1>1 DEF Begin, Tbl
<1>3. u \in Tbl
  <2>1. <<>> \in Seq(Vals) /\ TRUE \in BOOLEAN
    BY EmptySeq
  <2>2. x \in Tbl
    BY <1>1, <2>1, FieldChanges
  <2> HIDE DEF x
  <2>3. y \in Tbl
    BY <2>1, <2>2, FieldChanges
  <2> HIDE DEF y
  <2>4. z \in Tbl
    BY <2>3, FieldChanges
  <2> HIDE DEF z
  <2> QED BY <2>4, FieldChanges
<1>4. /\ u.file = t.file /\ u.index = t.index /\ u.header = t.header
      /\ u.numRecords = t.numRecords /\ u.crec = t.crec /\ u.offset = t.offset
      /\ u.unique = t.unique /\ u.ok /\ u.dbError = d /\ u.idxError = e
  BY <1>1 DEF Tbl
<1> HIDE DEF u
<1>5. Base(u)
  BY <1>3, <1>4 DEF Base
<1>6. Restarted(t, d, e, u)
  BY <1>4, <1>5 DEF Restarted
<1> QED BY <1>2, <1>6

LEMMA BeginReady ==
  ASSUME NEW t, Base(t), t.dbError = "DB_NOERROR", t.idxError = "IDX_NOERR"
  PROVE  Begun(t, Begin(t))
<1> DEFINE d == "DB_NOERROR"
           e == "IDX_NOERR"
           u == [Begin(t) EXCEPT !.dbError = d, !.idxError = e]
<1>1. t \in Tbl /\ d \in DbErrors /\ e \in IdxErrors
  BY DEF Base, DbErrors, IdxErrors
<1>2. u = Begin(t)
  BY <1>1 DEF Begin, Tbl
<1> HIDE DEF d, e
<1>3. Restarted(t, d, e, u)
  BY <1>1, BeginMakes
<1> HIDE DEF u
<1>4. Begun(t, u)
  BY <1>3 DEF Restarted, Begun, Ready, d, e
<1> QED BY <1>2, <1>4

-----------------------------------------------------------------------------
(* The inductive invariant.  In an open table crec and offset go together, *)
(* no error of an index is noted that has not been reported as one, and    *)
(* the header is near; a closed one has no error; where one is left noted  *)
(* after a crash, reindexTable has met records with the same unique key    *)
(* and will do so again.  An intact table is listed.                       *)
Well(s, i, t) ==
  /\ s \in {"open", "closed", "crashed"} /\ i \in BOOLEAN /\ Base(t)
  /\ s = "open" => Cursor(t) /\ Reported(t) /\ (i => HeaderNear(t))
  /\ s = "closed" => t.dbError = "DB_NOERROR" /\ t.idxError = "IDX_NOERR"
  /\ s = "crashed" => Reported(t) \/ ~UniqueRows(Seen(t))
  /\ i /\ KeepsIndexes => Intact(t, IF s = "open" THEN t.numRecords ELSE t.header)

TblInv == prog \in Programs /\ Well(status, intact, tbl)

LEMMA ProgramFacts ==
  ASSUME NEW p \in Programs
  PROVE  p.records \subseteq Vals /\ p.lists \subseteq Seq(Vals) /\ p.targets \subseteq Int
BY ProgramsAssumption DEF Vals

LEMMA SameIntact ==
  ASSUME NEW t, NEW u, u.file = t.file, u.index = t.index
  PROVE  \A c : Intact(t, c) => Intact(u, c)
BY DEF Intact, Values

(* Every call on an open table starts from Begin(t).                       *)
LEMMA CallBegins ==
  ASSUME NEW i, NEW t, Well("open", i, t), t.dbError = "DB_NOERROR"
  PROVE  Begun(t, Begin(t))
<1>1. Base(t) /\ t.idxError = "IDX_NOERR"
  BY DEF Well, Reported
<1> QED BY <1>1, BeginReady

LEMMA CallEnds ==
  ASSUME NEW i, NEW t, Well("open", i, t), NEW b, Begun(t, b), NEW u, Called(b, u),
         NEW j \in BOOLEAN, j => i, j => (HeaderNear(b) => HeaderNear(u)),
         j /\ KeepsIndexes =>
           (Intact(b, b.numRecords) /\ Cursor(b) => Intact(u, u.numRecords))
  PROVE  Well("open", j, u)
<1>1. Base(u) /\ Reported(u)
  BY DEF Called
<1>2. Cursor(b) /\ Cursor(u)
  BY DEF Well, Begun, Cursor, Called
<1>3. j => HeaderNear(u)
  BY DEF Well, Begun, HeaderNear
<1>4. ASSUME j, KeepsIndexes PROVE Intact(u, u.numRecords)
  <2>1. Intact(t, t.numRecords)
    BY <1>4 DEF Well
  <2>2. Intact(b, b.numRecords)
    BY <2>1, SameIntact DEF Begun
  <2> QED BY <1>2, <1>4, <2>2
<1> QED BY <1>1, <1>2, <1>3, <1>4 DEF Well

LEMMA EditEnds ==
  ASSUME NEW i, NEW t, Well("open", i, t), NEW b, Begun(t, b), NEW u, Edited(b, u)
  PROVE  Well("open", i, u)
<1>1. i \in BOOLEAN
  BY DEF Well
<1> QED BY <1>1, CallEnds DEF Edited, Kept

LEMMA AddEnds ==
  ASSUME NEW i, NEW t, Well("open", i, t), t.dbError = "DB_NOERROR", NEW v \in Vals,
         NEW u, u = AddRecord(Begin(t), v)
  PROVE  Well("open", i /\ (u.ok \/ Clash(t, v)), u)
<1> DEFINE b == Begin(t)
           j == i /\ (u.ok \/ Clash(t, v))
<1>1. Begun(t, b) /\ Ready(b)
  BY CallBegins DEF Begun
<1>2. Clash(t, v) <=> Clash(b, v)
  BY <1>1 DEF Begun, Clash, Holds
<1> HIDE DEF b
<1>3. Added(b, v, u)
  BY <1>1, AddRecordMakes DEF b
<1>4. i \in BOOLEAN /\ u \in Tbl
  BY <1>3 DEF Well, Added, Called, Base
<1>5. u.ok \in BOOLEAN /\ Clash(t, v) \in BOOLEAN
  BY <1>4 DEF Tbl, Clash
<1>6. j \in BOOLEAN
  BY <1>4, <1>5
<1>7. ASSUME j PROVE Kept(b, u)
  <2>1. CASE u.ok
    BY <1>3, <2>1 DEF Added
  <2>2. CASE ~u.ok
    <3>1. Same(b, u) /\ u.index = b.index
      BY <1>2, <1>3, <1>7, <2>2 DEF Added
    <3> QED BY <3>1, SameKept
  <2> QED BY <2>1, <2>2
<1>8. Called(b, u) /\ (j => i)
  BY <1>3 DEF Added
<1> HIDE DEF j
<1>9. /\ j => (HeaderNear(b) => HeaderNear(u))
      /\ j /\ KeepsIndexes =>
           (Intact(b, b.numRecords) /\ Cursor(b) => Intact(u, u.numRecords))
  BY <1>7 DEF Kept
<1>10. Well("open", j, u)
  BY <1>1, <1>6, <1>8, <1>9, CallEnds
<1> QED BY <1>10 DEF j

LEMMA MassAddEnds ==
  ASSUME NEW i, NEW t, Well("open", i, t), t.dbError = "DB_NOERROR", NEW list \in Seq(Vals),
         NEW u, u = MassAddRecords(Begin(t), list)
  PROVE  Well("open", i /\ u.ok, u)
<1> DEFINE b == Begin(t)
           j == i /\ u.ok
<1>1. Begun(t, b) /\ Ready(b)
  BY CallBegins DEF Begun
<1> HIDE DEF b
<1>2. Called(b, u) /\ (u.ok => Kept(b, u))
  BY <1>1, MassAddRecordsMakes DEF b
<1>3. i \in BOOLEAN /\ u.ok \in BOOLEAN
  BY <1>2 DEF Well, Called, Base, Tbl
<1>4. j \in BOOLEAN /\ (j => i) /\ (j => Kept(b, u))
  BY <1>2, <1>3
<1> HIDE DEF j
<1>5. /\ j => (HeaderNear(b) => HeaderNear(u))
      /\ j /\ KeepsIndexes =>
           (Intact(b, b.numRecords) /\ Cursor(b) => Intact(u, u.numRecords))
  BY <1>4 DEF Kept
<1>6. Well("open", j, u)
  BY <1>1, <1>2, <1>4, <1>5, CallEnds
<1> QED BY <1>6 DEF j

LEMMA UpdateEnds ==
  ASSUME NEW i, NEW t, Well("open", i, t), t.dbError = "DB_NOERROR", NEW v \in Vals,
         NEW u, u = UpdateRecord(Begin(t), v)
  PROVE  Well("open", i /\ u.ok, u)
<1> DEFINE b == Begin(t)
           j == i /\ u.ok
<1>1. Begun(t, b) /\ Ready(b)
  BY CallBegins DEF Begun
<1> HIDE DEF b
<1>2. Updated(b, u)
  BY <1>1, UpdateRecordMakes DEF b
<1>3. i \in BOOLEAN /\ u.ok \in BOOLEAN
  BY <1>2 DEF Well, Updated, Called, Base, Tbl
<1>4. j \in BOOLEAN /\ (j => i) /\ (j => u.ok)
  BY <1>3
<1> HIDE DEF j
<1>5. /\ j => (HeaderNear(b) => HeaderNear(u))
      /\ j /\ KeepsIndexes =>
           (Intact(b, b.numRecords) /\ Cursor(b) => Intact(u, u.numRecords))
  BY <1>2, <1>4 DEF Updated
<1>6. Called(b, u)
  BY <1>2 DEF Updated
<1>7. Well("open", j, u)
  BY <1>1, <1>4, <1>5, <1>6, CallEnds
<1> QED BY <1>7 DEF j

LEMMA PackEnds ==
  ASSUME NEW i, NEW t, Well("open", i, t), t.dbError = "DB_NOERROR",
         NEW u, u = PackTable(Begin(t))
  PROVE  Well(IF u.ok THEN "open" ELSE "crashed", u.ok, u)
<1>1. Ready(Begin(t))
  BY CallBegins DEF Begun
<1>2. PackedTable(u)
  BY <1>1, PackTableMakes
<1>3. u.ok \in BOOLEAN /\ Base(u)
  BY <1>2 DEF PackedTable, Base, Tbl
<1>4. Reported(u)
  BY <1>2 DEF PackedTable, Reported
<1> QED BY <1>2, <1>3, <1>4 DEF PackedTable, Well

LEMMA OpenEnds ==
  ASSUME NEW i, NEW t, Well("closed", i, t)
  PROVE  Well("open", i, [Fresh(t) EXCEPT !.locked = TRUE])
<1> DEFINE s == Fresh(t)
           u == Relocked(s, TRUE)
<1>1. u = [s EXCEPT !.locked = TRUE]
  BY DEF Relocked
<1>2. Base(t) /\ t.idxError = "IDX_NOERR" /\ i \in BOOLEAN
  BY DEF Well
<1>3. Renewed(t, t.header, s)
  BY <1>2, FreshMakes
<1> HIDE DEF s
<1>4. /\ Base(u) /\ u.header = s.header /\ u.numRecords = s.numRecords /\ u.crec = s.crec
      /\ u.offset = s.offset /\ u.ok = s.ok /\ u.dbError = s.dbError
      /\ u.idxError = s.idxError /\ u.file = s.file /\ u.index = s.index
  BY <1>3, RelockedMakes DEF Renewed
<1> HIDE DEF u
<1>5. /\ Base(u) /\ u.header = t.header /\ u.numRecords = t.header /\ u.crec = 0
      /\ u.offset = 1 /\ u.idxError = "IDX_NOERR" /\ u.file = t.file /\ u.index = t.index
  BY <1>2, <1>3, <1>4 DEF Renewed
<1>6. Cursor(u) /\ Reported(u) /\ HeaderNear(u)
  BY <1>5 DEF Cursor, Reported, HeaderNear
<1>7. ASSUME i, KeepsIndexes PROVE Intact(u, u.numRecords)
  <2>1. Intact(t, t.header)
    BY <1>7 DEF Well
  <2> QED BY <1>5, <2>1, SameIntact
<1>8. Well("open", i, u)
  BY <1>2, <1>5, <1>6, <1>7 DEF Well
<1> QED BY <1>1, <1>8 DEF s

LEMMA CloseEnds ==
  ASSUME NEW i, NEW t, Well("open", i, t), t.dbError = "DB_NOERROR"
  PROVE  Well("closed", i, CloseTable(t))
<1> DEFINE u == CloseTable(t)
<1>1. Base(t) /\ t.idxError = "IDX_NOERR" /\ i \in BOOLEAN
  BY DEF Well, Reported
<1>2. Renewed(t, t.numRecords, u)
  BY <1>1, CloseMakes
<1> HIDE DEF u
<1>3. /\ Base(u) /\ u.header = t.numRecords /\ u.dbError = "DB_NOERROR"
      /\ u.idxError = "IDX_NOERR" /\ u.file = t.file /\ u.index = t.index
  BY <1>1, <1>2 DEF Renewed
<1>4. ASSUME i, KeepsIndexes PROVE Intact(u, u.header)
  <2>1. Intact(t, t.numRecords)
    BY <1>4 DEF Well
  <2> QED BY <1>3, <2>1, SameIntact
<1>5. Well("closed", i, u)
  BY <1>1, <1>3, <1>4 DEF Well
<1> QED BY <1>5 DEF u

LEMMA ErrorEnds ==
  ASSUME NEW s, NEW i, NEW t, Well(s, i, t), t.dbError # "DB_NOERROR"
  PROVE  Well(s, i, [Begin(t) EXCEPT !.dbError = "DB_NOERROR",
                       !.idxError = IF t.dbError = "DB_INDEX" THEN "IDX_NOERR" ELSE @])
<1> DEFINE d == "DB_NOERROR"
           e == IF t.dbError = "DB_INDEX" THEN "IDX_NOERR" ELSE t.idxError
           u == [Begin(t) EXCEPT !.dbError = d, !.idxError = e]
           w == [Begin(t) EXCEPT !.dbError = d,
                       !.idxError = IF t.dbError = "DB_INDEX" THEN "IDX_NOERR" ELSE @]
<1>1. Base(t) /\ t \in Tbl /\ d \in DbErrors /\ e \in IdxErrors
  <2>1. Base(t) /\ t \in Tbl /\ t.idxError \in IdxErrors
    BY TblFields DEF Well, Base
  <2> QED BY <2>1 DEF DbErrors, IdxErrors
<1>2. w = u
  BY <1>1 DEF Begin, Tbl
<1>3. Reported(t) => e = "IDX_NOERR"
  BY DEF Reported
<1> HIDE DEF d, e, w
<1>4. Restarted(t, d, e, u)
  BY <1>1, BeginMakes
<1> HIDE DEF u
<1>5. /\ Base(u) /\ u.file = t.file /\ u.index = t.index /\ u.header = t.header
      /\ u.numRecords = t.numRecords /\ u.crec = t.crec /\ u.offset = t.offset
      /\ (Reported(t) => Reported(u))
  BY <1>3, <1>4 DEF Restarted, Reported
<1>6. Seen(u) = Seen(t)
  BY <1>5 DEF Seen, LastSeen, ValuesAt
<1>7. (Cursor(t) => Cursor(u)) /\ (HeaderNear(t) => HeaderNear(u))
  BY <1>5 DEF Cursor, HeaderNear
<1>8. s # "closed" /\ s \in {"open", "closed", "crashed"} /\ i \in BOOLEAN
  BY DEF Well
<1>9. ASSUME i, KeepsIndexes
      PROVE  Intact(u, IF s = "open" THEN u.numRecords ELSE u.header)
  <2>1. Intact(t, IF s = "open" THEN t.numRecords ELSE t.header)
    BY <1>9 DEF Well
  <2> QED BY <1>5, <2>1, SameIntact
<1>10. Well(s, i, u)
  BY <1>5, <1>6, <1>7, <1>8, <1>9 DEF Well
<1> QED BY <1>2, <1>10 DEF w, d

(* The process has died and left t behind.                                 *)
LEMMA CrashEnds ==
  ASSUME NEW t, Base(t)
  PROVE  /\ Well("crashed", FALSE, [Fresh(t) EXCEPT !.idxError = "IDX_NOERR"])
         /\ \A b \in BOOLEAN :
              Well("crashed", FALSE, [Fresh(t) EXCEPT !.locked = b, !.idxError = "IDX_NOERR"])
<1> DEFINE s == Fresh(t)
           e == "IDX_NOERR"
           u(b) == Relocked(s, b)
<1>1. Base(s) /\ e \in IdxErrors
  BY FreshMakes DEF Renewed, IdxErrors
<1> HIDE DEF s, e
<1>2. [s EXCEPT !.idxError = e] = Renoted(s, e)
  BY DEF Renoted
<1>3. \A b \in BOOLEAN : [s EXCEPT !.locked = b, !.idxError = e] = Renoted(u(b), e)
  BY <1>1 DEF Renoted, Relocked, Base, Tbl
<1>4. \A b \in BOOLEAN : Base(u(b))
  BY <1>1, RelockedMakes
<1> HIDE DEF u
<1>5. ASSUME NEW w, Base(w) PROVE Well("crashed", FALSE, Renoted(w, e))
  <2>1. Base(Renoted(w, e)) /\ Renoted(w, e).idxError = e
    BY <1>1, <1>5, RenotedMakes
  <2> QED BY <2>1 DEF Well, Reported, e
<1>6. Well("crashed", FALSE, [s EXCEPT !.idxError = e])
  BY <1>1, <1>2, <1>5
<1>7. \A b \in BOOLEAN : Well("crashed", FALSE, [s EXCEPT !.locked = b, !.idxError = e])
  BY <1>3, <1>4, <1>5
<1> QED BY <1>6, <1>7 DEF s, e

LEMMA LockEnds ==
  ASSUME NEW i, NEW t, Well("crashed", i, t), NEW e \in {t.idxError, "IDX_NOERR"}
  PROVE  Well("crashed", i, [t EXCEPT !.locked = FALSE, !.idxError = e])
<1> DEFINE s == Relocked(t, FALSE)
           u == Renoted(s, e)
<1>1. Base(t) /\ t \in Tbl /\ e \in IdxErrors /\ i \in BOOLEAN
  BY TblFields DEF Well, Base, IdxErrors
<1>2. u = [t EXCEPT !.locked = FALSE, !.idxError = e]
  BY <1>1 DEF Relocked, Renoted, Tbl
<1>3. /\ Base(s) /\ s.header = t.header /\ s.dbError = t.dbError /\ s.file = t.file
      /\ s.index = t.index
  BY <1>1, RelockedMakes
<1> HIDE DEF s
<1>4. /\ Base(u) /\ u.header = t.header /\ u.dbError = t.dbError /\ u.file = t.file
      /\ u.index = t.index /\ u.idxError = e
  BY <1>1, <1>3, RenotedMakes
<1> HIDE DEF u
<1>5. Seen(u) = Seen(t)
  BY <1>4 DEF Seen, LastSeen, ValuesAt
<1>6. Reported(t) => Reported(u)
  BY <1>4 DEF Reported
<1>7. ASSUME i, KeepsIndexes PROVE Intact(u, u.header)
  <2>1. Intact(t, t.header)
    BY <1>7 DEF Well
  <2> QED BY <1>4, <2>1, SameIntact
<1>8. Well("crashed", i, u)
  BY <1>1, <1>4, <1>5, <1>6, <1>7 DEF Well
<1> QED BY <1>2, <1>8

LEMMA ReindexEnds ==
  ASSUME NEW s, NEW i, NEW t, Well(s, i, t), s # "open", t.dbError = "DB_NOERROR",
         NEW u, u = ReindexTable(t)
  PROVE  Well(IF u.ok THEN "closed" ELSE "crashed",
              u.ok /\ t.header > 0 /\ \A n \in 1..t.header : ~t.file[n].deleted, u)
<1> DEFINE whole == t.header > 0 /\ \A n \in 1..t.header : ~t.file[n].deleted
<1>1. Base(t) /\ t \in Tbl /\ t.header \in Nat
  BY TblFields DEF Well, Base
<1>2. Reindexed(t, u)
  BY <1>1, ReindexTableMakes
<1>3. Base(u) /\ u.file = t.file /\ u.header = t.header /\ u.ok \in BOOLEAN
  BY <1>2 DEF Reindexed, Base, Tbl
<1>4. Seen(u) = Seen(t)
  BY <1>3 DEF Seen, LastSeen, ValuesAt
<1>5. t.idxError = "IDX_NOERR" \/ ~UniqueRows(Seen(t))
  BY DEF Well, Reported
<1>6. CASE u.ok
  <2>1. /\ u.dbError = "DB_NOERROR" /\ u.idxError = "IDX_NOERR"
        /\ Listing(u.index, Seen(t)) /\ UniqueRows(Seen(t))
    BY <1>2, <1>5, <1>6 DEF Reindexed
  <2>2. ASSUME whole PROVE Intact(u, u.header)
    <3>1. \A n \in 1..t.header : n \in DOMAIN t.file
      BY <1>1, ValuesFacts DEF Base
    <3>2. LastSeen(t) = t.header
      BY <1>1, <2>2 DEF LastSeen
    <3>3. Seen(t) = Values(u, u.header)
      BY <1>3, <2>2, <3>1, <3>2 DEF Seen, Values, ValuesAt
    <3> QED BY <2>1, <3>3 DEF Intact
  <2>3. whole \in BOOLEAN
    OBVIOUS
  <2> HIDE DEF whole
  <2>4. Well("closed", whole, u)
    BY <1>3, <2>1, <2>2, <2>3 DEF Well
  <2> QED BY <1>6, <2>4 DEF whole
<1>7. CASE ~u.ok
  <2>1. /\ u.dbError \in {"DB_UNIQUE", "DB_INDEX"}
        /\ u.dbError = "DB_UNIQUE" => t.idxError # "IDX_NOERR" \/ ~UniqueRows(Seen(t))
    BY <1>2, <1>7 DEF Reindexed
  <2>2. Reported(u) \/ ~UniqueRows(Seen(u))
    BY <1>4, <1>5, <2>1 DEF Reported
  <2>3. Well("crashed", FALSE, u)
    BY <1>3, <2>2 DEF Well
  <2> QED BY <1>7, <2>3
<1> QED BY <1>3, <1>6, <1>7

-----------------------------------------------------------------------------
LEMMA InitInv == Init => TblInv
<1>1. SUFFICES ASSUME Init PROVE Well("closed", TRUE, tbl)
  BY DEF Init, TblInv
<1> DEFINE x == [i \in DOMAIN Indexes |-> EmptyBag]
           y == [i \in DOMAIN Indexes |-> Indexes[i].isUnique]
<1>2. /\ tbl = [file |-> <<>>, header |-> 0, index |-> x, unique |-> y,
                locked |-> FALSE, numRecords |-> 0, crec |-> 0, offset |-> 1,
                bof |-> FALSE, eof |-> FALSE, marked |-> FALSE,
                dbError |-> "DB_NOERROR", idxError |-> "IDX_NOERR",
                ok |-> TRUE, rejected |-> <<>>]
  BY <1>1 DEF Init
<1>3. /\ x \in [DOMAIN Indexes -> Bag] /\ y \in [DOMAIN Indexes -> BOOLEAN]
      /\ <<>> \in Seq(Record) /\ <<>> \in Seq(Vals) /\ Len(<<>>) = 0
      /\ "DB_NOERROR" \in DbErrors /\ "IDX_NOERR" \in IdxErrors
  BY EmptyIndexes, IndexFacts, EmptySeq DEF DbErrors, IdxErrors
<1>4. \A i \in FieldIndexes : y[i] = Indexes[i].isUnique
  BY FieldFacts, IndexFacts
<1> HIDE DEF x, y
<1>5. tbl \in Tbl
  BY <1>2, <1>3 DEF Tbl
<1>6. /\ tbl.file = <<>> /\ tbl.header = 0 /\ tbl.index = x /\ tbl.unique = y
      /\ tbl.numRecords = 0 /\ tbl.dbError = "DB_NOERROR" /\ tbl.idxError = "IDX_NOERR"
  BY <1>2
<1>7. Base(tbl)
  BY <1>3, <1>4, <1>5, <1>6 DEF Base
<1>8. Intact(tbl, tbl.header)
  <2>1. DOMAIN Values(tbl, 0) = {}
    BY DEF Values
  <2> QED BY <1>6, <2>1, EmptyIndexes DEF Intact, x
<1> QED BY <1>6, <1>7, <1>8 DEF Well

LEMMA StepInv == TblInv /\ [Next]_vars => TblInv'
<1>1. SUFFICES ASSUME TblInv, [Next]_vars PROVE TblInv'
  OBVIOUS
<1>2. /\ Well(status, intact, tbl) /\ prog \in Programs
      /\ prog.records \subseteq Vals /\ prog.lists \subseteq Seq(Vals)
      /\ prog.targets \subseteq Int
  BY <1>1, ProgramFacts DEF TblInv
<1>3. CASE UNCHANGED vars
  BY <1>1, <1>3 DEF vars, TblInv
<1>4. CASE Open
  <2>1. Well("open", intact, tbl')
    BY <1>2, <1>4, OpenEnds DEF Open
  <2> QED BY <1>2, <1>4, <2>1 DEF Open, TblInv
<1>5. CASE Close
  <2>1. Well("closed", intact, tbl')
    BY <1>2, <1>5, CloseEnds DEF Close, NoError
  <2> QED BY <1>2, <1>5, <2>1 DEF Close, TblInv
<1>6. CASE Pack
  <2>1. Well(status, intact, tbl) /\ status = "open" /\ tbl.dbError = "DB_NOERROR"
    BY <1>2, <1>6 DEF Pack, MayCall, NoError
  <2>2. Well(IF tbl'.ok THEN "open" ELSE "crashed", tbl'.ok, tbl')
    BY <1>6, <2>1, PackEnds DEF Pack
  <2> QED BY <1>2, <1>6, <2>2 DEF Pack, TblInv
<1>7. ASSUME NEW v \in prog.records, Add(v) PROVE TblInv'
  <2>1. Well("open", intact, tbl) /\ tbl.dbError = "DB_NOERROR" /\ v \in Vals
    BY <1>2, <1>7 DEF Add, MayCall, NoError
  <2>2. Well("open", intact /\ (tbl'.ok \/ Clash(tbl, v)), tbl')
    BY <1>7, <2>1, AddEnds DEF Add
  <2> QED BY <1>2, <1>7, <2>2 DEF Add, MayCall, TblInv
<1>8. ASSUME NEW v \in prog.records, Update(v) PROVE TblInv'
  <2>1. Well("open", intact, tbl) /\ tbl.dbError = "DB_NOERROR" /\ v \in Vals
    BY <1>2, <1>8 DEF Update, MayCall, NoError
  <2>2. Well("open", intact /\ tbl'.ok, tbl')
    BY <1>8, <2>1, UpdateEnds DEF Update
  <2> QED BY <1>2, <1>8, <2>2 DEF Update, MayCall, TblInv
<1>9. ASSUME NEW list \in prog.lists, MassAdd(list) PROVE TblInv'
  <2>1. Well("open", intact, tbl) /\ tbl.dbError = "DB_NOERROR" /\ list \in Seq(Vals)
    BY <1>2, <1>9 DEF MassAdd, MayCall, NoError
  <2>2. Well("open", intact /\ tbl'.ok, tbl')
    BY <1>9, <2>1, MassAddEnds DEF MassAdd
  <2> QED BY <1>2, <1>9, <2>2 DEF MassAdd, MayCall, TblInv
<1>10. ASSUME NEW call, NEW t, Edit(call, t), Edited(Begin(tbl), t) PROVE TblInv'
  <2>1. Well("open", intact, tbl) /\ tbl.dbError = "DB_NOERROR"
    BY <1>2, <1>10 DEF Edit, MayCall, NoError
  <2>2. Well("open", intact, t)
    BY <1>10, <2>1, CallBegins, EditEnds
  <2> QED BY <1>2, <1>10, <2>2 DEF Edit, MayCall, TblInv
<1>11. ASSUME NEW call, NEW t, Edit(call, t) PROVE Ready(Begin(tbl))
  <2>1. Well("open", intact, tbl) /\ tbl.dbError = "DB_NOERROR"
    BY <1>2, <1>11 DEF Edit, MayCall, NoError
  <2> QED BY <2>1, CallBegins DEF Begun
<1>12. CASE Delete \/ Undelete \/ Retrieve \/ IsDeleted
  BY <1>10, <1>11, <1>12, EditsMake DEF Delete, Undelete, Retrieve, IsDeleted
<1>13. ASSUME NEW n \in prog.targets, GotoRec(n) PROVE TblInv'
  BY <1>2, <1>10, <1>11, <1>13, GotoRecordMakes DEF GotoRec
<1>14. CASE Step
  BY <1>10, <1>11, <1>14, MovesMake DEF Step
<1>15. CASE HandleError
  <2>1. Well(status, intact, tbl')
    BY <1>2, <1>15, ErrorEnds DEF HandleError, NoError
  <2> QED BY <1>2, <1>15, <2>1 DEF HandleError, TblInv
<1>16. CASE Crash
  <2>1. Base(tbl)
    BY <1>2 DEF Well
  <2>2. Base(StoreTableHeader(tbl)) /\ Base(CloseTable(tbl)) /\ Base(Unindexed(tbl))
    BY <2>1, StoreMakes, CloseMakes, UnindexedMakes DEF Renewed
  <2>3. \/ \E t \in {tbl, StoreTableHeader(tbl), CloseTable(tbl), Unindexed(tbl)} :
             tbl' = [Fresh(t) EXCEPT !.idxError = "IDX_NOERR"]
        \/ \E b \in BOOLEAN :
             tbl' = [Fresh(tbl) EXCEPT !.locked = b, !.idxError = "IDX_NOERR"]
    BY <1>16 DEF Crash
  <2>4. CASE \E t \in {tbl, StoreTableHeader(tbl), CloseTable(tbl), Unindexed(tbl)} :
               tbl' = [Fresh(t) EXCEPT !.idxError = "IDX_NOERR"]
    <3>1. PICK t \in {tbl, StoreTableHeader(tbl), CloseTable(tbl), Unindexed(tbl)} :
                 tbl' = [Fresh(t) EXCEPT !.idxError = "IDX_NOERR"]
      BY <2>4
    <3>2. Base(t)
      BY <2>1, <2>2
    <3>3. Well("crashed", FALSE, [Fresh(t) EXCEPT !.idxError = "IDX_NOERR"])
      BY <3>2, CrashEnds
    <3> QED BY <1>2, <1>16, <3>1, <3>3 DEF Crash, TblInv
  <2>5. CASE \E b \in BOOLEAN :
               tbl' = [Fresh(tbl) EXCEPT !.locked = b, !.idxError = "IDX_NOERR"]
    <3>1. PICK b \in BOOLEAN :
                 tbl' = [Fresh(tbl) EXCEPT !.locked = b, !.idxError = "IDX_NOERR"]
      BY <2>5
    <3>2. Well("crashed", FALSE, [Fresh(tbl) EXCEPT !.locked = b, !.idxError = "IDX_NOERR"])
      BY <2>1, CrashEnds
    <3> QED BY <1>2, <1>16, <3>1, <3>2 DEF Crash, TblInv
  <2> QED BY <2>3, <2>4, <2>5
<1>17. CASE RemoveLock
  <2>1. PICK e \in {tbl.idxError, "IDX_NOERR"} :
               tbl' = [tbl EXCEPT !.locked = FALSE, !.idxError = e]
    BY <1>17 DEF RemoveLock
  <2>2. Well("crashed", intact, tbl)
    BY <1>2, <1>17 DEF RemoveLock
  <2>3. Well("crashed", intact, [tbl EXCEPT !.locked = FALSE, !.idxError = e])
    BY <2>2, LockEnds
  <2> QED BY <1>2, <1>17, <2>1, <2>3 DEF RemoveLock, TblInv
<1>18. CASE Reindex
  <2>1. Well(IF tbl'.ok THEN "closed" ELSE "crashed",
             tbl'.ok /\ tbl.header > 0 /\ \A n \in 1..tbl.header : ~tbl.file[n].deleted, tbl')
    BY <1>2, <1>18, ReindexEnds DEF Reindex, NoError
  <2> QED BY <1>2, <1>18, <2>1 DEF Reindex, TblInv
<1> QED BY <1>1, <1>3, <1>4, <1>5, <1>6, <1>7, <1>8, <1>9, <1>12, <1>13, <1>14,
           <1>15, <1>16, <1>17, <1>18 DEF Next

(* The invariant.                                                          *)
THEOREM TableWell == Spec => []TblInv
<1> QED BY InitInv, StepInv, PTL DEF Spec

(* crec and offset of an open table name one record, or addRecord has left *)
(* crec at the last one, counted from 1: whatever calls the program makes, *)
(* with their errors, crashes, packing and reindexing (cdbmove.c,          *)
(* cdbadd.c).                                                              *)
THEOREM CursorKept == Spec => []CursorAgrees
<1>1. TblInv => CursorAgrees
  BY DEF TblInv, Well, Cursor, CursorAgrees
<1> QED BY <1>1, TableWell, PTL

(* The header in the file is at most one record behind the table the       *)
(* program has open (addRecord, massAddRecords, closeTable), for every     *)
(* TABLE_FLUSH but 1.                                                      *)
THEOREM HeaderKept == Spec => []HeaderFollows
<1>1. TblInv => HeaderFollows
  <2>1. SUFFICES ASSUME TblInv, status = "open", intact
                 PROVE  tbl.header \in {tbl.numRecords, tbl.numRecords - 1} /\ tbl.header >= 0
    BY DEF HeaderFollows
  <2>2. HeaderNear(tbl) /\ tbl.header \in Nat
    BY <2>1, TblFields DEF TblInv, Well, Base
  <2> QED BY <2>2 DEF HeaderNear
<1> QED BY <1>1, TableWell, PTL

(* addRecord with a value a unique index has fails and leaves records,     *)
(* header and every index as they were, in whatever order the indexes come *)
(* and however often calls have failed before (addDBIndexes looks at all   *)
(* unique indexes before it puts the first key).                           *)
THEOREM RejectionKept == Spec => RejectedAddLeavesNoTrace
<1> DEFINE Rejects ==
      \A v \in prog.records :
        Clash(tbl, v) /\ Add(v) =>
          ~tbl'.ok /\ UNCHANGED <<tbl.file, tbl.index, tbl.numRecords, tbl.header>>
<1>1. TblInv /\ [Next]_vars => [Rejects]_vars
  <2>1. SUFFICES ASSUME TblInv, NEW v \in prog.records, Clash(tbl, v), Add(v)
                 PROVE  ~tbl'.ok /\ UNCHANGED <<tbl.file, tbl.index, tbl.numRecords, tbl.header>>
    OBVIOUS
  <2>2. Well("open", intact, tbl) /\ tbl.dbError = "DB_NOERROR" /\ v \in Vals
    BY <2>1, ProgramFacts DEF TblInv, Add, MayCall, NoError
  <2> DEFINE b == Begin(tbl)
             a == AddDBIndexes(b, v)
  <2>3. Begun(tbl, b)
    BY <2>2, CallBegins
  <2>4. b \in Tbl /\ b.ok /\ Clash(b, v)
    BY <2>1, <2>3 DEF Begun, Ready, Base, Clash, Holds
  <2>5. tbl' = AddRecord(b, v)
    BY <2>1 DEF Add
  <2> HIDE DEF b
  <2>6. Same(b, a) /\ ~a.ok /\ a.index = b.index
    BY <2>2, <2>4, AddClashes
  <2>7. tbl' = a
    <3> HIDE DEF a
    <3> QED BY <2>5, <2>6 DEF AddRecord, a
  <2> HIDE DEF a
  <2> QED BY <2>3, <2>6, <2>7 DEF Begun, Same
<1>2. Spec => [][Rejects]_vars
  <2> HIDE DEF Rejects
  <2> QED BY <1>1, TableWell, PTL DEF Spec
<1> QED BY <1>2 DEF RejectedAddLeavesNoTrace

(* No two records of an intact table have the same key in a unique index,  *)
(* for every set of indexes and every sequence of calls (createDBIndex,    *)
(* addRecord, massAddRecords, updateRecord, packTable, reindexTable).      *)
THEOREM UniqueKept == Spec => []UniqueRecords
<1>1. TblInv => UniqueRecords
  <2>1. SUFFICES ASSUME TblInv, intact, NEW i \in DOMAIN Indexes, NEW m \in 1..Count,
                        NEW n \in 1..Count, Indexes[i].isUnique,
                        KeyOf(i, tbl.file[m].vals) = KeyOf(i, tbl.file[n].vals)
                 PROVE  m = n
    BY DEF UniqueRecords
  <2>2. i \in FieldIndexes
    BY <2>1, IndexFacts DEF FieldIndexes
  <2>3. Intact(tbl, Count)
    BY <2>1, <2>2 DEF TblInv, Well, Count, KeepsIndexes
  <2> QED BY <2>1, <2>2, <2>3 DEF Intact, UniqueRows, Values
<1> QED BY <1>1, TableWell, PTL

(* Every index of an intact table lists every record once, under its       *)
(* present key and its number, and nothing else, for every number of       *)
(* records, fields and indexes.  The hypothesis is the one case where      *)
(* updateRecord forgets indexes: a table that has indexes of several       *)
(* fields and none of one (cdbedit.c:126).                                 *)
THEOREM ListingKept ==
  ASSUME KeepsIndexes
  PROVE  Spec => []EveryRecordListed
<1>1. TblInv => EveryRecordListed
  <2>1. SUFFICES ASSUME TblInv, intact, NEW i \in DOMAIN Indexes
                 PROVE  tbl.index[i] = SetToBag({Pair(i, tbl.file[n].vals, n) : n \in 1..Count})
    BY DEF EveryRecordListed
  <2>2. Intact(tbl, Count)
    BY <2>1 DEF TblInv, Well, Count
  <2>3. Rows(i, Values(tbl, Count)) = {Pair(i, tbl.file[n].vals, n) : n \in 1..Count}
    BY DEF Rows, Values
  <2>4. i \in 1..N
    BY <2>1, IndexFacts
  <2> QED BY <2>2, <2>3, <2>4 DEF Intact, Listing
<1> QED BY <1>1, TableWell, PTL

(* updateRecord changes a live record of an intact table whenever no other *)
(* record has the new key in an index that refuses duplicates: it deletes  *)
(* the old keys and adds the new ones (cdbedit.c), and neither can fail.   *)
THEOREM UpdatesKept == Spec => UpdateSucceeds
<1> DEFINE Updates ==
      \A v \in prog.records :
        /\ intact /\ tbl.offset = tbl.crec + 1 /\ tbl.offset <= tbl.numRecords
        /\ ~tbl.file[tbl.offset].deleted
        /\ Free(v) /\ Update(v)
        => tbl'.ok /\ tbl'.file[tbl.offset] = [deleted |-> FALSE, vals |-> v]
<1>1. TblInv /\ [Next]_vars => [Updates]_vars
  <2>1. SUFFICES ASSUME TblInv, NEW v \in prog.records, intact,
                        tbl.offset = tbl.crec + 1, tbl.offset <= tbl.numRecords,
                        ~tbl.file[tbl.offset].deleted, Free(v), Update(v)
                 PROVE  tbl'.ok /\ tbl'.file[tbl.offset] = [deleted |-> FALSE, vals |-> v]
    OBVIOUS
  <2>2. Well("open", intact, tbl) /\ tbl.dbError = "DB_NOERROR" /\ v \in Vals
    BY <2>1, ProgramFacts DEF TblInv, Update, MayCall, NoError
  <2> DEFINE b == Begin(tbl)
  <2>3. Begun(tbl, b)
    BY <2>2, CallBegins
  <2>4. tbl' = UpdateRecord(b, v)
    BY <2>1 DEF Update
  <2> HIDE DEF b
  <2>5. Changeable(b, v)
    <3>1. b.offset = b.crec + 1 /\ b.offset \in 1..b.numRecords /\ ~b.file[b.offset].deleted
      <4>1. tbl \in Tbl
        BY <2>2 DEF Well, Base
      <4>2. tbl.crec \in Nat /\ tbl.numRecords \in Nat
        BY <4>1, TblFields
      <4>3. tbl.offset \in 1..tbl.numRecords
        BY <2>1, <4>2
      <4> QED BY <2>1, <2>3, <4>3 DEF Begun
    <3>2. FieldIndexes # {} => Intact(b, b.numRecords)
      <4>1. ASSUME FieldIndexes # {} PROVE Intact(tbl, tbl.numRecords)
        BY <2>1, <2>2, <4>1 DEF Well, KeepsIndexes
      <4> QED BY <2>3, <4>1, SameIntact DEF Begun
    <3>3. \A i \in DOMAIN Indexes, m \in 1..b.numRecords :
            b.unique[i] /\ m # b.offset => KeyOf(i, b.file[m].vals) # KeyOf(i, v)
      BY <2>1, <2>3 DEF Begun, Free
    <3> QED BY <2>3, <3>1, <3>2, <3>3 DEF Changeable, Begun
  <2>6. b.offset = tbl.offset
    BY <2>3 DEF Begun
  <2> QED BY <2>2, <2>4, <2>5, <2>6, UpdateSucceedsMakes
<1>2. Spec => [][Updates]_vars
  <2> HIDE DEF Updates
  <2> QED BY <1>1, TableWell, PTL DEF Spec
<1> QED BY <1>2 DEF UpdateSucceeds

-----------------------------------------------------------------------------
(* The places of the numbers of a set.                                     *)
LEMMA CountIs == \A S : Cardinality(S) = CountOf(S)
BY CountDef, Zenon DEF Cardinality

LEMMA RankFacts ==
  ASSUME NEW k \in Nat, NEW S \in SUBSET (1..k)
  PROVE  Cardinality(S) \in Nat /\ \A n \in S : Rank(S, n) \in 1..Cardinality(S)
<1>1. \A n : Rank(S, n) = CountOf(UpTo(S, n))
  BY CountIs DEF Rank, UpTo
<1> QED BY <1>1, CountIs, CountFacts

LEMMA RankGrows ==
  ASSUME NEW k \in Nat, NEW S \in SUBSET (1..k)
  PROVE  LET T == S \cup {k + 1}
         IN /\ Cardinality(T) = Cardinality(S) + 1 /\ Rank(T, k + 1) = Cardinality(T)
            /\ \A n \in S : Rank(T, n) = Rank(S, n)
<1> DEFINE T == S \cup {k + 1}
<1>1. \A R, n : Rank(R, n) = CountOf(UpTo(R, n))
  BY CountIs DEF Rank, UpTo
<1>2. /\ CountOf(T) = CountOf(S) + 1 /\ UpTo(T, k + 1) = T
      /\ \A n \in S : UpTo(T, n) = UpTo(S, n)
  BY CountGrows
<1> HIDE DEF T
<1>3. /\ Cardinality(T) = Cardinality(S) + 1 /\ Rank(T, k + 1) = Cardinality(T)
      /\ \A n \in S : Rank(T, n) = Rank(S, n)
  BY <1>1, <1>2, CountIs
<1> QED BY <1>3 DEF T

(* A record that no index refuses is added behind the last.                *)
RowAdded(t, v, u) ==
  /\ Ready(u) /\ u.numRecords = t.numRecords + 1
  /\ u.unique = t.unique /\ u.rejected = t.rejected
  /\ Len(t.file) = t.numRecords => Len(u.file) = t.numRecords + 1
  /\ \A n \in 1..t.numRecords : u.file[n] = t.file[n]
  /\ u.file[t.numRecords + 1] = [deleted |-> FALSE, vals |-> v]
  /\ \A i \in 1..N, w \in Vals : Holds(u, i, w) <=> Holds(t, i, w) \/ KeyOf(i, w) = KeyOf(i, v)

LEMMA AddSucceeds ==
  ASSUME NEW t, Ready(t), NEW v \in Vals, \A i \in 1..N : t.unique[i] => ~Holds(t, i, v)
  PROVE  AddDBIndexes(t, v).ok
<1> DEFINE n == t.numRecords + 1
<1>1. t \in Tbl /\ t.ok /\ n \in Nat /\ t.idxError = "IDX_NOERR"
  BY TblFields DEF Ready, Base
<1>2. ~Clash(t, v)
  BY FieldFacts DEF Clash
<1>3. TestKeys(t, v) = t
  BY <1>1, <1>2, TestKeysMakes
<1>4. AddDBIndexes(t, v) = PutKeys(t, v, n)
  BY <1>1, <1>3 DEF AddDBIndexes
<1> DEFINE u == PutKeys(t, v, n)
<1>5. PutUpTo(t, v, n, N, u)
  BY <1>1, PutKeysMakes
<1> HIDE DEF n, u
<1>6. u.ok
  BY <1>1, <1>5 DEF PutUpTo
<1> QED BY <1>4, <1>6 DEF u

LEMMA RowMakes ==
  ASSUME NEW t, Ready(t), ~t.marked, NEW v \in Vals,
         \A i \in 1..N : t.unique[i] => ~Holds(t, i, v)
  PROVE  /\ AddDBIndexes(t, v).ok
         /\ RowAdded(t, v, AppendRecord(AddDBIndexes(t, v), v))
<1> DEFINE a == AddDBIndexes(t, v)
           u == AppendRecord(a, v)
           c == t.numRecords
           r == [deleted |-> FALSE, vals |-> v]
<1>1. Indexed(t, v, a) /\ a.ok
  BY AddSucceeds, AddDBIndexesMakes
<1> HIDE DEF a
<1>2. Base(t) /\ t \in Tbl /\ c \in Nat /\ t.file \in Seq(Record) /\ Len(t.file) \in Nat
      /\ c <= Len(t.file) /\ t.marked = FALSE
  BY TblFields, LenProperties DEF Ready, Base
<1>3. Appended(a, v, u)
  BY <1>1, AppendMakes DEF Indexed
<1> HIDE DEF u
<1>4. Ready(u) /\ u.numRecords = c + 1
  BY <1>1, <1>2, <1>3, AddedRow
<1>5. u.unique = t.unique /\ u.rejected = t.rejected /\ u.index = a.index
  BY <1>1, <1>3 DEF Indexed, Same, Appended
<1>6. u.file = Written(t.file, c + 1, r)
  BY <1>1, <1>2, <1>3 DEF Indexed, Same, Appended
<1>7. r \in Record
  BY DEF Record
<1> HIDE DEF r, c
<1>8. /\ Len(t.file) <= Len(u.file)
      /\ \A m \in 1..Len(t.file) : u.file[m] = IF m = c + 1 THEN r ELSE t.file[m]
      /\ c + 1 = Len(t.file) + 1 => Len(u.file) = c + 1 /\ u.file[c + 1] = r
  BY <1>2, <1>6, <1>7, WrittenFacts
<1>9. \A n \in 1..c : u.file[n] = t.file[n]
  <2>1. \A n \in 1..c : n \in 1..Len(t.file) /\ n # c + 1
    BY <1>2
  <2> QED BY <1>8, <2>1
<1>10. u.file[c + 1] = r
  <2>1. Len(t.file) = c \/ c + 1 \in 1..Len(t.file)
    BY <1>2
  <2> QED BY <1>8, <2>1
<1>11. ASSUME NEW i \in 1..N, NEW w \in Vals
       PROVE  Holds(u, i, w) <=> Holds(t, i, w) \/ KeyOf(i, w) = KeyOf(i, v)
  <2>1. u.index[i] = BagAdd(t.index[i], Pair(i, v, c + 1))
    BY <1>1, <1>5 DEF Indexed, c
  <2>2. t.index[i] \in Bag /\ c + 1 \in Nat
    <3>1. t.index \in [1..N -> Bag]
      BY <1>2, TblFields
    <3>2. c \in Nat
      BY <1>2
    <3>3. c + 1 \in Nat
      BY <3>2
    <3> QED BY <3>1, <3>3
  <2>3. Pair(i, v, c + 1) \in KeyPair /\ Pair(i, v, c + 1).key = KeyOf(i, v)
    BY <2>2, PairFacts DEF Pair
  <2>4. DOMAIN u.index[i] = DOMAIN t.index[i] \cup {Pair(i, v, c + 1)}
    BY <2>1, <2>2, <2>3, BagChanges
  <2> QED BY <2>3, <2>4 DEF Holds
<1>12. RowAdded(t, v, u)
  BY <1>4, <1>5, <1>8, <1>9, <1>10, <1>11 DEF RowAdded, c, r
<1> QED BY <1>1, <1>12 DEF a, u

-----------------------------------------------------------------------------
(* A record is copied to the new table, or refused for a key it has.       *)
LEMMA PackOneAdds ==
  ASSUME NEW u, Ready(u), NEW v \in Vals, \A i \in 1..N : u.unique[i] => ~Holds(u, i, v)
  PROVE  RowAdded(u, v, PackOne(u, v))
<1> DEFINE s == [u EXCEPT !.marked = FALSE]
           a == AddDBIndexes(s, v)
           b == AppendRecord(a, v)
           x == StoreTableHeader(b)
           w == IF b.numRecords % TABLE_FLUSH # 0 THEN x ELSE b
<1>1. /\ Base(s) /\ s.file = u.file /\ s.index = u.index /\ s.numRecords = u.numRecords
      /\ s.ok = u.ok /\ s.dbError = u.dbError /\ s.idxError = u.idxError
      /\ s.unique = u.unique /\ s.rejected = u.rejected /\ ~s.marked
  BY Unmarked DEF Ready
<1>2. AddRecord(s, v) = IF a.ok THEN w ELSE a
  BY DEF AddRecord
<1>3. PackOne(u, v) = IF ~AddRecord(s, v).ok /\ AddRecord(s, v).dbError = "DB_UNIQUE"
                        THEN [AddRecord(s, v) EXCEPT !.ok = TRUE, !.dbError = "DB_NOERROR"]
                        ELSE AddRecord(s, v)
  BY DEF PackOne
<1> HIDE DEF s
<1>4. Ready(s) /\ \A i \in 1..N : s.unique[i] => ~Holds(s, i, v)
  BY <1>1 DEF Ready, Holds
<1>5. a.ok /\ RowAdded(s, v, b)
  BY <1>1, <1>4, RowMakes
<1> HIDE DEF a, b
<1>6. RowAdded(u, v, b)
  BY <1>1, <1>5 DEF RowAdded, Holds
<1>7. /\ Base(x) /\ x.file = b.file /\ x.index = b.index /\ x.numRecords = b.numRecords
      /\ x.ok = b.ok /\ x.dbError = b.dbError /\ x.idxError = b.idxError
      /\ x.unique = b.unique /\ x.rejected = b.rejected
  BY <1>6, StoreMakes DEF RowAdded, Ready
<1> HIDE DEF x
<1>8. RowAdded(u, v, x)
  BY <1>6, <1>7 DEF RowAdded, Ready, Holds
<1>9. RowAdded(u, v, w)
  BY <1>6, <1>8
<1> HIDE DEF w
<1>10. w.ok /\ AddRecord(s, v) = w
  BY <1>2, <1>5, <1>9 DEF RowAdded, Ready
<1> QED BY <1>3, <1>9, <1>10

LEMMA PackOneSkips ==
  ASSUME NEW u, Ready(u), NEW v \in Vals, Clash(u, v)
  PROVE  LET w == PackOne(u, v)
         IN w.ok /\ w.file = u.file /\ w.numRecords = u.numRecords /\ Base(w)
<1> DEFINE s == [u EXCEPT !.marked = FALSE]
           a == AddDBIndexes(s, v)
           y == [a EXCEPT !.ok = TRUE]
           w == [y EXCEPT !.dbError = "DB_NOERROR"]
<1>1. /\ Base(s) /\ s.file = u.file /\ s.index = u.index /\ s.numRecords = u.numRecords
      /\ s.ok = u.ok /\ s.unique = u.unique
  BY Unmarked DEF Ready
<1>2. AddRecord(s, v) = a \/ a.ok
  BY DEF AddRecord
<1>3. PackOne(u, v) = IF ~AddRecord(s, v).ok /\ AddRecord(s, v).dbError = "DB_UNIQUE"
                        THEN [AddRecord(s, v) EXCEPT !.ok = TRUE, !.dbError = "DB_NOERROR"]
                        ELSE AddRecord(s, v)
  BY DEF PackOne
<1> HIDE DEF s
<1>4. s \in Tbl /\ s.ok /\ Clash(s, v)
  BY <1>1 DEF Ready, Base, Clash, Holds
<1>5. a \in Tbl /\ Same(s, a) /\ ~a.ok /\ a.dbError = "DB_UNIQUE"
  BY <1>4, AddClashes
<1> HIDE DEF a
<1>6. PackOne(u, v) = [a EXCEPT !.ok = TRUE, !.dbError = "DB_NOERROR"]
  BY <1>2, <1>3, <1>5
<1>7. w = [a EXCEPT !.ok = TRUE, !.dbError = "DB_NOERROR"]
  BY <1>5 DEF Tbl
<1>8. w \in Tbl
  <2>1. "DB_NOERROR" \in DbErrors /\ TRUE \in BOOLEAN
    BY DEF DbErrors
  <2>2. y \in Tbl
    BY <1>5, <2>1, FieldChanges
  <2> HIDE DEF y
  <2> QED BY <2>1, <2>2, FieldChanges
<1>9. /\ w.ok /\ w.file = a.file /\ w.numRecords = a.numRecords /\ w.header = a.header
      /\ w.unique = a.unique
  BY <1>5 DEF Tbl
<1> HIDE DEF w
<1>10. w.ok /\ w.file = u.file /\ w.numRecords = u.numRecords /\ Base(w)
  BY <1>1, <1>5, <1>8, <1>9 DEF Same, Base
<1> QED BY <1>6, <1>7, <1>10

(* The new table has the live ones of the first k records of t.            *)
LiveUpTo(t, k) == {n \in 1..k : Live(t, n)}

Copied(t, k, u) ==
  /\ Ready(u) /\ u.unique = [i \in DOMAIN Indexes |-> Indexes[i].isUnique]
  /\ Len(u.file) = Cardinality(LiveUpTo(t, k)) /\ u.numRecords = Cardinality(LiveUpTo(t, k))
  /\ \A n \in LiveUpTo(t, k) : u.file[Rank(LiveUpTo(t, k), n)] = t.file[n]
  /\ \A i \in 1..N, w \in Vals :
       Holds(u, i, w) <=> \E n \in LiveUpTo(t, k) : KeyOf(i, t.file[n].vals) = KeyOf(i, w)

LEMMA CopyStarts ==
  ASSUME NEW t, NEW u, NewlyMade(u)
  PROVE  Copied(t, 0, u)
<1>1. LiveUpTo(t, 0) = {} /\ Cardinality({}) = 0
  BY CountIs, CountNone DEF LiveUpTo
<1>2. Len(u.file) = 0
  BY EmptySeq DEF NewlyMade
<1>3. Ready(u)
  BY DEF NewlyMade, Packed
<1>4. \A i \in 1..N, w \in Vals : ~Holds(u, i, w)
  <2>1. \A i \in 1..N : DOMAIN u.index[i] = {}
    <3>1. DOMAIN EmptyBag = {}
      BY DEF EmptyBag, SetToBag
    <3> QED BY <3>1, IndexFacts DEF NewlyMade
  <2> QED BY <2>1 DEF Holds
<1> QED BY <1>1, <1>2, <1>3, <1>4 DEF Copied, NewlyMade

LEMMA CopyGoesOn ==
  ASSUME NEW t, Base(t), Intact(t, t.numRecords), NEW k \in Nat, k + 1 <= t.numRecords,
         NEW u, Copied(t, k, u)
  PROVE  Copied(t, k + 1, PackRecord(t, u, k + 1))
<1> DEFINE S == LiveUpTo(t, k)
           T == LiveUpTo(t, k + 1)
           w == PackRecord(t, u, k + 1)
           v == t.file[k + 1].vals
<1>1. S \in SUBSET (1..k) /\ T = IF Live(t, k + 1) THEN S \cup {k + 1} ELSE S
  BY DEF LiveUpTo
<1>2. CASE ~Live(t, k + 1)
  <2>1. w = u /\ T = S
    BY <1>1, <1>2 DEF PackRecord
  <2> QED BY <2>1 DEF Copied
<1>3. CASE Live(t, k + 1)
  <2>1. w = PackOne(u, v)
    BY <1>3 DEF PackRecord, Copied, Ready
  <2>2. v \in Vals /\ t.file[k + 1] = [deleted |-> FALSE, vals |-> v]
    <3>1. t.file[k + 1] \in Record /\ ~t.file[k + 1].deleted
      BY <1>3, TblFields, LenProperties, ElementOfSeq DEF Base, Live
    <3> QED BY <3>1 DEF Record
  <2>3. /\ Cardinality(T) = Cardinality(S) + 1 /\ Rank(T, k + 1) = Cardinality(T)
        /\ \A n \in S : Rank(T, n) = Rank(S, n)
    <3>1. S \in SUBSET (1..k) /\ T = S \cup {k + 1}
      BY <1>1, <1>3
    <3> HIDE DEF S, T
    <3> QED BY <3>1, RankGrows
  <2>4. Cardinality(S) \in Nat /\ \A n \in S : Rank(S, n) \in 1..Cardinality(S)
    BY <1>1, RankFacts
  <2>5. T = S \cup {k + 1}
    BY <1>1, <1>3
  <2> HIDE DEF v
  <2>6. ASSUME NEW i \in 1..N, u.unique[i], Holds(u, i, v) PROVE FALSE
    <3>1. i \in FieldIndexes /\ Indexes[i].isUnique
      BY <2>6, IndexFacts DEF Copied, FieldIndexes
    <3>2. PICK n \in S : KeyOf(i, t.file[n].vals) = KeyOf(i, v)
      BY <2>2, <2>6 DEF Copied
    <3>3. n \in 1..t.numRecords /\ k + 1 \in 1..t.numRecords /\ n # k + 1
      <4>1. t.numRecords \in Nat
        BY TblFields DEF Base
      <4> QED BY <1>1, <4>1
    <3>4. UniqueRows(Values(t, t.numRecords))
      BY DEF Intact
    <3>5. /\ DOMAIN Values(t, t.numRecords) = 1..t.numRecords
          /\ Values(t, t.numRecords)[n] = t.file[n].vals
          /\ Values(t, t.numRecords)[k + 1] = v
      BY <3>3 DEF Values, v
    <3> QED BY <3>1, <3>2, <3>3, <3>4, <3>5 DEF UniqueRows
  <2>7. RowAdded(u, v, w)
    BY <2>1, <2>2, <2>6, PackOneAdds DEF Copied
  <2> HIDE DEF w, S, T
  <2>8. /\ u.numRecords = Cardinality(S) /\ Len(u.file) = Cardinality(S) /\ Ready(u)
        /\ u.unique = [i \in DOMAIN Indexes |-> Indexes[i].isUnique]
        /\ \A n \in S : u.file[Rank(S, n)] = t.file[n]
        /\ \A i \in 1..N, x \in Vals :
             Holds(u, i, x) <=> \E n \in S : KeyOf(i, t.file[n].vals) = KeyOf(i, x)
    BY DEF Copied, S
  <2>9. /\ Ready(w) /\ w.unique = u.unique
        /\ Len(w.file) = Cardinality(T) /\ w.numRecords = Cardinality(T)
    BY <2>3, <2>7, <2>8 DEF RowAdded
  <2>10. ASSUME NEW n \in T PROVE w.file[Rank(T, n)] = t.file[n]
    <3>1. CASE n = k + 1
      BY <2>2, <2>3, <2>7, <2>8, <3>1 DEF RowAdded
    <3>2. CASE n \in S
      BY <2>3, <2>4, <2>7, <2>8, <3>2 DEF RowAdded
    <3> QED BY <2>5, <3>1, <3>2
  <2>11. ASSUME NEW i \in 1..N, NEW x \in Vals
         PROVE  Holds(w, i, x) <=> \E n \in T : KeyOf(i, t.file[n].vals) = KeyOf(i, x)
    <3>1. Holds(w, i, x) <=> Holds(u, i, x) \/ KeyOf(i, x) = KeyOf(i, v)
      BY <2>7 DEF RowAdded
    <3> QED BY <2>5, <2>8, <3>1 DEF v
  <2>12. Copied(t, k + 1, w)
    BY <2>8, <2>9, <2>10, <2>11 DEF Copied, T
  <2> QED BY <2>12 DEF w
<1> QED BY <1>2, <1>3

(* The last record is refused when it is visited again.                    *)
HasUnique == \E i \in FieldIndexes : Indexes[i].isUnique

LEMMA CopyRefused ==
  ASSUME HasUnique, NEW t, Base(t), NEW u, Copied(t, t.numRecords, u)
  PROVE  LET w == PackRecord(t, u, t.numRecords)
         IN w.ok /\ w.file = u.file /\ w.numRecords = u.numRecords /\ Base(w)
<1> DEFINE c == t.numRecords
           v == t.file[c].vals
<1>1. Ready(u) /\ u.ok
  BY DEF Copied, Ready
<1>2. CASE ~Live(t, c)
  BY <1>1, <1>2 DEF PackRecord, Ready
<1>3. CASE Live(t, c)
  <2>1. c \in 1..c /\ v \in Vals
    <3>1. t.file[c] \in Record /\ c \in Nat /\ c >= 1
      BY <1>3, TblFields, LenProperties, ElementOfSeq DEF Base, Live
    <3> QED BY <3>1 DEF Record
  <2>2. PICK i \in FieldIndexes : Indexes[i].isUnique
    BY DEF HasUnique
  <2>3. i \in 1..N /\ u.unique[i]
    BY <2>2, FieldFacts, IndexFacts DEF Copied
  <2>4. c \in LiveUpTo(t, c)
    BY <1>3, <2>1 DEF LiveUpTo
  <2>5. Holds(u, i, v)
    BY <2>1, <2>3, <2>4 DEF Copied
  <2>6. Clash(u, v)
    BY <2>2, <2>3, <2>5 DEF Clash
  <2>7. PackRecord(t, u, c) = PackOne(u, v)
    BY <1>1, <1>3 DEF PackRecord
  <2> HIDE DEF c, v
  <2>8. LET w == PackOne(u, v)
        IN w.ok /\ w.file = u.file /\ w.numRecords = u.numRecords /\ Base(w)
    BY <1>1, <2>1, <2>6, PackOneSkips
  <2> QED BY <2>7, <2>8 DEF c
<1> QED BY <1>2, <1>3

LEMMA VisitedPlaces ==
  ASSUME NEW t, Base(t)
  PROVE  LET c == t.numRecords
             K == Len(Visited(t))
         IN /\ c \in Nat /\ K \in {c, c + 1}
            /\ \A n \in 1..c : Visited(t)[n] = n
            /\ K = c + 1 => Visited(t)[c + 1] = c
<1> DEFINE c == t.numRecords
           q == [n \in 1..c |-> n]
           e == IF t.numRecords - LastBuffered(t) > TABLE_BUFFER_SIZE
                  THEN <<t.numRecords>> ELSE <<>>
<1>1. c \in Nat
  BY TblFields DEF Base
<1>2. q \in Seq(Nat) /\ Len(q) = c /\ \A n \in 1..c : q[n] = n
  BY <1>1, IsASeq, LenProperties
<1>3. e = <<c>> \/ e = <<>>
  OBVIOUS
<1>4. /\ <<c>> \in Seq(Nat) /\ Len(<<c>>) = 1 /\ <<c>>[1] = c
      /\ <<>> \in Seq(Nat) /\ Len(<<>>) = 0
  BY <1>1, EmptySeq
<1>5. Visited(t) = q \o e
  BY DEF Visited
<1> HIDE DEF q, e
<1>6. e \in Seq(Nat) /\ Len(e) \in {0, 1} /\ (Len(e) = 1 => e[1] = c)
  <2>1. CASE e = <<c>>
    <3>1. Len(e) = 1 /\ e[1] = c /\ e \in Seq(Nat)
      BY <1>4, <2>1, Zenon
    <3> QED BY <3>1
  <2>2. CASE e = <<>>
    <3>1. Len(e) = 0 /\ e \in Seq(Nat)
      BY <1>4, <2>2, Zenon
    <3> QED BY <3>1
  <2> QED BY <1>3, <2>1, <2>2
<1>7. /\ Len(q \o e) = Len(q) + Len(e)
      /\ \A i \in 1..Len(q) + Len(e) :
           (q \o e)[i] = IF i <= Len(q) THEN q[i] ELSE e[i - Len(q)]
  BY <1>2, <1>6, ConcatProperties
<1> DEFINE V == q \o e
<1> HIDE DEF V
<1>8. Len(V) = c + Len(e) /\ \A i \in 1..c + Len(e) : V[i] = IF i <= c THEN q[i] ELSE e[i - c]
  BY <1>2, <1>7 DEF V
<1> HIDE DEF c
<1>9. Len(V) \in {c, c + 1}
  BY <1>1, <1>6, <1>8
<1>10. \A n \in 1..c : V[n] = n
  <2>1. \A n \in 1..c : n \in 1..c + Len(e) /\ n <= c
    BY <1>1, <1>6
  <2> QED BY <1>2, <1>8, <2>1
<1>11. Len(V) = c + 1 => V[c + 1] = c
  <2>1. SUFFICES ASSUME Len(V) = c + 1 PROVE V[c + 1] = c
    OBVIOUS
  <2>2. Len(e) = 1
    BY <1>1, <1>6, <1>8, <2>1
  <2>3. c + 1 \in 1..c + 1 /\ ~(c + 1 <= c) /\ (c + 1) - c = 1
    BY <1>1
  <2> QED BY <1>6, <1>8, <2>2, <2>3
<1>12. Visited(t) = V
  BY <1>5 DEF V
<1> HIDE DEF V
<1> QED BY <1>1, <1>9, <1>10, <1>11, <1>12 DEF c

(* What packTable makes of a table with a unique index of a field.         *)
LEMMA PackTableCopies ==
  ASSUME HasUnique, NEW t, Ready(t), Intact(t, t.numRecords)
  PROVE  LET u == PackTable(t)
             live == LiveRecords(t)
         IN /\ u.ok
            /\ Len(u.file) = Cardinality(live) /\ u.numRecords = Cardinality(live)
            /\ \A n \in live : u.file[Rank(live, n)] = t.file[n]
<1> DEFINE c == t.numRecords
           K == Len(Visited(t))
           V == Visited(t)
<1>1. Base(t)
  BY DEF Ready
<1>2. /\ c \in Nat /\ K \in {c, c + 1} /\ \A n \in 1..c : V[n] = n
      /\ K = c + 1 => V[c + 1] = c
  BY <1>1, VisitedPlaces
<1>3. PICK f : PackRuns(t, f, K)
  BY PackTableRuns
<1> DEFINE P == {k \in Nat : k <= c => Copied(t, k, f[k])}
<1>4. 0 \in P
  <2>1. f[0] = NewTable(t)
    BY <1>3 DEF PackRuns
  <2>2. Copied(t, 0, f[0])
    BY <2>1, NewTableMakes, CopyStarts
  <2> QED BY <2>2
<1>5. ASSUME NEW k \in Nat, k \in P PROVE k + 1 \in P
  <2>1. SUFFICES ASSUME k + 1 <= c PROVE Copied(t, k + 1, f[k + 1])
    OBVIOUS
  <2>2. Copied(t, k, f[k])
    BY <1>2, <1>5, <2>1
  <2>3. k + 1 \in 1..c /\ k + 1 \in 1..K /\ (k + 1) - 1 = k
    <3> HIDE DEF K, c
    <3> QED BY <1>2, <2>1
  <2> HIDE DEF P, K, V
  <2>4. f[k + 1] = PackRecord(t, f[k], k + 1)
    <3>1. \A i \in 1..K : f[i] = PackRecord(t, f[i - 1], V[i])
      BY <1>3 DEF PackRuns, V
    <3>2. f[k + 1] = PackRecord(t, f[(k + 1) - 1], V[k + 1])
      BY <2>3, <3>1
    <3> QED BY <1>2, <2>3, <3>2
  <2>5. Copied(t, k + 1, PackRecord(t, f[k], k + 1))
    BY <1>1, <2>1, <2>2, CopyGoesOn
  <2> QED BY <2>4, <2>5
<1> HIDE DEF P
<1>6. c \in P
  BY <1>2, <1>4, <1>5, NumberInduction
<1>7. Copied(t, c, f[c])
  BY <1>2, <1>6 DEF P
<1> DEFINE a == f[K]
<1>8. a.ok /\ a.file = f[c].file /\ a.numRecords = f[c].numRecords /\ Base(a)
  <2> HIDE DEF K, V
  <2>1. CASE K = c
    BY <1>7, <2>1 DEF Copied, Ready
  <2>2. CASE K = c + 1
    <3>1. \A i \in 1..K : f[i] = PackRecord(t, f[i - 1], V[i])
      BY <1>3 DEF PackRuns, V
    <3> HIDE DEF c
    <3>2. c + 1 \in 1..K /\ (c + 1) - 1 = c /\ V[c + 1] = c
      BY <1>2, <2>2
    <3>3. f[K] = PackRecord(t, f[c], c)
      BY <2>2, <3>1, <3>2
    <3>4. LET w == PackRecord(t, f[c], c)
          IN w.ok /\ w.file = f[c].file /\ w.numRecords = f[c].numRecords /\ Base(w)
      BY <1>1, <1>7, CopyRefused DEF c
    <3> QED BY <3>3, <3>4
  <2> QED BY <1>2, <2>1, <2>2
<1>9. PackTable(t) = IF a.ok THEN Fresh(StoreTableHeader(a))
                     ELSE [CloseTable(Unindexed(t)) EXCEPT
                             !.ok = FALSE, !.dbError = a.dbError, !.idxError = a.idxError]
  BY <1>3 DEF PackRuns
<1> HIDE DEF a
<1> DEFINE x == StoreTableHeader(a)
           u == Fresh(x)
<1>10. PackTable(t) = u
  BY <1>8, <1>9
<1>11. Base(x) /\ x.header = a.numRecords /\ x.file = a.file
  BY <1>8, StoreMakes
<1> HIDE DEF x
<1>12. u.ok /\ u.file = a.file /\ u.numRecords = a.numRecords
  BY <1>11, FreshMakes DEF Renewed
<1> HIDE DEF u
<1>13. LiveUpTo(t, c) = LiveRecords(t)
  BY DEF LiveUpTo, LiveRecords
<1> QED BY <1>7, <1>8, <1>10, <1>12, <1>13 DEF Copied

(* packTable keeps the live records of an intact table, each once and in   *)
(* their order, however many there are and whatever the buffer is.  The    *)
(* hypothesis is what saves it: the record that is read twice (cdbpack.c)  *)
(* is refused by a unique index; without one it is there twice.            *)
THEOREM PackKept ==
  ASSUME HasUnique
  PROVE  Spec => PackKeepsTheLive
<1> DEFINE Packs ==
      intact /\ Pack =>
        LET live == LiveRecords(tbl)
        IN /\ tbl'.ok
           /\ Len(tbl'.file) = Cardinality(live) /\ tbl'.numRecords = Cardinality(live)
           /\ \A n \in live : tbl'.file[Rank(live, n)] = tbl.file[n]
<1>1. TblInv /\ [Next]_vars => [Packs]_vars
  <2>1. SUFFICES ASSUME TblInv, intact, Pack PROVE Packs
    OBVIOUS
  <2>2. Well("open", intact, tbl) /\ tbl.dbError = "DB_NOERROR"
    BY <2>1 DEF TblInv, Pack, MayCall, NoError
  <2> DEFINE b == Begin(tbl)
  <2>3. Begun(tbl, b)
    BY <2>2, CallBegins
  <2>4. tbl' = PackTable(b)
    BY <2>1 DEF Pack
  <2> HIDE DEF b
  <2>5. Ready(b) /\ Intact(b, b.numRecords)
    <3>1. Intact(tbl, tbl.numRecords)
      BY <2>1, <2>2 DEF Well, KeepsIndexes, HasUnique
    <3> QED BY <2>3, <3>1, SameIntact DEF Begun
  <2>6. LiveRecords(b) = LiveRecords(tbl) /\ b.file = tbl.file
    BY <2>3 DEF Begun, LiveRecords, Live
  <2> DEFINE u == PackTable(b)
  <2>7. LET live == LiveRecords(b)
        IN /\ u.ok
           /\ Len(u.file) = Cardinality(live) /\ u.numRecords = Cardinality(live)
           /\ \A n \in live : u.file[Rank(live, n)] = b.file[n]
    BY <2>5, PackTableCopies
  <2> HIDE DEF u
  <2> QED BY <2>4, <2>6, <2>7 DEF u
<1>2. Spec => [][Packs]_vars
  <2> HIDE DEF Packs
  <2> QED BY <1>1, TableWell, PTL DEF Spec
<1> QED BY <1>2 DEF PackKeepsTheLive

-----------------------------------------------------------------------------
(* massAddRecords adds a record, or puts it on the list it returns.        *)
LEMMA MassAddOneAdds ==
  ASSUME NEW u, Ready(u), NEW v \in Vals, \A i \in 1..N : u.unique[i] => ~Holds(u, i, v)
  PROVE  RowAdded(u, v, MassAddOne(u, v))
<1> DEFINE s == [u EXCEPT !.marked = FALSE]
           a == AddDBIndexes(s, v)
           b == AppendRecord(a, v)
<1>1. /\ Base(s) /\ s.file = u.file /\ s.index = u.index /\ s.numRecords = u.numRecords
      /\ s.ok = u.ok /\ s.dbError = u.dbError /\ s.idxError = u.idxError
      /\ s.unique = u.unique /\ s.rejected = u.rejected /\ ~s.marked
  BY Unmarked DEF Ready
<1>2. a.ok /\ b.dbError = "DB_NOERROR" => MassAddOne(u, v) = b
  BY DEF MassAddOne
<1> HIDE DEF s
<1>3. Ready(s) /\ \A i \in 1..N : s.unique[i] => ~Holds(s, i, v)
  BY <1>1 DEF Ready, Holds
<1>4. a.ok /\ RowAdded(s, v, b)
  BY <1>1, <1>3, RowMakes
<1> HIDE DEF a, b
<1>5. RowAdded(u, v, b) /\ b.dbError = "DB_NOERROR"
  BY <1>1, <1>4 DEF RowAdded, Holds, Ready
<1> QED BY <1>2, <1>4, <1>5

RowRefused(u, v, w) ==
  /\ Ready(w) /\ w.unique = u.unique /\ w.file = u.file /\ w.numRecords = u.numRecords
  /\ w.index = u.index /\ w.rejected = Append(u.rejected, v)

LEMMA MassAddOneRefuses ==
  ASSUME NEW u, Ready(u), NEW v \in Vals, Clash(u, v)
  PROVE  RowRefused(u, v, MassAddOne(u, v))
<1> DEFINE s == [u EXCEPT !.marked = FALSE]
           a == AddDBIndexes(s, v)
           z == Append(a.rejected, v)
           x == [[a EXCEPT !.ok = TRUE] EXCEPT !.rejected = z]
           w == [[x EXCEPT !.dbError = "DB_NOERROR"] EXCEPT !.idxError = "IDX_NOERR"]
<1>1. /\ Base(s) /\ s.file = u.file /\ s.index = u.index /\ s.numRecords = u.numRecords
      /\ s.ok = u.ok /\ s.unique = u.unique /\ s.rejected = u.rejected
  BY Unmarked DEF Ready
<1>2. ~a.ok /\ a.dbError = "DB_UNIQUE" =>
        MassAddOne(u, v) = [a EXCEPT !.ok = TRUE, !.rejected = Append(@, v),
                                     !.dbError = "DB_NOERROR", !.idxError = "IDX_NOERR"]
  BY DEF MassAddOne
<1> HIDE DEF s
<1>3. s \in Tbl /\ s.ok /\ Clash(s, v)
  BY <1>1 DEF Ready, Base, Clash, Holds
<1>4. a \in Tbl /\ Same(s, a) /\ ~a.ok /\ a.dbError = "DB_UNIQUE" /\ a.index = s.index
  BY <1>3, AddClashes
<1> HIDE DEF a
<1>5. z \in Seq(Vals)
  BY <1>4, TblFields, AppendProperties
<1>6. MassAddOne(u, v) = [a EXCEPT !.ok = TRUE, !.rejected = z,
                                   !.dbError = "DB_NOERROR", !.idxError = "IDX_NOERR"]
  BY <1>2, <1>4
<1>7. z = Append(u.rejected, v)
  BY <1>1, <1>4 DEF Same
<1> HIDE DEF z
<1>8. w = [a EXCEPT !.ok = TRUE, !.rejected = z,
                    !.dbError = "DB_NOERROR", !.idxError = "IDX_NOERR"]
  BY <1>4 DEF Tbl
<1>9. w \in Tbl
  <2>1. "DB_NOERROR" \in DbErrors /\ TRUE \in BOOLEAN /\ "IDX_NOERR" \in IdxErrors
    BY DEF DbErrors, IdxErrors
  <2> DEFINE y == [a EXCEPT !.ok = TRUE]
  <2>2. y \in Tbl
    BY <1>4, <2>1, FieldChanges
  <2> HIDE DEF y
  <2>3. [y EXCEPT !.rejected = z] \in Tbl
    BY <1>5, <2>2, FieldChanges
  <2>4. x \in Tbl
    BY <2>3 DEF y
  <2> HIDE DEF x
  <2> DEFINE d == [x EXCEPT !.dbError = "DB_NOERROR"]
  <2>5. d \in Tbl
    BY <2>1, <2>4, FieldChanges
  <2> HIDE DEF d
  <2>6. [d EXCEPT !.idxError = "IDX_NOERR"] \in Tbl
    BY <2>1, <2>5, FieldChanges
  <2> QED BY <2>6 DEF d
<1>10. /\ w.ok /\ w.file = a.file /\ w.numRecords = a.numRecords /\ w.header = a.header
       /\ w.unique = a.unique /\ w.index = a.index /\ w.rejected = z
       /\ w.dbError = "DB_NOERROR" /\ w.idxError = "IDX_NOERR"
  BY <1>4 DEF Tbl
<1> HIDE DEF w
<1>11. Ready(w)
  BY <1>1, <1>4, <1>9, <1>10 DEF Same, Base, Ready
<1>12. RowRefused(u, v, w)
  BY <1>1, <1>4, <1>7, <1>10, <1>11 DEF RowRefused, Same
<1> QED BY <1>6, <1>8, <1>12

(* Index i is the one that refuses duplicates.                             *)
OnlyUnique(t, i) == i \in FieldIndexes /\ \A j \in 1..N : t.unique[j] <=> i = j

(* The first k records of the list are split: those with a key that is     *)
(* taken, and the others.                                                  *)
TakenIn(t, i, list, j) ==
  \/ \E n \in 1..t.numRecords : KeyOf(i, t.file[n].vals) = KeyOf(i, list[j])
  \/ \E m \in 1..j - 1 : KeyOf(i, list[m]) = KeyOf(i, list[j])

Refused(t, i, list, k)  == {j \in 1..k : TakenIn(t, i, list, j)}
Accepted(t, i, list, k) == (1..k) \ Refused(t, i, list, k)

SplitIn(t, list, R, A, u) ==
  /\ Len(u.rejected) = Cardinality(R)
  /\ \A j \in R : u.rejected[Rank(R, j)] = list[j]
  /\ u.numRecords = t.numRecords + Cardinality(A)
  /\ \A n \in 1..t.numRecords : u.file[n] = t.file[n]
  /\ \A j \in A : u.file[t.numRecords + Rank(A, j)] = [deleted |-> FALSE, vals |-> list[j]]

Split(t, i, list, k, u) ==
  /\ Ready(u) /\ u.unique = t.unique
  /\ SplitIn(t, list, Refused(t, i, list, k), Accepted(t, i, list, k), u)
  /\ \A w \in Vals :
       Holds(u, i, w) <=>
         \/ \E n \in 1..t.numRecords : KeyOf(i, t.file[n].vals) = KeyOf(i, w)
         \/ \E m \in 1..k : KeyOf(i, list[m]) = KeyOf(i, w)

LEMMA SplitStarts ==
  ASSUME NEW t, Ready(t), Intact(t, t.numRecords), t.rejected = <<>>,
         NEW i \in FieldIndexes, NEW list
  PROVE  Split(t, i, list, 0, t)
<1> DEFINE c == t.numRecords
<1>1. Refused(t, i, list, 0) = {} /\ Accepted(t, i, list, 0) = {} /\ Cardinality({}) = 0
  BY CountIs, CountNone DEF Refused, Accepted
<1>2. Len(t.rejected) = 0 /\ c \in Nat /\ c <= Len(t.file) /\ t \in Tbl
  BY EmptySeq, TblFields DEF Ready, Base
<1>3. SplitIn(t, list, {}, {}, t)
  BY <1>1, <1>2 DEF SplitIn
<1>4. ASSUME NEW w \in Vals
      PROVE  Holds(t, i, w) <=> \E n \in 1..c : KeyOf(i, t.file[n].vals) = KeyOf(i, w)
  <2> DEFINE W == Values(t, c)
  <2>1. i \in 1..N
    BY FieldFacts
  <2>2. W \in [1..c -> Vals] /\ \A n \in 1..c : W[n] = t.file[n].vals
    BY <1>2, ValuesFacts
  <2>3. t.index[i] = SetToBag(Rows(i, W))
    BY <2>1 DEF Intact, Listing
  <2> HIDE DEF W, c
  <2>4. Holds(t, i, w) <=> \E n \in 1..c : KeyOf(i, W[n]) = KeyOf(i, w)
    BY <1>2, <2>1, <2>2, <2>3, ListedKeys
  <2> QED BY <2>2, <2>4
<1>5. SplitIn(t, list, Refused(t, i, list, 0), Accepted(t, i, list, 0), t)
  BY <1>1, <1>3
<1>6. \A m \in 1..0 : FALSE
  OBVIOUS
<1> QED BY <1>4, <1>5, <1>6 DEF Split

LEMMA SplitGoesOn ==
  ASSUME NEW t, Ready(t), NEW i, OnlyUnique(t, i), NEW list \in Seq(Vals),
         NEW k \in Nat, k + 1 <= Len(list), NEW u, Split(t, i, list, k, u)
  PROVE  Split(t, i, list, k + 1, MassAddOne(u, list[k + 1]))
<1> DEFINE v == list[k + 1]
           R == Refused(t, i, list, k)
           A == Accepted(t, i, list, k)
           w == MassAddOne(u, v)
           c == t.numRecords
           Q == Refused(t, i, list, k + 1)
           B == Accepted(t, i, list, k + 1)
<1>1. v \in Vals /\ i \in 1..N /\ c \in Nat
  <2>1. k + 1 \in 1..Len(list)
    BY LenProperties
  <2>2. v \in Vals
    BY <2>1, ElementOfSeq
  <2> QED BY <2>2, FieldFacts, TblFields DEF OnlyUnique, Ready, Base
<1>2. R \in SUBSET (1..k) /\ A \in SUBSET (1..k)
  BY DEF Refused, Accepted
<1>3. /\ Ready(u) /\ u.unique = t.unique /\ SplitIn(t, list, R, A, u)
      /\ \A x \in Vals :
           Holds(u, i, x) <=>
             \/ \E n \in 1..c : KeyOf(i, t.file[n].vals) = KeyOf(i, x)
             \/ \E m \in 1..k : KeyOf(i, list[m]) = KeyOf(i, x)
  BY DEF Split
<1>4. TakenIn(t, i, list, k + 1) <=> Holds(u, i, v)
  <2>1. (k + 1) - 1 = k
    OBVIOUS
  <2> QED BY <1>1, <1>3, <2>1 DEF TakenIn
<1>5. \A m : m \in 1..k + 1 <=> m \in 1..k \/ m = k + 1
  OBVIOUS
<1>6. /\ Cardinality(R) \in Nat /\ \A j \in R : Rank(R, j) \in 1..Cardinality(R)
      /\ Cardinality(A) \in Nat /\ \A j \in A : Rank(A, j) \in 1..Cardinality(A)
  <2> HIDE DEF R, A
  <2> QED BY <1>2, RankFacts
<1>7. k + 1 \notin 1..k
  OBVIOUS
<1>8. CASE Holds(u, i, v)
  <2>1. Clash(u, v)
    BY <1>1, <1>3, <1>8 DEF Clash, OnlyUnique
  <2>2. RowRefused(u, v, w)
    BY <1>1, <1>3, <2>1, MassAddOneRefuses
  <2>3. Q = R \cup {k + 1} /\ B = A
    BY <1>4, <1>5, <1>7, <1>8 DEF Refused, Accepted
  <2>4. /\ Cardinality(Q) = Cardinality(R) + 1 /\ Rank(Q, k + 1) = Cardinality(Q)
        /\ \A n \in R : Rank(Q, n) = Rank(R, n)
    <3> HIDE DEF Q, R
    <3> QED BY <1>2, <2>3, RankGrows
  <2> HIDE DEF R, A, Q, B, w
  <2>5. /\ Len(w.rejected) = Len(u.rejected) + 1 /\ w.rejected[Len(u.rejected) + 1] = v
        /\ \A m \in 1..Len(u.rejected) : w.rejected[m] = u.rejected[m]
    <3>1. u.rejected \in Seq(Vals)
      BY <1>3, TblFields DEF Ready, Base
    <3> QED BY <1>1, <2>2, <3>1, AppendProperties DEF RowRefused
  <2>6. ASSUME NEW j \in Q PROVE w.rejected[Rank(Q, j)] = list[j]
    <3>1. CASE j = k + 1
      BY <1>3, <2>4, <2>5, <3>1 DEF SplitIn
    <3>2. CASE j \in R
      BY <1>3, <1>6, <2>4, <2>5, <3>2 DEF SplitIn
    <3> QED BY <2>3, <3>1, <3>2
  <2>7. SplitIn(t, list, Q, B, w)
    BY <1>3, <2>2, <2>3, <2>4, <2>5, <2>6 DEF SplitIn, RowRefused
  <2>8. ASSUME NEW x \in Vals
        PROVE  Holds(w, i, x) <=>
                 \/ \E n \in 1..c : KeyOf(i, t.file[n].vals) = KeyOf(i, x)
                 \/ \E m \in 1..k + 1 : KeyOf(i, list[m]) = KeyOf(i, x)
    <3>1. Holds(w, i, x) <=> Holds(u, i, x)
      BY <2>2 DEF RowRefused, Holds
    <3>2. KeyOf(i, list[k + 1]) = KeyOf(i, x) => Holds(u, i, x)
      BY <1>8 DEF Holds
    <3> QED BY <1>3, <1>5, <3>1, <3>2
  <2>9. Ready(w) /\ w.unique = t.unique
    BY <1>3, <2>2 DEF RowRefused
  <2> QED BY <2>7, <2>8, <2>9 DEF Split, Q, B, w
<1>9. CASE ~Holds(u, i, v)
  <2>1. \A j \in 1..N : u.unique[j] => ~Holds(u, j, v)
    BY <1>3, <1>9 DEF OnlyUnique
  <2>2. RowAdded(u, v, w)
    BY <1>1, <1>3, <2>1, MassAddOneAdds
  <2>3. Q = R /\ B = A \cup {k + 1}
    BY <1>4, <1>5, <1>7, <1>9 DEF Refused, Accepted
  <2>4. /\ Cardinality(B) = Cardinality(A) + 1 /\ Rank(B, k + 1) = Cardinality(B)
        /\ \A n \in A : Rank(B, n) = Rank(A, n)
    <3> HIDE DEF A, B
    <3> QED BY <1>2, <2>3, RankGrows
  <2> HIDE DEF R, A, Q, B, w
  <2>5. /\ u.numRecords = c + Cardinality(A) /\ w.numRecords = u.numRecords + 1
        /\ \A n \in 1..u.numRecords : w.file[n] = u.file[n]
        /\ w.file[u.numRecords + 1] = [deleted |-> FALSE, vals |-> v]
        /\ w.rejected = u.rejected
    BY <1>3, <2>2 DEF SplitIn, RowAdded
  <2> HIDE DEF c
  <2>6. ASSUME NEW j \in B PROVE w.file[c + Rank(B, j)] = [deleted |-> FALSE, vals |-> list[j]]
    <3>1. CASE j = k + 1
      <4>1. c + Rank(B, j) = u.numRecords + 1
        BY <1>1, <1>6, <2>4, <2>5, <3>1
      <4> QED BY <2>5, <3>1, <4>1
    <3>2. CASE j \in A
      <4>1. c + Rank(A, j) \in 1..u.numRecords
        <5>1. Rank(A, j) \in 1..Cardinality(A)
          BY <1>6, <3>2
        <5> QED BY <1>1, <1>6, <2>5, <5>1
      <4>2. u.file[c + Rank(A, j)] = [deleted |-> FALSE, vals |-> list[j]]
        BY <1>3, <3>2 DEF SplitIn, c
      <4> QED BY <2>4, <2>5, <3>2, <4>1, <4>2
    <3> QED BY <2>3, <3>1, <3>2
  <2>7. \A n \in 1..c : w.file[n] = t.file[n]
    <3>1. \A n \in 1..c : n \in 1..u.numRecords
      BY <1>1, <1>6, <2>5
    <3> QED BY <1>3, <2>5, <3>1 DEF SplitIn, c
  <2>8. SplitIn(t, list, Q, B, w)
    <3>1. w.numRecords = c + Cardinality(B)
      BY <1>1, <1>6, <2>4, <2>5
    <3> QED BY <1>3, <2>3, <2>5, <2>6, <2>7, <3>1 DEF SplitIn, c
  <2>9. ASSUME NEW x \in Vals
        PROVE  Holds(w, i, x) <=>
                 \/ \E n \in 1..c : KeyOf(i, t.file[n].vals) = KeyOf(i, x)
                 \/ \E m \in 1..k + 1 : KeyOf(i, list[m]) = KeyOf(i, x)
    <3>1. Holds(w, i, x) <=> Holds(u, i, x) \/ KeyOf(i, x) = KeyOf(i, v)
      BY <1>1, <2>2 DEF RowAdded
    <3> QED BY <1>3, <1>5, <3>1
  <2>10. Ready(w) /\ w.unique = t.unique
    BY <1>3, <2>2 DEF RowAdded
  <2> QED BY <2>8, <2>9, <2>10 DEF Split, Q, B, w, c
<1> QED BY <1>8, <1>9

LEMMA MassAddRecordsSplit ==
  ASSUME NEW t, Ready(t), Intact(t, t.numRecords), t.rejected = <<>>,
         NEW i, OnlyUnique(t, i), NEW list \in Seq(Vals)
  PROVE  LET u == MassAddRecords(t, list)
             K == Len(list)
         IN u.ok /\ SplitIn(t, list, Refused(t, i, list, K), Accepted(t, i, list, K), u)
<1> DEFINE K == Len(list)
<1>1. K \in Nat
  BY LenProperties
<1>2. PICK f : MassAddRuns(t, list, f, K)
  BY MassAddRecordsRuns
<1> DEFINE P == {k \in Nat : k <= K => Split(t, i, list, k, f[k])}
<1>3. 0 \in P
  <2>1. f[0] = t
    BY <1>2 DEF MassAddRuns
  <2> HIDE DEF K
  <2> QED BY <2>1, SplitStarts DEF OnlyUnique
<1>4. ASSUME NEW k \in Nat, k \in P PROVE k + 1 \in P
  <2>1. SUFFICES ASSUME k + 1 <= K PROVE Split(t, i, list, k + 1, f[k + 1])
    OBVIOUS
  <2>2. Split(t, i, list, k, f[k])
    BY <1>1, <1>4, <2>1
  <2>3. f[k].ok
    BY <2>2 DEF Split, Ready
  <2>4. k + 1 \in 1..K /\ (k + 1) - 1 = k
    BY <1>1, <2>1
  <2>5. \A j \in 1..K : f[j] = IF f[j - 1].ok THEN MassAddOne(f[j - 1], list[j]) ELSE f[j - 1]
    BY <1>2 DEF MassAddRuns
  <2>6. f[k + 1] = MassAddOne(f[k], list[k + 1])
    <3> HIDE DEF P, K
    <3>1. f[k + 1] = IF f[(k + 1) - 1].ok THEN MassAddOne(f[(k + 1) - 1], list[k + 1])
                     ELSE f[(k + 1) - 1]
      BY <2>4, <2>5
    <3> QED BY <2>3, <2>4, <3>1
  <2> HIDE DEF P
  <2>7. Split(t, i, list, k + 1, MassAddOne(f[k], list[k + 1]))
    BY <2>1, <2>2, SplitGoesOn
  <2> QED BY <2>6, <2>7
<1> HIDE DEF P
<1>5. K \in P
  BY <1>1, <1>3, <1>4, NumberInduction
<1> DEFINE a == f[K]
<1>6. Split(t, i, list, K, a)
  BY <1>1, <1>5 DEF P
<1>7. MassAddRecords(t, list) = IF a.ok THEN StoreTableHeader(a) ELSE a
  BY <1>2 DEF MassAddRuns
<1> HIDE DEF a
<1> DEFINE x == StoreTableHeader(a)
<1>8. MassAddRecords(t, list) = x
  BY <1>6, <1>7 DEF Split, Ready
<1>9. x.ok = a.ok /\ x.file = a.file /\ x.numRecords = a.numRecords /\ x.rejected = a.rejected
  BY <1>6, StoreMakes DEF Split, Ready
<1> HIDE DEF x, K
<1>10. x.ok /\ SplitIn(t, list, Refused(t, i, list, K), Accepted(t, i, list, K), x)
  BY <1>6, <1>9 DEF Split, SplitIn, Ready
<1> QED BY <1>8, <1>10 DEF K

(* massAddRecords succeeds on an intact table with one index that refuses  *)
(* duplicates, for every list and every number of records: the records     *)
(* with a key that is taken are returned, the others are behind the old    *)
(* ones, both in their order (cdbadd.c).                                   *)
THEOREM SplittingKept == Spec => MassAddSplits
<1> DEFINE Splits ==
      \A list \in prog.lists, i \in FieldIndexes :
        /\ intact /\ MassAdd(list)
        /\ \A j \in DOMAIN Indexes : tbl.unique[j] <=> i = j
        => LET taken == {j \in DOMAIN list : Taken(i, list, j)}
               added == DOMAIN list \ taken
           IN /\ tbl'.ok
              /\ Len(tbl'.rejected) = Cardinality(taken)
              /\ \A j \in taken : tbl'.rejected[Rank(taken, j)] = list[j]
              /\ tbl'.numRecords = tbl.numRecords + Cardinality(added)
              /\ \A n \in 1..tbl.numRecords : tbl'.file[n] = tbl.file[n]
              /\ \A j \in added : tbl'.file[tbl.numRecords + Rank(added, j)] =
                                  [deleted |-> FALSE, vals |-> list[j]]
<1>1. TblInv /\ [Next]_vars => [Splits]_vars
  <2>1. SUFFICES ASSUME TblInv, NEW list \in prog.lists, NEW i \in FieldIndexes,
                        intact, MassAdd(list),
                        \A j \in DOMAIN Indexes : tbl.unique[j] <=> i = j
                 PROVE  LET taken == {j \in DOMAIN list : Taken(i, list, j)}
                            added == DOMAIN list \ taken
                        IN /\ tbl'.ok
                           /\ Len(tbl'.rejected) = Cardinality(taken)
                           /\ \A j \in taken : tbl'.rejected[Rank(taken, j)] = list[j]
                           /\ tbl'.numRecords = tbl.numRecords + Cardinality(added)
                           /\ \A n \in 1..tbl.numRecords : tbl'.file[n] = tbl.file[n]
                           /\ \A j \in added : tbl'.file[tbl.numRecords + Rank(added, j)] =
                                               [deleted |-> FALSE, vals |-> list[j]]
    OBVIOUS
  <2>2. Well("open", intact, tbl) /\ tbl.dbError = "DB_NOERROR" /\ list \in Seq(Vals)
    BY <2>1, ProgramFacts DEF TblInv, MassAdd, MayCall, NoError
  <2> DEFINE b == Begin(tbl)
  <2>3. Begun(tbl, b)
    BY <2>2, CallBegins
  <2>4. b.rejected = <<>>
    BY <2>2 DEF Begin, Well, Base, Tbl
  <2>5. tbl' = MassAddRecords(b, list)
    BY <2>1 DEF MassAdd
  <2> HIDE DEF b
  <2>6. Ready(b) /\ Intact(b, b.numRecords)
    <3>1. Intact(tbl, tbl.numRecords)
      BY <2>1, <2>2 DEF Well, KeepsIndexes
    <3> QED BY <2>3, <3>1, SameIntact DEF Begun
  <2>7. OnlyUnique(b, i)
    BY <2>1, <2>3, IndexFacts DEF OnlyUnique, Begun
  <2> DEFINE R == Refused(b, i, list, Len(list))
             A == Accepted(b, i, list, Len(list))
  <2>8. tbl'.ok /\ SplitIn(b, list, R, A, tbl')
    <3> DEFINE u == MassAddRecords(b, list)
    <3>1. u.ok /\ SplitIn(b, list, R, A, u)
      BY <2>2, <2>4, <2>6, <2>7, MassAddRecordsSplit
    <3> HIDE DEF u, R, A
    <3> QED BY <2>5, <3>1 DEF u
  <2>9. DOMAIN list = 1..Len(list)
    BY <2>2, LenProperties
  <2>10. \A j : TakenIn(b, i, list, j) <=> Taken(i, list, j)
    BY <2>3 DEF Begun, TakenIn, Taken
  <2>11. R = {j \in DOMAIN list : Taken(i, list, j)} /\ A = DOMAIN list \ R
    BY <2>9, <2>10 DEF Refused, Accepted
  <2>12. b.file = tbl.file /\ b.numRecords = tbl.numRecords
    BY <2>3 DEF Begun
  <2> HIDE DEF R, A
  <2> QED BY <2>8, <2>11, <2>12 DEF SplitIn
<1>2. Spec => [][Splits]_vars
  <2> HIDE DEF Splits
  <2> QED BY <1>1, TableWell, PTL DEF Spec
<1> QED BY <1>2, PTL DEF MassAddSplits
=============================================================================
