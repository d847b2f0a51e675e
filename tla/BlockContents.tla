--------------------------- MODULE BlockContents ---------------------------
(***************************************************************************)
(* What the operations of IdxBlk keep, for every cache size, block         *)
(* capacity and set of pairs: the types of the cache and the file, with    *)
(* every block number naming a block of the file; the partition of the     *)
(* buffers into free and used; and one buffer at most for each block.      *)
(* Then what they do to the contents: the buffers, the file and the two    *)
(* lists after each operation, and what holds of the counts in the blocks  *)
(* and in the file.                                                        *)
(* Last, what each block holds, whether it is in a buffer or only in the   *)
(* file: reads, evictions and write backs change no block, a split and the *)
(* unlinking of a block change the list and the links they are meant to.   *)
(* And what the blocks a shell names hold together: the pairs, in the      *)
(* order of the shell, and the chain of links.                             *)
(***************************************************************************)
EXTENDS IdxBlk, ListFacts

-----------------------------------------------------------------------------
(* Sequences.                                                              *)

(* RemoveAt drops one element and moves up those behind it.                *)
LEMMA RemoveAtFacts ==
  ASSUME NEW S, NEW s \in Seq(S), NEW i \in 1..Len(s)
  PROVE  /\ RemoveAt(s, i) \in Seq(S)
         /\ Len(RemoveAt(s, i)) = Len(s) - 1
         /\ \A j \in 1..Len(s) - 1 :
              RemoveAt(s, i)[j] = IF j < i THEN s[j] ELSE s[j + 1]
<1> DEFINE a == SubSeq(s, 1, i - 1)
           b == SubSeq(s, i + 1, Len(s))
<1>1. /\ a \in Seq(S) /\ Len(a) = i - 1
      /\ \A j \in 1..i - 1 : a[j] = s[j]
  BY SubSeqProperties
<1>2. /\ b \in Seq(S) /\ Len(b) = Len(s) - i
      /\ \A j \in 1..Len(s) - i : b[j] = s[i + j]
  BY SubSeqProperties
<1>3. RemoveAt(s, i) = a \o b
  BY DEF RemoveAt
<1> HIDE DEF a, b
<1>4. /\ a \o b \in Seq(S)
      /\ Len(a \o b) = Len(a) + Len(b)
      /\ \A j \in 1..Len(a) + Len(b) : (a \o b)[j] = IF j <= Len(a) THEN a[j] ELSE b[j - Len(a)]
  BY <1>1, <1>2, ConcatProperties, Zenon
<1>5. Len(a \o b) = Len(s) - 1
  BY <1>1, <1>2, <1>4
<1>6. ASSUME NEW j \in 1..Len(s) - 1
      PROVE  (a \o b)[j] = IF j < i THEN s[j] ELSE s[j + 1]
  <2>1. (a \o b)[j] = IF j <= Len(a) THEN a[j] ELSE b[j - Len(a)]
    BY <1>1, <1>2, <1>4
  <2>2. CASE j < i
    BY <2>1, <2>2, <1>1
  <2>3. CASE ~(j < i)
    <3>1. j - (i - 1) \in 1..Len(s) - i /\ i + (j - (i - 1)) = j + 1
      BY <2>3
    <3>2. b[j - (i - 1)] = s[j + 1]
      BY <3>1, <1>2
    <3> QED BY <2>1, <2>3, <3>2, <1>1
  <2> QED BY <2>2, <2>3
<1> QED BY <1>3, <1>4, <1>5, <1>6

(* InsertAt makes a sequence.                                              *)
LEMMA InsertAtFacts ==
  ASSUME NEW S, NEW s \in Seq(S), NEW i \in 1..Len(s) + 1, NEW e \in S
  PROVE  InsertAt(s, i, e) \in Seq(S)
BY DEF InsertAt

(* Front drops the last element.                                           *)
LEMMA FrontFacts ==
  ASSUME NEW S, NEW s \in Seq(S), s # <<>>
  PROVE  /\ Front(s) \in Seq(S)
         /\ Len(Front(s)) = Len(s) - 1
         /\ \A j \in 1..Len(s) - 1 : Front(s)[j] = s[j]
         /\ Last(s) = s[Len(s)] /\ Last(s) \in S
<1>1. Len(s) \in Nat \ {0}
  BY EmptySeq
<1>2. Last(s) = s[Len(s)] /\ Last(s) \in S
  BY <1>1 DEF Last
<1>3. PICK n \in Nat : n = Len(s) - 1
  BY <1>1
<1>4. \A j \in 1..n : s[j] \in S
  BY <1>1, <1>3
<1>5. /\ SubSeq(s, 1, n) \in Seq(S)
      /\ Len(SubSeq(s, 1, n)) = (IF 1 <= n THEN n - 1 + 1 ELSE 0)
      /\ \A j \in 1..n - 1 + 1 : SubSeq(s, 1, n)[j] = s[1 + j - 1]
  BY <1>4, SubSeqProperties
<1>6. Len(SubSeq(s, 1, n)) = n
  BY <1>5
<1>7. ASSUME NEW j \in 1..n
      PROVE  SubSeq(s, 1, n)[j] = s[j]
  <2>1. j \in 1..n - 1 + 1 /\ 1 + j - 1 = j
    OBVIOUS
  <2> QED BY <2>1, <1>5
<1> QED BY <1>2, <1>3, <1>5, <1>6, <1>7 DEF Front

-----------------------------------------------------------------------------
(* What the operations keep.                                               *)

(* x is an index whose file has n blocks.                                  *)
Ok(x, n) == n \in Nat \ {0} /\ x \in BlockFile(n) /\ Len(x.disk) = n

(* The buffers of the pool, and what must be true of them.                 *)
Size(x)  == Len(x.free) + Len(x.used)
Sound(x) ==
  Distinct(x.free) /\ Distinct(x.used) /\ Disjoint(x.free, x.used) /\ OneBufferPerBlock(x)

(* From x to y only the contents of buffers and of the file change.        *)
SamePool(x, y) ==
  /\ y.free = x.free /\ y.used = x.used
  /\ y.lastBlock = x.lastBlock /\ y.diskLast = x.diskLast
  /\ \A b \in Buffers : y.buf[b].blockNumber = x.buf[b].blockNumber

(* A buffer c that becomes d keeps its block.                              *)
Remade(c, d, n) == d \in Buffer(n) /\ d.blockNumber = c.blockNumber

-----------------------------------------------------------------------------
(* Types of the blocks and buffers.                                        *)

(* All bytes 0, the control block and a new buffer are well formed.        *)
LEMMA InitialTypes ==
  ASSUME NEW n \in Nat \ {0}
  PROVE  ZeroImage \in Image(n) /\ ControlBlock \in Image(n) /\ NewBuffer \in Buffer(n)
<1>1. <<>> \in Items
  BY DEF Items
<1>2. ZeroImage \in Image(n) /\ ControlBlock \in Image(n)
  BY <1>1 DEF ZeroImage, ControlBlock, HEADER, Image
<1> QED BY <1>1, <1>2 DEF NewBuffer, Buffer, UNSET

(* A longer file has every block number of a shorter one.                  *)
LEMMA LongerFile ==
  ASSUME NEW n \in Nat \ {0}
  PROVE  /\ \A i \in Image(n) : i \in Image(n + 1)
         /\ \A c \in Buffer(n) : c \in Buffer(n + 1)
<1>1. ASSUME NEW i \in Image(n) PROVE i \in Image(n + 1)
  BY <1>1 DEF Image
<1>2. ASSUME NEW c \in Buffer(n) PROVE c \in Buffer(n + 1)
  BY <1>1, <1>2 DEF Buffer
<1> QED BY <1>1, <1>2

(* blockToList makes numKeyItems pairs, whatever the image holds.          *)
LEMMA BlockToListType ==
  ASSUME NEW n \in Nat \ {0}, NEW i \in Image(n)
  PROVE  BlockToList(i) \in Items
<1>1. i.numKeyItems \in Int /\ i.items \in Items
  BY DEF Image
<1> DEFINE f == BlockToList(i)
<1>2. \A k \in 1..i.numKeyItems : f[k] \in KeyItem \cup {Zeros}
  BY <1>1 DEF BlockToList, Items
<1>3. CASE i.numKeyItems \in Nat
  <2>1. f \in [1..i.numKeyItems -> KeyItem \cup {Zeros}]
    BY <1>2 DEF BlockToList
  <2> QED BY <2>1, <1>3, SeqDef DEF Items
<1>4. CASE i.numKeyItems < 0
  <2>1. 1..i.numKeyItems = {}
    BY <1>1, <1>4
  <2>2. f = <<>>
    BY <2>1 DEF BlockToList
  <2> QED BY <2>2 DEF Items
<1> QED BY <1>1, <1>3, <1>4

(* The two halves of a list.                                               *)
LEMMA HalvesType ==
  ASSUME NEW l \in Items
  PROVE  SubSeq(l, 1, Kept(l)) \in Items /\ Moved(l) \in Items
<1>1. Len(l) \in Nat
  BY DEF Items
<1>2. Kept(l) \in Nat /\ Kept(l) <= Len(l)
  BY <1>1 DEF Kept
<1> QED BY <1>1, <1>2 DEF Items, Moved

(* What is done to the contents of a buffer leaves it one, of its block.   *)
LEMMA ContentTypes ==
  ASSUME NEW n \in Nat \ {0}, NEW c \in Buffer(n)
  PROVE  /\ Remade(c, ListToBlock(c), n) /\ Remade(c, ClearList(c), n)
         /\ Remade(c, BottomHalf(c), n) /\ Remade(c, Sized(c), n)
         /\ Remade(c, Counted(c), n)
         /\ \A l \in Items : Remade(c, TopHalf(c, l), n)
         /\ \A m \in 0..n - 1 : Remade(c, SetPrev(c, m), n) /\ Remade(c, SetNext(c, m), n)
         /\ \A m \in 0..n - 1, i \in Image(n) :
              Filled(c, m, i) \in Buffer(n) /\ Filled(c, m, i).blockNumber = m
<1>1. /\ c.img \in Image(n) /\ c.list \in Items /\ c.current \in Int
      /\ Len(c.list) \in Int /\ <<>> \in Items
  BY DEF Buffer, Items
<1>2. ASSUME NEW d \in Buffer(n) PROVE Remade(d, ListToBlock(d), n)
  <2>1. d.img \in Image(n) /\ d.list \in Items /\ Len(d.list) \in Int
    BY DEF Buffer, Items
  <2> DEFINE i == [d.img EXCEPT !.numKeyItems = Len(d.list),
                                !.items = IF d.sized THEN d.list ELSE @]
  <2>2. i \in Image(n)
    BY <2>1 DEF Image
  <2>3. ListToBlock(d) = [d EXCEPT !.img = i]
    BY <2>1 DEF ListToBlock, Image, Buffer
  <2> HIDE DEF i
  <2> QED BY <2>2, <2>3 DEF Remade, Buffer
<1>3. Remade(c, ClearList(c), n)
  <2> DEFINE k == IF c.current > 0 THEN GONE ELSE c.current
  <2>1. k \in Int
    BY <1>1 DEF GONE
  <2>2. ClearList(c) = [c EXCEPT !.list = <<>>, !.current = k]
    BY <1>1 DEF ClearList, Buffer
  <2> HIDE DEF k
  <2> QED BY <1>1, <2>1, <2>2 DEF Remade, Buffer
<1>4. Remade(c, BottomHalf(c), n)
  <2> DEFINE k == IF c.current > Kept(c.list) THEN GONE ELSE c.current
             l == SubSeq(c.list, 1, Kept(c.list))
             d == [c EXCEPT !.list = l, !.current = k]
  <2>1. k \in Int /\ l \in Items
    BY <1>1, HalvesType DEF GONE
  <2>2. BottomHalf(c) = ListToBlock(d)
    BY <1>1 DEF BottomHalf, Buffer
  <2> HIDE DEF k, l
  <2>3. d \in Buffer(n) /\ d.blockNumber = c.blockNumber
    BY <2>1 DEF Buffer
  <2> QED BY <2>2, <2>3, <1>2 DEF Remade
<1>5. Remade(c, Sized(c), n)
  BY DEF Remade, Sized, Buffer
<1>6. Remade(c, Counted(c), n)
  BY <1>1 DEF Remade, Counted, Buffer, Image
<1>7. ASSUME NEW l \in Items PROVE Remade(c, TopHalf(c, l), n)
  <2> DEFINE d == [c EXCEPT !.list = Moved(l)]
  <2>1. d \in Buffer(n) /\ d.blockNumber = c.blockNumber
    BY HalvesType DEF Buffer
  <2>2. TopHalf(c, l) = [ListToBlock(d) EXCEPT !.isDirty = TRUE]
    BY DEF TopHalf
  <2>3. Remade(d, ListToBlock(d), n)
    BY <2>1, <1>2
  <2> HIDE DEF d
  <2> QED BY <2>1, <2>2, <2>3 DEF Remade, Buffer
<1>8. ASSUME NEW m \in 0..n - 1
      PROVE  Remade(c, SetPrev(c, m), n) /\ Remade(c, SetNext(c, m), n)
  BY <1>1, <1>8 DEF Remade, SetPrev, SetNext, Buffer, Image
<1>9. ASSUME NEW m \in 0..n - 1, NEW i \in Image(n)
      PROVE  Filled(c, m, i) \in Buffer(n) /\ Filled(c, m, i).blockNumber = m
  BY <1>3, BlockToListType DEF Filled, Remade, Buffer
<1> QED BY <1>2, <1>3, <1>4, <1>5, <1>6, <1>7, <1>8, <1>9

(* A list that holds one pair more or less.                                *)
LEMMA ItemTypes ==
  ASSUME NEW n \in Nat \ {0}, NEW c \in Buffer(n)
  PROVE  /\ \A p \in 1..Len(c.list) + 1, ki \in KeyItem : Remade(c, WithItem(c, p, ki), n)
         /\ \A p \in DOMAIN c.list : Remade(c, WithoutItem(c, p), n)
<1>1. /\ c.img \in Image(n) /\ c.list \in Items /\ c.current \in Int
      /\ DOMAIN c.list = 1..Len(c.list)
  BY DEF Buffer, Items
<1>2. ASSUME NEW p \in 1..Len(c.list) + 1, NEW ki \in KeyItem
      PROVE  Remade(c, WithItem(c, p, ki), n)
  <2> DEFINE l == InsertAt(c.list, p, ki)
             k == IF c.current >= p THEN c.current + 1 ELSE c.current
  <2>1. l \in Items
    BY <1>1, InsertAtFacts DEF Items
  <2>2. k \in Int
    BY <1>1
  <2>3. WithItem(c, p, ki) = [c EXCEPT !.list = l, !.current = k]
    BY <1>1 DEF WithItem, Buffer
  <2> HIDE DEF l, k
  <2> QED BY <2>1, <2>2, <2>3 DEF Remade, Buffer
<1>3. ASSUME NEW p \in DOMAIN c.list
      PROVE  Remade(c, WithoutItem(c, p), n)
  <2> DEFINE l == RemoveAt(c.list, p)
             k == IF p = Len(c.list) THEN TAIL ELSE p
             i == [c.img EXCEPT !.numKeyItems = @ - 1]
  <2>1. l \in Items
    BY <1>1, RemoveAtFacts DEF Items
  <2>2. k \in Int
    BY <1>1 DEF TAIL
  <2>3. i \in Image(n)
    BY <1>1 DEF Image
  <2>4. WithoutItem(c, p) =
          [c EXCEPT !.list = l, !.current = k, !.img = i, !.isDirty = TRUE]
    BY <1>1 DEF WithoutItem, Buffer, Image
  <2> HIDE DEF l, k, i
  <2> QED BY <2>1, <2>2, <2>3, <2>4 DEF Remade, Buffer
<1> QED BY <1>2, <1>3

-----------------------------------------------------------------------------
(* Operations that leave the pool alone.                                   *)

(* Sound and Size say nothing of what SamePool allows to change.           *)
LEMMA SamePoolSound ==
  ASSUME NEW n, NEW m, NEW x, NEW y, Ok(x, n), Ok(y, m), SamePool(x, y)
  PROVE  /\ Size(y) = Size(x)
         /\ Sound(x) => Sound(y)
<1>1. Size(y) = Size(x)
  BY DEF SamePool, Size
<1>2. /\ \A i \in DOMAIN x.used : x.used[i] \in Buffers
      /\ x.used = y.used /\ x.free = y.free
      /\ \A b \in Buffers : y.buf[b].blockNumber = x.buf[b].blockNumber
  BY DEF Ok, BlockFile, SamePool
<1>3. OneBufferPerBlock(x) => OneBufferPerBlock(y)
  BY <1>2 DEF OneBufferPerBlock
<1> QED BY <1>1, <1>2, <1>3 DEF Sound

(* One change after another.                                               *)
LEMMA SamePoolTrans ==
  ASSUME NEW x, NEW y, NEW z, SamePool(x, y), SamePool(y, z)
  PROVE  SamePool(x, z)
BY DEF SamePool

(* The buffers of an index.                                                *)
LEMMA BufferType ==
  ASSUME NEW n, NEW x, Ok(x, n), NEW b \in Buffers
  PROVE  x.buf[b] \in Buffer(n)
BY DEF Ok, BlockFile

(* A buffer is replaced.                                                   *)
LEMMA SetBufferOk ==
  ASSUME NEW n, NEW x, Ok(x, n), NEW b \in Buffers, NEW c \in Buffer(n)
  PROVE  /\ Ok(SetBuffer(x, b, c), n)
         /\ SetBuffer(x, b, c) = [x EXCEPT !.buf = [@ EXCEPT ![b] = c]]
<1> DEFINE f == [x.buf EXCEPT ![b] = c]
<1>1. x.buf \in [Buffers -> Buffer(n)]
  BY DEF Ok, BlockFile
<1>2. f \in [Buffers -> Buffer(n)]
  BY <1>1
<1>3. SetBuffer(x, b, c) = [x EXCEPT !.buf = f]
  BY DEF SetBuffer, Ok, BlockFile
<1> HIDE DEF f
<1>4. Ok([x EXCEPT !.buf = f], n)
  BY <1>2 DEF Ok, BlockFile
<1> QED BY <1>3, <1>4 DEF f

(* A buffer is changed but keeps its block.                                *)
LEMMA SetRemade ==
  ASSUME NEW n, NEW x, Ok(x, n), NEW b \in Buffers, NEW c, Remade(x.buf[b], c, n)
  PROVE  /\ Ok(SetBuffer(x, b, c), n) /\ SamePool(x, SetBuffer(x, b, c))
         /\ SetBuffer(x, b, c).blk = x.blk
         /\ SetBuffer(x, b, c).buf[b] = c
<1> DEFINE f == [x.buf EXCEPT ![b] = c]
<1>1. c \in Buffer(n) /\ c.blockNumber = x.buf[b].blockNumber
  BY DEF Remade
<1>2. x.buf \in [Buffers -> Buffer(n)]
  BY DEF Ok, BlockFile
<1>3. Ok(SetBuffer(x, b, c), n) /\ SetBuffer(x, b, c) = [x EXCEPT !.buf = f]
  BY <1>1, SetBufferOk
<1>4. f[b] = c /\ \A d \in Buffers : f[d].blockNumber = x.buf[d].blockNumber
  BY <1>1, <1>2
<1> HIDE DEF f
<1>5. SamePool(x, [x EXCEPT !.buf = f])
  BY <1>4 DEF SamePool, Ok, BlockFile
<1>6. [x EXCEPT !.buf = f].blk = x.blk /\ [x EXCEPT !.buf = f].buf = f
  BY DEF Ok, BlockFile
<1> QED BY <1>3, <1>4, <1>5, <1>6

(* A block of the file is overwritten.                                     *)
LEMMA PutFileBlockOk ==
  ASSUME NEW n, NEW x, Ok(x, n), NEW b \in Buffers
  PROVE  /\ Ok(PutFileBlock(x, b), n) /\ SamePool(x, PutFileBlock(x, b))
         /\ PutFileBlock(x, b).blk = x.blk /\ PutFileBlock(x, b).buf = x.buf
<1> DEFINE k == x.buf[b].blockNumber + 1
           d == [x.disk EXCEPT ![k] = x.buf[b].img]
<1>1. x.disk \in Seq(Image(n)) /\ Len(x.disk) = n /\ n \in Nat \ {0}
  BY DEF Ok, BlockFile
<1>2. x.buf[b].img \in Image(n) /\ x.buf[b].blockNumber \in 0..n - 1
  BY BufferType DEF Buffer
<1>3. k \in 1..Len(x.disk)
  BY <1>1, <1>2
<1>4. d \in Seq(Image(n)) /\ Len(d) = n
  BY <1>1, <1>2, <1>3, ExceptSeq
<1>5. PutFileBlock(x, b) = [x EXCEPT !.disk = d]
  BY DEF PutFileBlock, Ok, BlockFile
<1> HIDE DEF d
<1> QED BY <1>4, <1>5 DEF Ok, BlockFile, SamePool

(* A buffer is written back.                                               *)
LEMMA FlushOk ==
  ASSUME NEW n, NEW x, Ok(x, n), NEW b \in Buffers
  PROVE  Ok(Flush(x, b), n) /\ SamePool(x, Flush(x, b))
<1> DEFINE y == SetBuffer(x, b, ListToBlock(x.buf[b]))
<1>1. Remade(x.buf[b], ListToBlock(x.buf[b]), n)
  BY BufferType, ContentTypes DEF Ok
<1>2. Ok(y, n) /\ SamePool(x, y)
  BY <1>1, SetRemade
<1>3. Ok(PutFileBlock(y, b), n) /\ SamePool(y, PutFileBlock(y, b))
  BY <1>2, PutFileBlockOk
<1> QED BY <1>2, <1>3, SamePoolTrans DEF Flush

-----------------------------------------------------------------------------
(* Operations on the two lists of buffers.                                 *)

(* Buffer b is in neither list.                                            *)
Loose(x, b) ==
  /\ \A i \in DOMAIN x.free : x.free[i] # b
  /\ \A i \in DOMAIN x.used : x.used[i] # b

(* No used buffer holds block m.                                           *)
NotHeld(x, m) == \A i \in DOMAIN x.used : x.buf[x.used[i]].blockNumber # m

(* The lists of an index.                                                  *)
LEMMA PoolTypes ==
  ASSUME NEW n, NEW x, Ok(x, n)
  PROVE  /\ x.free \in Seq(Buffers) /\ x.used \in Seq(Buffers)
         /\ Len(x.free) \in Nat /\ Len(x.used) \in Nat
         /\ DOMAIN x.free = 1..Len(x.free) /\ DOMAIN x.used = 1..Len(x.used)
         /\ \A i \in DOMAIN x.free : x.free[i] \in Buffers
         /\ \A i \in DOMAIN x.used : x.used[i] \in Buffers
BY DEF Ok, BlockFile

(* There is a buffer to reuse unless the lists have none.                  *)
LEMMA SizeType ==
  ASSUME NEW n, NEW x, Ok(x, n)
  PROVE  Size(x) \in Nat /\ (Exhausted(x) => Size(x) = 0)
<1>1. Len(x.free) \in Nat /\ Len(x.used) \in Nat
  BY PoolTypes
<1>2. \A f, g \in Nat : f + g \in Nat
  OBVIOUS
<1>3. Size(x) \in Nat
  BY <1>1, <1>2, Zenon DEF Size
<1>4. Exhausted(x) => Size(x) = 0
  BY DEF Exhausted, Size
<1> QED BY <1>3, <1>4

(* A loose buffer whose block no other holds may be put to use.            *)
LEMMA UseOk ==
  ASSUME NEW n, NEW x, Ok(x, n), Sound(x), NEW b \in Buffers,
         Loose(x, b), NotHeld(x, x.buf[b].blockNumber)
  PROVE  /\ Ok(Use(x, b), n) /\ Sound(Use(x, b))
         /\ Size(Use(x, b)) = Size(x) + 1
         /\ Use(x, b).blk = b /\ Use(x, b).used # <<>>
         /\ Use(x, b).lastBlock = x.lastBlock /\ Use(x, b).diskLast = x.diskLast
         /\ Use(x, b).disk = x.disk
<1> DEFINE u == Append(x.used, b)
           m == Len(x.used)
<1>1. /\ u \in Seq(Buffers) /\ m \in Nat /\ Len(u) = m + 1
      /\ DOMAIN u = 1..m + 1 /\ u[m + 1] = b
      /\ \A i \in 1..m : u[i] = x.used[i]
      /\ DOMAIN x.used = 1..m
  BY PoolTypes
<1>2. Use(x, b) = [x EXCEPT !.used = u, !.blk = b]
  BY DEF Use, Ok, BlockFile
<1>3. u # <<>>
  BY <1>1
<1> HIDE DEF u, m
<1>4. Distinct(u)
  <2> SUFFICES ASSUME NEW i \in 1..m + 1, NEW j \in 1..m + 1, u[i] = u[j]
               PROVE  i = j
    BY <1>1 DEF Distinct
  <2>1. CASE i \in 1..m /\ j \in 1..m
    BY <2>1, <1>1 DEF Sound, Distinct
  <2>2. CASE i = m + 1 \/ j = m + 1
    BY <2>2, <1>1 DEF Loose
  <2> QED BY <2>1, <2>2, <1>1
<1>5. Disjoint(x.free, u)
  <2> SUFFICES ASSUME NEW i \in DOMAIN x.free, NEW j \in 1..m + 1
               PROVE  x.free[i] # u[j]
    BY <1>1 DEF Disjoint
  <2>1. CASE j \in 1..m
    BY <2>1, <1>1 DEF Sound, Disjoint
  <2>2. CASE j = m + 1
    BY <2>2, <1>1 DEF Loose
  <2> QED BY <2>1, <2>2, <1>1
<1>6. \A i, j \in DOMAIN u : x.buf[u[i]].blockNumber = x.buf[u[j]].blockNumber => i = j
  <2> SUFFICES ASSUME NEW i \in 1..m + 1, NEW j \in 1..m + 1,
                      x.buf[u[i]].blockNumber = x.buf[u[j]].blockNumber
               PROVE  i = j
    BY <1>1
  <2>1. CASE i \in 1..m /\ j \in 1..m
    BY <2>1, <1>1 DEF Sound, OneBufferPerBlock
  <2>2. CASE i = m + 1 /\ j \in 1..m
    BY <2>2, <1>1 DEF NotHeld
  <2>3. CASE j = m + 1 /\ i \in 1..m
    BY <2>3, <1>1 DEF NotHeld
  <2> QED BY <2>1, <2>2, <2>3, <1>1
<1> DEFINE y == [x EXCEPT !.used = u, !.blk = b]
<1>7. /\ Ok(y, n) /\ y.used = u /\ y.free = x.free /\ y.buf = x.buf /\ y.blk = b
      /\ y.lastBlock = x.lastBlock /\ y.diskLast = x.diskLast /\ y.disk = x.disk
  BY <1>1 DEF Ok, BlockFile
<1> HIDE DEF y
<1>8. Sound(y)
  BY <1>4, <1>5, <1>6, <1>7 DEF Sound, OneBufferPerBlock
<1>9. Size(y) = Size(x) + 1
  <2>1. Len(x.free) \in Nat
    BY PoolTypes
  <2>2. Len(y.free) = Len(x.free) /\ Len(y.used) = Len(x.used) + 1 /\ Len(x.used) \in Nat
    BY <1>1, <1>7 DEF m
  <2>3. \A f, g \in Nat : f + (g + 1) = (f + g) + 1
    OBVIOUS
  <2> QED BY <2>1, <2>2, <2>3, Zenon DEF Size
<1> QED BY <1>2, <1>3, <1>7, <1>8, <1>9 DEF y

(* The buffer at position i of used is taken out of it.                    *)
LEMMA TakeUsedOk ==
  ASSUME NEW n, NEW x, Ok(x, n), Sound(x), NEW i \in DOMAIN x.used
  PROVE  LET y == [x EXCEPT !.used = RemoveAt(@, i)]
         IN /\ Ok(y, n) /\ Sound(y) /\ Size(y) = Size(x) - 1
            /\ x.used[i] \in Buffers /\ Loose(y, x.used[i])
            /\ NotHeld(y, x.buf[x.used[i]].blockNumber)
            /\ \A m : NotHeld(x, m) => NotHeld(y, m)
            /\ y.buf = x.buf /\ y.disk = x.disk
            /\ y.lastBlock = x.lastBlock /\ y.diskLast = x.diskLast
<1> DEFINE u == RemoveAt(x.used, i)
           y == [x EXCEPT !.used = u]
           Old(j) == IF j < i THEN j ELSE j + 1
<1>1. /\ x.used \in Seq(Buffers) /\ i \in 1..Len(x.used) /\ x.used[i] \in Buffers
      /\ Len(x.used) \in Nat /\ DOMAIN x.used = 1..Len(x.used)
  BY PoolTypes
<1>2. /\ u \in Seq(Buffers) /\ Len(u) = Len(x.used) - 1
      /\ DOMAIN u = 1..Len(x.used) - 1
      /\ \A j \in 1..Len(x.used) - 1 : u[j] = IF j < i THEN x.used[j] ELSE x.used[j + 1]
  <2>1. /\ u \in Seq(Buffers) /\ Len(u) = Len(x.used) - 1
        /\ \A j \in 1..Len(x.used) - 1 : u[j] = IF j < i THEN x.used[j] ELSE x.used[j + 1]
    BY <1>1, RemoveAtFacts, Zenon
  <2> QED BY <2>1, LenProperties
<1>3. \A j \in DOMAIN u : u[j] = x.used[Old(j)] /\ Old(j) \in DOMAIN x.used /\ Old(j) # i
  BY <1>1, <1>2
<1>4. \A j, k \in DOMAIN u : Old(j) = Old(k) => j = k
  BY <1>1, <1>2
<1> HIDE DEF u, Old
<1>5. /\ Ok(y, n) /\ y.used = u /\ y.free = x.free /\ y.buf = x.buf
      /\ y.lastBlock = x.lastBlock /\ y.diskLast = x.diskLast /\ y.disk = x.disk
  BY <1>2 DEF Ok, BlockFile
<1> HIDE DEF y
<1>6. Distinct(u) /\ Disjoint(x.free, u)
  BY <1>3, <1>4 DEF Sound, Distinct, Disjoint
<1>7. OneBufferPerBlock(y)
  <2>1. \A j, k \in DOMAIN u : x.buf[u[j]].blockNumber = x.buf[u[k]].blockNumber => j = k
    BY <1>3, <1>4 DEF Sound, OneBufferPerBlock
  <2> QED BY <2>1, <1>5 DEF OneBufferPerBlock
<1>8. Loose(y, x.used[i])
  BY <1>3, <1>5 DEF Loose, Sound, Distinct, Disjoint
<1>9. NotHeld(y, x.buf[x.used[i]].blockNumber)
  BY <1>3, <1>5 DEF NotHeld, Sound, OneBufferPerBlock
<1>10. \A m : NotHeld(x, m) => NotHeld(y, m)
  BY <1>3, <1>5 DEF NotHeld
<1>11. Size(y) = Size(x) - 1
  <2>1. Len(x.free) \in Nat
    BY PoolTypes
  <2>2. Len(y.free) = Len(x.free) /\ Len(y.used) = Len(x.used) - 1 /\ Len(x.used) \in Nat
    BY <1>1, <1>2, <1>5
  <2> QED BY <2>1, <2>2 DEF Size
<1>12. Sound(y)
  BY <1>5, <1>6, <1>7 DEF Sound
<1> QED BY <1>1, <1>5, <1>8, <1>9, <1>10, <1>11, <1>12 DEF y, u

(* The oldest free buffer is taken.                                        *)
LEMMA TakeFreeOk ==
  ASSUME NEW n, NEW x, Ok(x, n), Sound(x), x.free # <<>>
  PROVE  LET y == [x EXCEPT !.free = Tail(@)]
         IN /\ Ok(y, n) /\ Sound(y) /\ Size(y) = Size(x) - 1
            /\ Head(x.free) \in Buffers /\ Loose(y, Head(x.free))
            /\ \A m : NotHeld(x, m) => NotHeld(y, m)
            /\ y.buf = x.buf /\ y.disk = x.disk
            /\ y.lastBlock = x.lastBlock /\ y.diskLast = x.diskLast
<1> DEFINE f == Tail(x.free)
           y == [x EXCEPT !.free = f]
<1>1. /\ x.free \in Seq(Buffers) /\ Len(x.free) \in Nat
      /\ DOMAIN x.free = 1..Len(x.free) /\ 1 \in DOMAIN x.free
      /\ Head(x.free) = x.free[1] /\ Head(x.free) \in Buffers
  BY PoolTypes, EmptySeq
<1>2. /\ f \in Seq(Buffers) /\ Len(f) = Len(x.free) - 1
      /\ DOMAIN f = 1..Len(x.free) - 1
      /\ \A j \in DOMAIN f : f[j] = x.free[j + 1] /\ j + 1 \in DOMAIN x.free /\ j + 1 # 1
  BY <1>1, HeadTailProperties
<1>3. \A j, k \in DOMAIN f : j + 1 = k + 1 => j = k
  BY <1>1, <1>2
<1> HIDE DEF f
<1>4. /\ Ok(y, n) /\ y.free = f /\ y.used = x.used /\ y.buf = x.buf
      /\ y.lastBlock = x.lastBlock /\ y.diskLast = x.diskLast /\ y.disk = x.disk
  BY <1>2 DEF Ok, BlockFile
<1> HIDE DEF y
<1>5. Distinct(f) /\ Disjoint(f, x.used)
  BY <1>2, <1>3 DEF Sound, Distinct, Disjoint
<1>6. Sound(y)
  BY <1>4, <1>5 DEF Sound, OneBufferPerBlock
<1>7. Loose(y, Head(x.free))
  BY <1>1, <1>2, <1>4 DEF Loose, Sound, Distinct, Disjoint
<1>8. \A m : NotHeld(x, m) => NotHeld(y, m)
  BY <1>4 DEF NotHeld
<1>9. Size(y) = Size(x) - 1
  <2>1. Len(x.used) \in Nat
    BY PoolTypes
  <2>2. Len(y.used) = Len(x.used) /\ Len(y.free) = Len(x.free) - 1 /\ Len(x.free) \in Nat
    BY <1>1, <1>2, <1>4
  <2> QED BY <2>1, <2>2 DEF Size
<1> QED BY <1>1, <1>4, <1>6, <1>7, <1>8, <1>9 DEF y, f

(* The buffer a miss reuses is loose once it has been taken.               *)
LEMMA TakeVictimOk ==
  ASSUME NEW n, NEW x, Ok(x, n), Sound(x), ~Exhausted(x)
  PROVE  LET y == TakeVictim(x)
         IN /\ Ok(y, n) /\ Sound(y) /\ Size(y) = Size(x) - 1
            /\ Victim(x) \in Buffers /\ Loose(y, Victim(x))
            /\ \A m : NotHeld(x, m) => NotHeld(y, m)
            /\ y.lastBlock = x.lastBlock /\ y.diskLast = x.diskLast
<1>1. CASE x.free # <<>>
  <2>1. TakeVictim(x) = [x EXCEPT !.free = Tail(@)] /\ Victim(x) = Head(x.free)
    BY <1>1 DEF TakeVictim, Victim
  <2> QED BY <1>1, <2>1, TakeFreeOk
<1>2. CASE x.free = <<>>
  <2>1. x.used # <<>> /\ x.used \in Seq(Buffers)
    BY <1>2, PoolTypes DEF Exhausted
  <2>2. RemoveAt(x.used, 1) = Tail(x.used)
    <3>1. SubSeq(x.used, 1, 1 - 1) = <<>>
      BY SubSeqEmpty
    <3>2. Tail(x.used) = SubSeq(x.used, 1 + 1, Len(x.used))
      BY <2>1, TailIsSubSeq
    <3>3. <<>> \o Tail(x.used) = Tail(x.used)
      BY <2>1, HeadTailProperties, ConcatEmptySeq
    <3> QED BY <3>1, <3>2, <3>3 DEF RemoveAt
  <2>3. 1 \in DOMAIN x.used /\ Head(x.used) = x.used[1]
    BY <2>1
  <2>4. TakeVictim(x) = [x EXCEPT !.used = RemoveAt(@, 1)] /\ Victim(x) = x.used[1]
    BY <1>2, <2>2, <2>3 DEF TakeVictim, Victim
  <2> QED BY <2>3, <2>4, TakeUsedOk
<1> QED BY <1>1, <1>2

(* What is loose or not held stays so when only contents change.           *)
LEMMA SamePoolLoose ==
  ASSUME NEW n, NEW k, NEW x, NEW y, Ok(x, n), Ok(y, k), SamePool(x, y)
  PROVE  /\ \A b : Loose(x, b) => Loose(y, b)
         /\ \A m : NotHeld(x, m) => NotHeld(y, m)
<1>1. \A i \in DOMAIN x.used : x.used[i] \in Buffers
  BY PoolTypes
<1> QED BY <1>1 DEF SamePool, Loose, NotHeld

(* A loose buffer may be given another block.                              *)
LEMMA SetLooseOk ==
  ASSUME NEW n, NEW x, Ok(x, n), Sound(x), NEW b \in Buffers, Loose(x, b),
         NEW c \in Buffer(n)
  PROVE  LET y == SetBuffer(x, b, c)
         IN /\ Ok(y, n) /\ Sound(y) /\ Size(y) = Size(x)
            /\ Loose(y, b) /\ y.buf[b] = c
            /\ \A m : NotHeld(x, m) => NotHeld(y, m)
            /\ y.lastBlock = x.lastBlock /\ y.diskLast = x.diskLast
<1> DEFINE f == [x.buf EXCEPT ![b] = c]
           y == [x EXCEPT !.buf = f]
<1>1. Ok(y, n) /\ SetBuffer(x, b, c) = y
  BY SetBufferOk
<1>2. f[b] = c /\ \A d \in Buffers : d # b => f[d] = x.buf[d]
  BY DEF Ok, BlockFile
<1> HIDE DEF f
<1>3. /\ y.free = x.free /\ y.used = x.used /\ y.buf = f
      /\ y.lastBlock = x.lastBlock /\ y.diskLast = x.diskLast
  BY DEF Ok, BlockFile
<1> HIDE DEF y
<1>4. \A i \in DOMAIN x.used : f[x.used[i]] = x.buf[x.used[i]]
  <2>1. \A i \in DOMAIN x.used : x.used[i] \in Buffers
    BY PoolTypes
  <2> QED BY <1>2, <2>1 DEF Loose
<1>5. Sound(y)
  BY <1>3, <1>4 DEF Sound, OneBufferPerBlock
<1>6. Loose(y, b) /\ \A m : NotHeld(x, m) => NotHeld(y, m)
  BY <1>3, <1>4 DEF Loose, NotHeld
<1>7. Size(y) = Size(x)
  BY <1>3 DEF Size
<1> QED BY <1>1, <1>2, <1>3, <1>5, <1>6, <1>7

-----------------------------------------------------------------------------
(* getIndexBlock and getNewBlock.                                          *)

(* y is x after a call that returned a buffer in use.                      *)
Got(x, y, n) ==
  /\ Ok(y, n) /\ Sound(y) /\ Size(y) = Size(x)
  /\ y.blk \in Buffers /\ y.used # <<>>
  /\ y.diskLast = x.diskLast

(* A hit.                                                                  *)
LEMMA TouchOk ==
  ASSUME NEW n, NEW x, Ok(x, n), Sound(x), NEW i \in DOMAIN x.used
  PROVE  Got(x, Touch(x, i), n) /\ Touch(x, i).lastBlock = x.lastBlock
<1> DEFINE y == [x EXCEPT !.used = RemoveAt(@, i)]
           b == x.used[i]
<1>1. /\ Ok(y, n) /\ Sound(y) /\ Size(y) = Size(x) - 1
      /\ b \in Buffers /\ Loose(y, b) /\ NotHeld(y, x.buf[b].blockNumber)
      /\ y.buf = x.buf /\ y.lastBlock = x.lastBlock /\ y.diskLast = x.diskLast
  BY TakeUsedOk
<1>2. Touch(x, i) = Use(y, b)
  BY DEF Touch
<1>3. Size(x) \in Nat
  BY SizeType
<1> HIDE DEF y, b
<1>4. /\ Ok(Use(y, b), n) /\ Sound(Use(y, b))
      /\ Size(Use(y, b)) = Size(y) + 1
      /\ Use(y, b).blk = b /\ Use(y, b).used # <<>>
      /\ Use(y, b).lastBlock = y.lastBlock /\ Use(y, b).diskLast = y.diskLast
  BY <1>1, UseOk
<1>5. Size(Use(y, b)) = Size(x)
  BY <1>1, <1>3, <1>4
<1> QED BY <1>1, <1>2, <1>4, <1>5 DEF Got

(* A miss.                                                                 *)
LEMMA LoadOk ==
  ASSUME NEW n, NEW x, Ok(x, n), Sound(x), ~Exhausted(x),
         NEW m \in 0..n - 1, NotHeld(x, m)
  PROVE  Got(x, Load(x, m), n) /\ Load(x, m).lastBlock = x.lastBlock
<1> DEFINE b == Victim(x)
           t == TakeVictim(x)
           y == Flush(t, b)
           c == Filled(y.buf[b], m, GetFileBlock(y, m))
           z == SetBuffer(y, b, c)
<1>1. /\ Ok(t, n) /\ Sound(t) /\ Size(t) = Size(x) - 1
      /\ b \in Buffers /\ Loose(t, b) /\ NotHeld(t, m)
      /\ t.lastBlock = x.lastBlock /\ t.diskLast = x.diskLast
  BY TakeVictimOk
<1>2. Ok(y, n) /\ SamePool(t, y)
  BY <1>1, FlushOk
<1>3. /\ Sound(y) /\ Size(y) = Size(t) /\ Loose(y, b) /\ NotHeld(y, m)
      /\ y.lastBlock = t.lastBlock /\ y.diskLast = t.diskLast
  <2>1. Sound(y) /\ Size(y) = Size(t)
    BY <1>1, <1>2, SamePoolSound
  <2>2. Loose(y, b) /\ NotHeld(y, m)
    BY <1>1, <1>2, SamePoolLoose
  <2> QED BY <2>1, <2>2, <1>2 DEF SamePool
<1>4. c \in Buffer(n) /\ c.blockNumber = m
  <2>1. y.buf[b] \in Buffer(n) /\ n \in Nat \ {0}
    BY <1>1, <1>2, BufferType DEF Ok
  <2>2. GetFileBlock(y, m) \in Image(n)
    BY <1>2 DEF GetFileBlock, Ok, BlockFile
  <2> QED BY <2>1, <2>2, ContentTypes
<1>5. Load(x, m) = Use(z, b)
  BY DEF Load
<1> HIDE DEF b, t, y, c
<1>6. /\ Ok(z, n) /\ Sound(z) /\ Size(z) = Size(y) /\ Loose(z, b) /\ z.buf[b] = c
      /\ NotHeld(z, m) /\ z.lastBlock = y.lastBlock /\ z.diskLast = y.diskLast
  BY <1>1, <1>2, <1>3, <1>4, SetLooseOk
<1> HIDE DEF z
<1>7. /\ Ok(Use(z, b), n) /\ Sound(Use(z, b))
      /\ Size(Use(z, b)) = Size(z) + 1
      /\ Use(z, b).blk = b /\ Use(z, b).used # <<>>
      /\ Use(z, b).lastBlock = z.lastBlock /\ Use(z, b).diskLast = z.diskLast
  BY <1>1, <1>4, <1>6, UseOk
<1>8. Size(Use(z, b)) = Size(x)
  <2>1. Size(x) \in Nat
    BY SizeType
  <2> QED BY <2>1, <1>1, <1>3, <1>6, <1>7
<1> QED BY <1>1, <1>3, <1>5, <1>6, <1>7, <1>8 DEF Got

(* A block is in one used buffer at most, so the search finds that one.    *)
LEMMA HitsFacts ==
  ASSUME NEW n, NEW x, Ok(x, n), Sound(x), NEW m
  PROVE  /\ Hits(x, m) # {} => Max(Hits(x, m)) \in DOMAIN x.used
         /\ Hits(x, m) = {} => NotHeld(x, m)
<1>1. Hits(x, m) = {} => NotHeld(x, m)
  BY DEF Hits, NotHeld
<1>2. ASSUME NEW i \in Hits(x, m) PROVE Max(Hits(x, m)) = i /\ i \in DOMAIN x.used
  <2>1. i \in DOMAIN x.used /\ i \in Int
    BY PoolTypes DEF Hits
  <2>2. \A j \in Hits(x, m) : j = i
    BY DEF Hits, Sound, OneBufferPerBlock
  <2>3. Hits(x, m) = {i}
    BY <2>2
  <2>4. i >= i
    BY <2>1
  <2> QED BY <2>1, <2>3, <2>4 DEF Max
<1> QED BY <1>1, <1>2

(* getIndexBlock of a block of the file.                                   *)
LEMMA GetIndexBlockOk ==
  ASSUME NEW n, NEW x, Ok(x, n), Sound(x), Size(x) # 0, NEW m \in 0..n - 1
  PROVE  Got(x, GetIndexBlock(x, m), n) /\ GetIndexBlock(x, m).lastBlock = x.lastBlock
<1>1. CASE Hits(x, m) # {}
  <2>1. Max(Hits(x, m)) \in DOMAIN x.used
    BY <1>1, HitsFacts
  <2> QED BY <1>1, <2>1, TouchOk DEF GetIndexBlock
<1>2. CASE Hits(x, m) = {}
  <2>1. NotHeld(x, m) /\ ~Exhausted(x)
    BY <1>2, HitsFacts, SizeType
  <2> QED BY <1>2, <2>1, LoadOk DEF GetIndexBlock
<1> QED BY <1>1, <1>2

(* A block is appended: its number is one no buffer has had.               *)
LEMMA AppendFileBlockOk ==
  ASSUME NEW n, NEW x, Ok(x, n), NEW b \in Buffers
  PROVE  LET y == AppendFileBlock(x, b)
         IN /\ Ok(y, n + 1) /\ SamePool(x, y) /\ NotHeld(y, n)
<1> DEFINE d == Append(x.disk, x.buf[b].img)
           y == [x EXCEPT !.disk = d]
<1>1. n \in Nat \ {0} /\ x.disk \in Seq(Image(n)) /\ Len(x.disk) = n
  BY DEF Ok, BlockFile
<1>2. x.buf[b].img \in Image(n)
  BY BufferType DEF Buffer
<1>3. d \in Seq(Image(n)) /\ Len(d) = n + 1
  BY <1>1, <1>2
<1>4. d \in Seq(Image(n + 1))
  <2>1. Image(n) \subseteq Image(n + 1)
    BY <1>1, LongerFile
  <2> QED BY <1>3, <2>1, SeqMonotonic
<1>5. x.buf \in [Buffers -> Buffer(n + 1)]
  BY <1>1, LongerFile DEF Ok, BlockFile
<1>6. AppendFileBlock(x, b) = y
  BY DEF AppendFileBlock, Ok, BlockFile
<1> HIDE DEF d
<1>7. Ok(y, n + 1)
  <2>1. n + 1 \in Nat \ {0}
    BY <1>1
  <2>2. y \in BlockFile(n + 1)
    BY <1>4, <1>5 DEF Ok, BlockFile
  <2>3. y.disk = d
    BY DEF Ok, BlockFile
  <2> QED BY <2>1, <2>2, <2>3, <1>3 DEF Ok
<1>8. SamePool(x, y)
  BY DEF SamePool, Ok, BlockFile
<1>9. NotHeld(x, n)
  <2>1. ASSUME NEW i \in DOMAIN x.used PROVE x.buf[x.used[i]].blockNumber \in 0..n - 1
    <3>1. x.used[i] \in Buffers
      BY PoolTypes
    <3> QED BY <3>1, BufferType DEF Buffer
  <2> QED BY <2>1, <1>1 DEF NotHeld
<1>10. NotHeld(y, n)
  BY <1>7, <1>8, <1>9, SamePoolLoose
<1> QED BY <1>6, <1>7, <1>8, <1>10

(* getNewBlock finds no buffer, or loses one to a file that does not end   *)
(* after the last block, or returns the block it has appended.             *)
LEMMA GetNewBlockOk ==
  ASSUME NEW n, NEW x, Ok(x, n), Sound(x)
  PROVE  LET y == GetNewBlock(x)
         IN \/ Ok(y, n) /\ Sound(y) /\ y.blk = NULL /\ Size(x) = 0
               /\ y.lastBlock = x.lastBlock /\ y.diskLast = x.diskLast
            \/ Ok(y, n + 1) /\ Sound(y) /\ y.blk = NULL /\ n # x.lastBlock + 1
               /\ y.lastBlock = x.lastBlock /\ y.diskLast = x.diskLast
            \/ Got(x, y, n + 1) /\ n = x.lastBlock + 1 /\ y.lastBlock = x.lastBlock
<1>1. CASE Exhausted(x)
  <2> DEFINE y == [x EXCEPT !.blk = NULL]
  <2>1. GetNewBlock(x) = y
    BY <1>1 DEF GetNewBlock
  <2>2. /\ Ok(y, n) /\ y.blk = NULL /\ y.lastBlock = x.lastBlock /\ y.diskLast = x.diskLast
        /\ SamePool(x, y)
    BY DEF Ok, BlockFile, SamePool
  <2>3. Sound(y)
    BY <2>2, SamePoolSound
  <2>4. Size(x) = 0
    BY <1>1, SizeType
  <2> QED BY <2>1, <2>2, <2>3, <2>4
<1>2. CASE ~Exhausted(x)
  <2> DEFINE b == Victim(x)
             t == TakeVictim(x)
             f == Flush(t, b)
             y == IF x.free # <<>> THEN t ELSE f
             l == SetBuffer(y, b, ClearList(y.buf[b]))
             z == AppendFileBlock(l, b)
             c == [z.buf[b] EXCEPT !.blockNumber = n]
             v == SetBuffer(z, b, c)
  <2>1. /\ Ok(t, n) /\ Sound(t) /\ Size(t) = Size(x) - 1
        /\ b \in Buffers /\ Loose(t, b)
        /\ t.lastBlock = x.lastBlock /\ t.diskLast = x.diskLast
    BY <1>2, TakeVictimOk
  <2>2. n \in Nat \ {0} /\ FileEnd(x) = n
    BY DEF Ok, FileEnd
  <2>3. Ok(y, n) /\ SamePool(t, y)
    <3>1. Ok(f, n) /\ SamePool(t, f)
      BY <2>1, FlushOk
    <3>2. SamePool(t, t)
      BY DEF SamePool
    <3> QED BY <2>1, <3>1, <3>2
  <2> HIDE DEF b, t, f, y
  <2>4. Ok(l, n) /\ SamePool(y, l)
    <3>1. Remade(y.buf[b], ClearList(y.buf[b]), n)
      BY <2>1, <2>2, <2>3, BufferType, ContentTypes
    <3> QED BY <2>1, <2>3, <3>1, SetRemade
  <2> HIDE DEF l
  <2>5. Ok(z, n + 1) /\ SamePool(l, z) /\ NotHeld(z, n)
    BY <2>1, <2>4, AppendFileBlockOk
  <2> HIDE DEF z
  <2>6. SamePool(t, z)
    BY <2>3, <2>4, <2>5, SamePoolTrans
  <2>7. /\ Sound(z) /\ Size(z) = Size(t) /\ Loose(z, b)
        /\ z.lastBlock = x.lastBlock /\ z.diskLast = x.diskLast
    <3>1. Sound(z) /\ Size(z) = Size(t)
      BY <2>1, <2>5, <2>6, SamePoolSound
    <3>2. Loose(z, b)
      BY <2>1, <2>5, <2>6, SamePoolLoose
    <3> QED BY <2>1, <2>6, <3>1, <3>2 DEF SamePool
  <2>8. CASE n # x.lastBlock + 1
    <3> DEFINE w == [z EXCEPT !.blk = NULL]
    <3>1. GetNewBlock(x) = w
      BY <1>2, <2>2, <2>8 DEF GetNewBlock, b, t, f, y, l, z
    <3>2. /\ Ok(w, n + 1) /\ w.blk = NULL /\ SamePool(z, w)
          /\ w.lastBlock = z.lastBlock /\ w.diskLast = z.diskLast
      BY <2>5 DEF Ok, BlockFile, SamePool
    <3>3. Sound(w)
      BY <2>5, <2>7, <3>2, SamePoolSound
    <3> QED BY <2>7, <2>8, <3>1, <3>2, <3>3
  <2>9. CASE n = x.lastBlock + 1
    <3>1. GetNewBlock(x) = Use(v, b)
      BY <1>2, <2>2, <2>9 DEF GetNewBlock, b, t, f, y, l, z
    <3>2. z.buf[b] \in Buffer(n + 1)
      BY <2>1, <2>5, BufferType
    <3>3. c \in Buffer(n + 1) /\ c.blockNumber = n
      BY <2>2, <3>2 DEF Buffer
    <3> HIDE DEF c
    <3>4. /\ Ok(v, n + 1) /\ Sound(v) /\ Size(v) = Size(z) /\ Loose(v, b)
          /\ NotHeld(v, v.buf[b].blockNumber)
          /\ v.lastBlock = z.lastBlock /\ v.diskLast = z.diskLast
      BY <2>1, <2>5, <2>7, <3>3, SetLooseOk
    <3> HIDE DEF v
    <3>5. /\ Ok(Use(v, b), n + 1) /\ Sound(Use(v, b))
          /\ Size(Use(v, b)) = Size(v) + 1
          /\ Use(v, b).blk = b /\ Use(v, b).used # <<>>
          /\ Use(v, b).lastBlock = v.lastBlock /\ Use(v, b).diskLast = v.diskLast
      BY <2>1, <3>4, UseOk
    <3>6. Size(Use(v, b)) = Size(x)
      <4>1. Size(x) \in Nat
        BY SizeType
      <4> QED BY <4>1, <2>1, <2>7, <3>4, <3>5
    <3> QED BY <2>1, <2>7, <2>9, <3>1, <3>4, <3>5, <3>6 DEF Got
  <2> QED BY <2>8, <2>9
<1> QED BY <1>1, <1>2

-----------------------------------------------------------------------------
(* splitBlock, flushIndexBlocks, and what index.c does with blocks.        *)

(* Setting prevBlock or nextBlock of a buffer to a block of the file.      *)
LEMMA SetLinkOk ==
  ASSUME NEW n, NEW x, Ok(x, n), NEW b \in Buffers, NEW m \in 0..n - 1
  PROVE  /\ Ok(SetBuffer(x, b, SetPrev(x.buf[b], m)), n)
         /\ SamePool(x, SetBuffer(x, b, SetPrev(x.buf[b], m)))
         /\ Ok(SetBuffer(x, b, SetNext(x.buf[b], m)), n)
         /\ SamePool(x, SetBuffer(x, b, SetNext(x.buf[b], m)))
<1>1. x.buf[b] \in Buffer(n) /\ n \in Nat \ {0}
  BY BufferType DEF Ok
<1>2. Remade(x.buf[b], SetPrev(x.buf[b], m), n) /\ Remade(x.buf[b], SetNext(x.buf[b], m), n)
  BY <1>1, ContentTypes
<1> QED BY <1>2, SetRemade

(* The blocks a buffer names.                                              *)
LEMMA BlockNumbers ==
  ASSUME NEW n, NEW x, Ok(x, n), NEW b \in Buffers
  PROVE  /\ x.buf[b].blockNumber \in 0..n - 1
         /\ x.buf[b].img.prevBlock \in 0..n - 1 /\ x.buf[b].img.nextBlock \in 0..n - 1
         /\ x.buf[b].list \in Items
BY BufferType DEF Buffer, Image

LEMMA LinkAfterOk ==
  ASSUME NEW n, NEW x, Ok(x, n), NEW b \in Buffers, NEW r \in Buffers, NEW m \in 0..n - 1
  PROVE  Ok(LinkAfter(x, b, r, m), n) /\ SamePool(x, LinkAfter(x, b, r, m))
<1> DEFINE c == SetNext(x.buf[r], x.buf[b].img.nextBlock)
           d == SetPrev(c, x.buf[b].blockNumber)
           y == SetBuffer(x, r, d)
           z == SetBuffer(y, b, SetNext(y.buf[b], m))
<1>1. x.buf[r] \in Buffer(n) /\ n \in Nat \ {0}
  BY BufferType DEF Ok
<1>2. x.buf[b].img.nextBlock \in 0..n - 1 /\ x.buf[b].blockNumber \in 0..n - 1
  BY BlockNumbers
<1>3. Remade(x.buf[r], c, n)
  BY <1>1, <1>2, ContentTypes
<1>4. Remade(c, d, n)
  <2>1. c \in Buffer(n)
    BY <1>3 DEF Remade
  <2> HIDE DEF c
  <2> QED BY <2>1, <1>1, <1>2, ContentTypes
<1>5. Remade(x.buf[r], d, n)
  BY <1>3, <1>4 DEF Remade
<1>6. LinkAfter(x, b, r, m) = z
  BY DEF LinkAfter
<1> HIDE DEF c, d
<1>7. Ok(y, n) /\ SamePool(x, y)
  BY <1>5, SetRemade
<1> HIDE DEF y
<1>8. Ok(z, n) /\ SamePool(y, z)
  BY <1>7, SetLinkOk
<1> QED BY <1>6, <1>7, <1>8, SamePoolTrans

(* splitBlock returns no buffer, or the buffer of the block it appended.   *)
LEMMA SplitBlockOk ==
  ASSUME NEW n, NEW x, Ok(x, n), Sound(x), Size(x) # 0, NEW b \in Buffers
  PROVE  LET y == SplitBlock(x, b)
         IN \/ y.blk = NULL /\ Sound(y) /\ (Ok(y, n) \/ Ok(y, n + 1))
               /\ y.lastBlock = x.lastBlock /\ y.diskLast = x.diskLast
            \/ Got(x, y, n + 1) /\ n = x.lastBlock + 1 /\ y.lastBlock = n
<1> DEFINE g == GetNewBlock(x)
<1>1. CASE g.blk = NULL
  <2>1. SplitBlock(x, b) = g
    BY <1>1 DEF SplitBlock
  <2>2. NULL \notin Buffers
    BY DEF NULL, Buffers
  <2> QED BY <1>1, <2>1, <2>2, GetNewBlockOk DEF Got
<1>2. CASE g.blk # NULL
  <2> DEFINE r == g.blk
             u == [g EXCEPT !.lastBlock = n]
             v == SetBuffer(u, b, BottomHalf(u.buf[b]))
             h == SetBuffer(v, r, TopHalf(u.buf[r], x.buf[b].list))
             w == PutFileBlock(PutFileBlock(h, b), r)
             e == SetBuffer(w, r, Sized(w.buf[r]))
             s == LinkAfter(e, b, r, n)
             f == GetIndexBlock(s, x.buf[b].img.nextBlock)
             q == SetBuffer(f, f.blk, SetPrev(f.buf[f.blk], n))
  <2>1. Got(x, g, n + 1) /\ n = x.lastBlock + 1 /\ g.lastBlock = x.lastBlock
    BY <1>2, GetNewBlockOk
  <2>2. n \in Nat \ {0} /\ n + 1 \in Nat \ {0} /\ n \in 0..(n + 1) - 1
    BY DEF Ok
  <2>3. /\ x.buf[b].list \in Items
        /\ x.buf[b].img.nextBlock \in 0..(n + 1) - 1
    BY <2>2, BlockNumbers
  <2> HIDE DEF g
  <2>4. /\ Ok(u, n + 1) /\ u.lastBlock = n /\ u.diskLast = g.diskLast /\ u.buf = g.buf
        /\ u.free = g.free /\ u.used = g.used
    BY <2>1, <2>2 DEF Got, Ok, BlockFile
  <2>5. Sound(u) /\ Size(u) = Size(x)
    BY <2>1, <2>4 DEF Got, Sound, Size, OneBufferPerBlock
  <2>6. SplitBlock(x, b) = [q EXCEPT !.blk = r]
    <3>1. u = [g EXCEPT !.lastBlock = x.lastBlock + 1]
      BY <2>1
    <3> HIDE DEF u
    <3> QED BY <1>2, <2>1, <2>4, <3>1 DEF SplitBlock, g
  <2> HIDE DEF u
  <2>7. r \in Buffers
    BY <2>1 DEF Got
  <2> HIDE DEF r
  <2>8. Ok(v, n + 1) /\ SamePool(u, v)
    <3>1. Remade(u.buf[b], BottomHalf(u.buf[b]), n + 1)
      BY <2>2, <2>4, BufferType, ContentTypes
    <3> QED BY <2>4, <3>1, SetRemade
  <2> HIDE DEF v
  <2>9. Ok(h, n + 1) /\ SamePool(v, h)
    <3>1. Remade(u.buf[r], TopHalf(u.buf[r], x.buf[b].list), n + 1)
      BY <2>2, <2>3, <2>4, <2>7, BufferType, ContentTypes
    <3>2. Remade(v.buf[r], TopHalf(u.buf[r], x.buf[b].list), n + 1)
      BY <2>7, <2>8, <3>1 DEF Remade, SamePool
    <3> QED BY <2>7, <2>8, <3>2, SetRemade
  <2> HIDE DEF h
  <2>10. Ok(w, n + 1) /\ SamePool(h, w)
    <3>1. Ok(PutFileBlock(h, b), n + 1) /\ SamePool(h, PutFileBlock(h, b))
      BY <2>9, PutFileBlockOk
    <3>2. Ok(w, n + 1) /\ SamePool(PutFileBlock(h, b), w)
      BY <2>7, <3>1, PutFileBlockOk
    <3> QED BY <3>1, <3>2, SamePoolTrans
  <2> HIDE DEF w
  <2>11. Ok(e, n + 1) /\ SamePool(w, e)
    <3>1. Remade(w.buf[r], Sized(w.buf[r]), n + 1)
      BY <2>2, <2>7, <2>10, BufferType, ContentTypes
    <3> QED BY <2>7, <2>10, <3>1, SetRemade
  <2> HIDE DEF e
  <2>12. Ok(s, n + 1) /\ SamePool(e, s)
    BY <2>2, <2>7, <2>11, LinkAfterOk
  <2> HIDE DEF s
  <2>13. SamePool(u, s)
    BY <2>8, <2>9, <2>10, <2>11, <2>12, SamePoolTrans
  <2>14. Sound(s) /\ Size(s) = Size(x) /\ s.lastBlock = n /\ s.diskLast = x.diskLast
    <3>1. Sound(s) /\ Size(s) = Size(u)
      BY <2>4, <2>5, <2>12, <2>13, SamePoolSound
    <3> QED BY <2>1, <2>4, <2>5, <2>13, <3>1 DEF SamePool, Got
  <2>15. Got(s, f, n + 1) /\ f.lastBlock = s.lastBlock
    BY <2>3, <2>12, <2>14, GetIndexBlockOk
  <2> HIDE DEF f
  <2>16. Ok(q, n + 1) /\ SamePool(f, q)
    BY <2>2, <2>15, SetLinkOk DEF Got
  <2>17. /\ Sound(q) /\ Size(q) = Size(x) /\ q.lastBlock = n /\ q.diskLast = x.diskLast
         /\ q.used # <<>>
    <3>1. Sound(q) /\ Size(q) = Size(f)
      BY <2>15, <2>16, SamePoolSound DEF Got
    <3> QED BY <2>14, <2>15, <2>16, <3>1 DEF SamePool, Got
  <2> HIDE DEF q
  <2> DEFINE y == [q EXCEPT !.blk = r]
  <2>18. /\ Ok(y, n + 1) /\ SamePool(q, y) /\ y.blk = r /\ y.used = q.used
         /\ y.lastBlock = q.lastBlock /\ y.diskLast = q.diskLast
    BY <2>7, <2>16 DEF Ok, BlockFile, SamePool
  <2> HIDE DEF y
  <2>19. Sound(y) /\ Size(y) = Size(q)
    BY <2>16, <2>17, <2>18, SamePoolSound
  <2>20. Got(x, y, n + 1) /\ y.lastBlock = n
    BY <2>7, <2>17, <2>18, <2>19 DEF Got
  <2> QED BY <2>1, <2>6, <2>20 DEF y
<1> QED BY <1>1, <1>2

(* flushIndexBlocks writes blocks and counts, and moves no buffer.         *)
LEMMA FlushIndexBlocksOk ==
  ASSUME NEW n, NEW x, Ok(x, n)
  PROVE  Ok(FlushIndexBlocks(x), n) /\ SamePool(x, FlushIndexBlocks(x))
<1> DEFINE Dirty == {b \in Range(x.used) : x.buf[b].isDirty}
           Held(k) == {b \in Dirty : x.buf[b].blockNumber + 1 = k}
           Img(b) == ListToBlock(x.buf[b]).img
           d == [k \in DOMAIN x.disk |->
                   IF Held(k) # {} THEN Img(CHOOSE b \in Held(k) : TRUE) ELSE x.disk[k]]
           f == [b \in Buffers |->
                   IF b \in Dirty THEN [ListToBlock(x.buf[b]) EXCEPT !.isDirty = FALSE]
                                  ELSE x.buf[b]]
           y == [x EXCEPT !.disk = d, !.buf = f]
<1>1. n \in Nat \ {0} /\ x.disk \in [1..n -> Image(n)] /\ DOMAIN x.disk = 1..n
  BY LenProperties DEF Ok, BlockFile
<1>2. Dirty \subseteq Buffers
  BY PoolTypes DEF Range
<1>3. ASSUME NEW b \in Buffers
      PROVE  /\ Img(b) \in Image(n)
             /\ [ListToBlock(x.buf[b]) EXCEPT !.isDirty = FALSE] \in Buffer(n)
             /\ [ListToBlock(x.buf[b]) EXCEPT !.isDirty = FALSE].blockNumber
                  = x.buf[b].blockNumber
  <2>1. Remade(x.buf[b], ListToBlock(x.buf[b]), n)
    BY <1>1, BufferType, ContentTypes
  <2> QED BY <2>1 DEF Remade, Buffer
<1>4. ASSUME NEW k \in 1..n, Held(k) # {}
      PROVE  (CHOOSE b \in Held(k) : TRUE) \in Buffers
  BY <1>2, <1>4
<1>5. FlushIndexBlocks(x) = y
  BY DEF FlushIndexBlocks
<1> HIDE DEF Dirty, Img
<1>6. d \in [1..n -> Image(n)]
  BY <1>1, <1>3, <1>4
<1>7. d \in Seq(Image(n)) /\ Len(d) = n
  BY <1>1, <1>6, SeqDef
<1>8. f \in [Buffers -> Buffer(n)]
  BY <1>3, BufferType
<1>9. \A b \in Buffers : f[b].blockNumber = x.buf[b].blockNumber
  BY <1>3
<1> HIDE DEF d, f
<1>10. Ok(y, n)
  BY <1>7, <1>8 DEF Ok, BlockFile
<1>11. SamePool(x, y)
  BY <1>9 DEF SamePool, Ok, BlockFile
<1> QED BY <1>5, <1>10, <1>11

(* The block of the very first pair.                                       *)
LEMMA FirstBlockOk ==
  ASSUME NEW n, NEW x, Ok(x, n), Sound(x), NEW ki \in KeyItem
  PROVE  LET y == FirstBlock(x, ki)
         IN \/ y.blk = NULL /\ Sound(y) /\ y.lastBlock = x.lastBlock
               /\ y.diskLast = x.diskLast
               /\ ((Ok(y, n) /\ Size(x) = 0) \/ (Ok(y, n + 1) /\ n # x.lastBlock + 1))
            \/ Got(x, y, n + 1) /\ n = x.lastBlock + 1 /\ y.lastBlock = n
<1> DEFINE g == GetNewBlock(x)
<1>1. CASE g.blk = NULL
  <2>1. FirstBlock(x, ki) = g
    BY <1>1 DEF FirstBlock
  <2>2. NULL \notin Buffers
    BY DEF NULL, Buffers
  <2> QED BY <1>1, <2>1, <2>2, GetNewBlockOk DEF Got
<1>2. CASE g.blk # NULL
  <2> DEFINE b == g.blk
             a == WithItem(g.buf[b], 1, ki)
             c == Counted(a)
             d == SetNext(c, 0)
             e == SetPrev(d, 0)
             k == [e EXCEPT !.isDirty = TRUE]
             m == Sized(k)
             z == SetBuffer(g, b, m)
             y == [z EXCEPT !.lastBlock = @ + 1]
  <2>1. Got(x, g, n + 1) /\ n = x.lastBlock + 1 /\ g.lastBlock = x.lastBlock
    BY <1>2, GetNewBlockOk
  <2>2. n \in Nat \ {0} /\ n + 1 \in Nat \ {0} /\ 0 \in 0..(n + 1) - 1
    BY DEF Ok
  <2>3. FirstBlock(x, ki) = y
    BY <1>2 DEF FirstBlock
  <2> HIDE DEF g
  <2>4. b \in Buffers /\ g.buf[b] \in Buffer(n + 1)
    BY <2>1, BufferType DEF Got
  <2> HIDE DEF b
  <2>5. Remade(g.buf[b], a, n + 1)
    <3>1. 1 \in 1..Len(g.buf[b].list) + 1
      BY <2>4 DEF Buffer, Items
    <3> QED BY <2>2, <2>4, <3>1, ItemTypes
  <2> HIDE DEF a
  <2>6. Remade(a, c, n + 1)
    BY <2>2, <2>5, ContentTypes DEF Remade
  <2> HIDE DEF c
  <2>7. Remade(c, d, n + 1)
    <3>1. c \in Buffer(n + 1)
      BY <2>6 DEF Remade
    <3> QED BY <2>2, <3>1, ContentTypes
  <2> HIDE DEF d
  <2>8. Remade(d, e, n + 1)
    <3>1. d \in Buffer(n + 1)
      BY <2>7 DEF Remade
    <3> QED BY <2>2, <3>1, ContentTypes
  <2> HIDE DEF e
  <2>9. Remade(e, k, n + 1)
    BY <2>8 DEF Remade, Buffer
  <2> HIDE DEF k
  <2>10. Remade(k, m, n + 1)
    BY <2>2, <2>9, ContentTypes DEF Remade
  <2> HIDE DEF m
  <2>11. Remade(g.buf[b], m, n + 1)
    BY <2>5, <2>6, <2>7, <2>8, <2>9, <2>10 DEF Remade
  <2>12. Ok(z, n + 1) /\ SamePool(g, z) /\ z.blk = b
    <3>1. Ok(g, n + 1)
      BY <2>1 DEF Got
    <3> QED BY <2>4, <2>11, <3>1, SetRemade DEF b
  <2> HIDE DEF z
  <2>13. Sound(z) /\ Size(z) = Size(x)
    BY <2>1, <2>12, SamePoolSound DEF Got
  <2>14. /\ Ok(y, n + 1) /\ y.lastBlock = n /\ y.diskLast = z.diskLast /\ y.blk = z.blk
         /\ y.free = z.free /\ y.used = z.used /\ y.buf = z.buf
    <3>1. z.lastBlock = x.lastBlock
      BY <2>1, <2>12 DEF SamePool
    <3>2. z.lastBlock + 1 = n
      BY <2>1, <3>1
    <3> QED BY <2>2, <2>12, <3>2 DEF Ok, BlockFile
  <2> HIDE DEF y
  <2>15. Sound(y) /\ Size(y) = Size(x)
    BY <2>13, <2>14 DEF Sound, Size, OneBufferPerBlock
  <2>16. Got(x, y, n + 1)
    BY <2>1, <2>4, <2>12, <2>14, <2>15 DEF Got, SamePool
  <2> QED BY <2>1, <2>3, <2>14, <2>16
<1> QED BY <1>1, <1>2

(* The neighbours of a block that is unlinked.                             *)
LEMMA LinkNeighboursOk ==
  ASSUME NEW n, NEW x, Ok(x, n), Sound(x), Size(x) # 0, NEW b \in Buffers
  PROVE  Got(x, LinkNeighbours(x, b), n) /\ LinkNeighbours(x, b).lastBlock = x.lastBlock
<1> DEFINE p == GetIndexBlock(x, x.buf[b].img.prevBlock)
           q == GetIndexBlock(p, x.buf[b].img.nextBlock)
           l == SetBuffer(q, p.blk, SetNext(q.buf[p.blk], q.buf[q.blk].blockNumber))
           m == SetBuffer(l, q.blk, SetPrev(l.buf[q.blk], q.buf[p.blk].blockNumber))
           v == PutFileBlock(m, p.blk)
           w == PutFileBlock(v, q.blk)
<1>1. x.buf[b].img.prevBlock \in 0..n - 1 /\ x.buf[b].img.nextBlock \in 0..n - 1
  BY BlockNumbers
<1>2. LinkNeighbours(x, b) = w
  BY DEF LinkNeighbours
<1>3. Got(x, p, n) /\ p.lastBlock = x.lastBlock
  BY <1>1, GetIndexBlockOk
<1> HIDE DEF p
<1>4. Got(p, q, n) /\ q.lastBlock = p.lastBlock
  BY <1>1, <1>3, GetIndexBlockOk DEF Got
<1> HIDE DEF q
<1>5. p.blk \in Buffers /\ q.blk \in Buffers /\ Ok(q, n)
  BY <1>3, <1>4 DEF Got
<1>6. q.buf[p.blk].blockNumber \in 0..n - 1 /\ q.buf[q.blk].blockNumber \in 0..n - 1
  BY <1>5, BlockNumbers
<1>7. Ok(l, n) /\ SamePool(q, l) /\ l.blk = q.blk
  <2>1. Remade(q.buf[p.blk], SetNext(q.buf[p.blk], q.buf[q.blk].blockNumber), n)
    BY <1>5, <1>6, BufferType, ContentTypes DEF Ok
  <2> QED BY <1>5, <2>1, SetRemade
<1> HIDE DEF l
<1>8. Ok(m, n) /\ SamePool(l, m) /\ m.blk = q.blk
  <2>1. Remade(l.buf[q.blk], SetPrev(l.buf[q.blk], q.buf[p.blk].blockNumber), n)
    BY <1>5, <1>6, <1>7, BufferType, ContentTypes DEF Ok
  <2> QED BY <1>5, <1>7, <2>1, SetRemade
<1> HIDE DEF m
<1>9. Ok(v, n) /\ SamePool(m, v) /\ v.blk = q.blk
  BY <1>5, <1>8, PutFileBlockOk
<1> HIDE DEF v
<1>10. Ok(w, n) /\ SamePool(v, w) /\ w.blk = q.blk
  BY <1>5, <1>9, PutFileBlockOk
<1> HIDE DEF w
<1>11. SamePool(q, w)
  BY <1>7, <1>8, <1>9, <1>10, SamePoolTrans
<1>12. Sound(w) /\ Size(w) = Size(q)
  BY <1>4, <1>5, <1>10, <1>11, SamePoolSound DEF Got
<1> QED BY <1>2, <1>3, <1>4, <1>5, <1>10, <1>11, <1>12 DEF Got, SamePool

(* The youngest buffer goes from used to free.                             *)
LEMMA FreeYoungestOk ==
  ASSUME NEW n, NEW x, Ok(x, n), Sound(x), x.used # <<>>
  PROVE  LET y == FreeYoungest(x)
         IN /\ Ok(y, n) /\ Sound(y) /\ Size(y) = Size(x)
            /\ y.lastBlock = x.lastBlock /\ y.diskLast = x.diskLast
<1> DEFINE b == Last(x.used)
           u == Front(x.used)
           f == Append(x.free, b)
           y == [x EXCEPT !.free = f, !.used = u]
           m == Len(x.used)
           k == Len(x.free)
<1>1. /\ x.used \in Seq(Buffers) /\ m \in Nat \ {0} /\ k \in Nat
      /\ DOMAIN x.used = 1..m /\ DOMAIN x.free = 1..k /\ x.free \in Seq(Buffers)
  BY PoolTypes, EmptySeq
<1>2. /\ u \in Seq(Buffers) /\ Len(u) = m - 1 /\ b = x.used[m] /\ b \in Buffers
      /\ \A j \in 1..m - 1 : u[j] = x.used[j]
  BY <1>1, FrontFacts, Zenon
<1>3. DOMAIN u = 1..m - 1
  BY <1>2, LenProperties
<1>4. \A j \in DOMAIN u : u[j] = x.used[j] /\ j \in DOMAIN x.used /\ j # m
  BY <1>1, <1>2, <1>3
<1>5. m \in DOMAIN x.used
  BY <1>1
<1> HIDE DEF b, u
<1>6. /\ f \in Seq(Buffers) /\ Len(f) = k + 1 /\ DOMAIN f = 1..k + 1
      /\ f[k + 1] = b
      /\ \A j \in 1..k : f[j] = x.free[j]
  BY <1>1, <1>2
<1>7. \A j \in DOMAIN f : \/ j \in DOMAIN x.free /\ f[j] = x.free[j]
                          \/ j = k + 1 /\ f[j] = b
  BY <1>1, <1>6
<1>8. FreeYoungest(x) = y
  BY DEF FreeYoungest, b, u
<1> HIDE DEF f
<1>9. /\ Ok(y, n) /\ y.free = f /\ y.used = u /\ y.buf = x.buf
      /\ y.lastBlock = x.lastBlock /\ y.diskLast = x.diskLast
  BY <1>2, <1>6 DEF Ok, BlockFile
<1> HIDE DEF y
<1>10. Distinct(u) /\ OneBufferPerBlock(y)
  BY <1>4, <1>9 DEF Sound, Distinct, OneBufferPerBlock
<1>11. Distinct(f)
  <2>1. \A j \in DOMAIN x.free : x.free[j] # b
    BY <1>2, <1>5 DEF Sound, Disjoint
  <2> QED BY <1>7, <2>1 DEF Sound, Distinct
<1>12. Disjoint(f, u)
  <2>1. \A j \in DOMAIN u : u[j] # b
    BY <1>2, <1>4, <1>5 DEF Sound, Distinct
  <2> QED BY <1>4, <1>7, <2>1 DEF Sound, Disjoint
<1>13. Size(y) = Size(x)
  <2>1. Len(y.free) = k + 1 /\ Len(y.used) = m - 1
    BY <1>2, <1>6, <1>9
  <2>2. \A i, j \in Nat : (i + 1) + (j - 1) = i + j
    OBVIOUS
  <2>3. (k + 1) + (m - 1) = k + m
    BY <1>1, <2>2, Zenon
  <2> QED BY <2>1, <2>3 DEF Size
<1> QED BY <1>8, <1>9, <1>10, <1>11, <1>12, <1>13 DEF Sound

(* deleteIndexItem of a block's last pair, once it is out of the list.     *)
LEMMA UnlinkBlockOk ==
  ASSUME NEW n, NEW x, Ok(x, n), Sound(x), Size(x) # 0, NEW b \in Buffers, NEW ki
  PROVE  LET y == UnlinkBlock(x, b, ki)
         IN /\ Ok(y, n) /\ Sound(y) /\ Size(y) = Size(x)
            /\ y.lastBlock = x.lastBlock /\ y.diskLast = x.diskLast
<1> DEFINE v == PutFileBlock(x, b)
           w == LinkNeighbours(v, b)
<1>1. Ok(v, n) /\ SamePool(x, v)
  BY PutFileBlockOk
<1>2. UnlinkBlock(x, b, ki) = IF ki.item = x.buf[b].blockNumber THEN FreeYoungest(w) ELSE w
  BY DEF UnlinkBlock
<1> HIDE DEF v
<1>3. Sound(v) /\ Size(v) = Size(x) /\ v.lastBlock = x.lastBlock /\ v.diskLast = x.diskLast
  <2>1. Sound(v) /\ Size(v) = Size(x)
    BY <1>1, SamePoolSound
  <2> QED BY <1>1, <2>1 DEF SamePool
<1>4. Got(v, w, n) /\ w.lastBlock = v.lastBlock
  BY <1>1, <1>3, LinkNeighboursOk
<1> HIDE DEF w
<1>5. /\ Ok(w, n) /\ Sound(w) /\ w.used # <<>> /\ Size(w) = Size(x)
      /\ w.lastBlock = x.lastBlock /\ w.diskLast = x.diskLast
  BY <1>3, <1>4 DEF Got
<1>6. /\ Ok(FreeYoungest(w), n) /\ Sound(FreeYoungest(w)) /\ Size(FreeYoungest(w)) = Size(x)
      /\ FreeYoungest(w).lastBlock = x.lastBlock /\ FreeYoungest(w).diskLast = x.diskLast
  BY <1>5, FreeYoungestOk
<1> QED BY <1>2, <1>5, <1>6

(* insertLink and removeLink in the list of a buffer.                      *)
LEMMA InsertItemOk ==
  ASSUME NEW n, NEW x, Ok(x, n), Sound(x), NEW b \in Buffers,
         NEW p \in 1..Len(x.buf[b].list) + 1, NEW ki \in KeyItem
  PROVE  LET y == InsertItem(x, b, p, ki)
         IN Ok(y, n) /\ Sound(y) /\ Size(y) = Size(x) /\ SamePool(x, y) /\ y.blk = x.blk
<1> DEFINE c == WithItem(x.buf[b], p, ki)
<1>1. x.buf[b] \in Buffer(n) /\ n \in Nat \ {0}
  BY BufferType DEF Ok
<1>2. Remade(x.buf[b], c, n)
  BY <1>1, ItemTypes
<1> HIDE DEF c
<1>3. /\ Ok(SetBuffer(x, b, c), n) /\ SamePool(x, SetBuffer(x, b, c))
      /\ SetBuffer(x, b, c).blk = x.blk
  BY <1>2, SetRemade
<1>4. Sound(SetBuffer(x, b, c)) /\ Size(SetBuffer(x, b, c)) = Size(x)
  BY <1>3, SamePoolSound
<1> QED BY <1>3, <1>4 DEF InsertItem, c

LEMMA RemoveItemOk ==
  ASSUME NEW n, NEW x, Ok(x, n), Sound(x), NEW b \in Buffers,
         NEW p \in DOMAIN x.buf[b].list
  PROVE  LET y == RemoveItem(x, b, p)
             z == SetBuffer(y, b, Counted(y.buf[b]))
         IN Ok(z, n) /\ Sound(z) /\ Size(z) = Size(x) /\ SamePool(x, z)
<1> DEFINE c == WithoutItem(x.buf[b], p)
           y == SetBuffer(x, b, c)
           z == SetBuffer(y, b, Counted(y.buf[b]))
<1>1. x.buf[b] \in Buffer(n) /\ n \in Nat \ {0}
  BY BufferType DEF Ok
<1>2. Remade(x.buf[b], c, n)
  BY <1>1, ItemTypes
<1>3. RemoveItem(x, b, p) = y
  BY DEF RemoveItem
<1> HIDE DEF c
<1>4. Ok(y, n) /\ SamePool(x, y)
  BY <1>2, SetRemade
<1> HIDE DEF y
<1>5. Remade(y.buf[b], Counted(y.buf[b]), n)
  BY <1>1, <1>4, BufferType, ContentTypes
<1>6. Ok(z, n) /\ SamePool(y, z)
  BY <1>4, <1>5, SetRemade
<1> HIDE DEF z
<1>7. SamePool(x, z)
  BY <1>4, <1>6, SamePoolTrans
<1>8. Sound(z) /\ Size(z) = Size(x)
  BY <1>6, <1>7, SamePoolSound
<1> QED BY <1>3, <1>6, <1>7, <1>8 DEF z

-----------------------------------------------------------------------------
(* Creating, opening and closing an index.                                 *)

(* A pool with no buffers in it.                                           *)
Unopened(x) ==
  x.free = <<>> /\ x.used = <<>> /\ x.lastBlock = 0

LEMMA NewIndexOk ==
  Ok(CreateIndexFile, 1) /\ Unopened(CreateIndexFile) /\ CreateIndexFile.diskLast = 0
<1> DEFINE f == [b \in Buffers |-> NewBuffer]
<1>1. CreateBlockFile \in Seq(Image(1)) /\ Len(CreateBlockFile) = 1
  BY InitialTypes DEF CreateBlockFile
<1>2. f \in [Buffers -> Buffer(1)]
  BY InitialTypes
<1> HIDE DEF f
<1>3. CreateIndexFile =
        [disk |-> CreateBlockFile, diskLast |-> 0, lastBlock |-> 0, buf |-> f,
         free |-> <<>>, used |-> <<>>, blk |-> NULL]
  BY DEF CreateIndexFile, f
<1> QED BY <1>1, <1>2, <1>3 DEF Ok, BlockFile, Unopened

(* A pool with no buffers is sound.                                        *)
LEMMA UnopenedSound ==
  ASSUME NEW x, Unopened(x)
  PROVE  Sound(x)
BY DEF Unopened, Sound, Distinct, Disjoint, OneBufferPerBlock

LEMMA ClosedOk ==
  ASSUME NEW n, NEW x, Ok(x, n)
  PROVE  Ok(Closed(x), n) /\ Unopened(Closed(x)) /\ Closed(x).diskLast = x.diskLast
<1> DEFINE f == [b \in Buffers |-> NewBuffer]
<1>1. f \in [Buffers -> Buffer(n)]
  BY InitialTypes DEF Ok
<1> HIDE DEF f
<1>2. Closed(x) = [x EXCEPT !.buf = f, !.free = <<>>, !.used = <<>>,
                            !.lastBlock = 0, !.blk = NULL]
  BY DEF Closed, f
<1> DEFINE y == [x EXCEPT !.buf = f, !.free = <<>>, !.used = <<>>, !.lastBlock = 0, !.blk = NULL]
<1>3. <<>> \in Seq(Buffers)
  BY EmptySeq
<1>4. y \in BlockFile(n)
  BY <1>1, <1>3 DEF Ok, BlockFile
<1>5. /\ y.disk = x.disk /\ y.diskLast = x.diskLast
      /\ y.free = <<>> /\ y.used = <<>> /\ y.lastBlock = 0
  BY DEF Ok, BlockFile
<1> HIDE DEF y
<1>6. Ok(y, n) /\ Unopened(y) /\ y.diskLast = x.diskLast
  BY <1>4, <1>5 DEF Ok, Unopened
<1> QED BY <1>2, <1>6 DEF y

LEMMA CloseBlockFileOk ==
  ASSUME NEW n, NEW x, Ok(x, n)
  PROVE  Ok(CloseBlockFile(x), n) /\ CloseBlockFile(x).diskLast = x.lastBlock
<1> DEFINE d == [x.disk EXCEPT ![1] = ControlBlock]
<1>1. n \in Nat \ {0} /\ x.disk \in Seq(Image(n)) /\ Len(x.disk) = n
  BY DEF Ok, BlockFile
<1>2. ControlBlock \in Image(n) /\ 1 \in 1..Len(x.disk)
  BY <1>1, InitialTypes
<1>3. d \in Seq(Image(n)) /\ Len(d) = n
  BY <1>1, <1>2, ExceptSeq
<1>4. CloseBlockFile(x) = [x EXCEPT !.disk = d, !.diskLast = x.lastBlock]
  BY DEF CloseBlockFile, Ok, BlockFile
<1> HIDE DEF d
<1> QED BY <1>3, <1>4 DEF Ok, BlockFile

(* openIndex puts every buffer into the free list.                         *)
LEMMA OpenIndexOk ==
  ASSUME NEW n, NEW x, Ok(x, n), Unopened(x)
  PROVE  LET y == OpenIndex(x)
         IN /\ Ok(y, n) /\ Sound(y) /\ Size(y) = BLOCK_CACHE_SIZE
            /\ y.lastBlock = x.diskLast /\ y.diskLast = x.diskLast
<1> DEFINE f == [b \in Buffers |-> b]
           y == [x EXCEPT !.free = f, !.lastBlock = x.diskLast]
<1>1. f \in Seq(Buffers) /\ Len(f) = BLOCK_CACHE_SIZE
  BY CacheSizeAssumption DEF Buffers
<1>2. Distinct(f)
  BY DEF Distinct
<1>3. OpenIndex(x) = y
  BY DEF OpenIndex, Ok, BlockFile
<1> HIDE DEF f
<1>4. /\ Ok(y, n) /\ y.free = f /\ y.used = <<>>
      /\ y.lastBlock = x.diskLast /\ y.diskLast = x.diskLast
  BY <1>1 DEF Ok, BlockFile, Unopened
<1> HIDE DEF y
<1>5. Sound(y)
  BY <1>2, <1>4 DEF Sound, Distinct, Disjoint, OneBufferPerBlock
<1>6. Size(y) = BLOCK_CACHE_SIZE
  BY <1>1, <1>4, CacheSizeAssumption DEF Size
<1> QED BY <1>3, <1>4, <1>5, <1>6

-----------------------------------------------------------------------------
(* Contents.                                                               *)

(* The buffers in the two lists, and the last one put to use.              *)
InUse(x)  == Range(x.used)
InFree(x) == Range(x.free)
Youngest(x, b) == x.used # <<>> /\ x.used[Len(x.used)] = b

(* From x to y buffer b becomes c and no other changes.                    *)
Becomes(x, y, b, c) ==
  y.buf[b] = c /\ \A d \in Buffers \ {b} : y.buf[d] = x.buf[d]

(* From x to y block m of the file becomes i and no other changes.         *)
Written(x, y, m, i) ==
  /\ Len(y.disk) = Len(x.disk)
  /\ y.disk[m + 1] = i
  /\ \A k \in 1..Len(x.disk) : k # m + 1 => y.disk[k] = x.disk[k]

SameLists(x, y) ==
  /\ y.used = x.used /\ y.free = x.free
  /\ y.lastBlock = x.lastBlock /\ y.diskLast = x.diskLast /\ y.blk = x.blk

-----------------------------------------------------------------------------
(* One buffer, one block.                                                  *)

LEMMA SetShape ==
  ASSUME NEW n, NEW x, Ok(x, n), NEW b \in Buffers, NEW c
  PROVE  LET y == SetBuffer(x, b, c)
         IN y.disk = x.disk /\ SameLists(x, y) /\ Becomes(x, y, b, c)
<1> DEFINE f == [x.buf EXCEPT ![b] = c]
<1>1. x.buf \in [Buffers -> Buffer(n)]
  BY DEF Ok, BlockFile
<1>2. f[b] = c /\ \A d \in Buffers \ {b} : f[d] = x.buf[d]
  BY <1>1
<1>3. SetBuffer(x, b, c) = [x EXCEPT !.buf = f]
  BY DEF SetBuffer, Ok, BlockFile
<1> HIDE DEF f
<1>4. LET y == [x EXCEPT !.buf = f] IN y.disk = x.disk /\ y.buf = f /\ SameLists(x, y)
  BY DEF SameLists, Ok, BlockFile
<1> QED BY <1>2, <1>3, <1>4 DEF Becomes

LEMMA PutShape ==
  ASSUME NEW n, NEW x, Ok(x, n), NEW b \in Buffers
  PROVE  LET y == PutFileBlock(x, b)
         IN /\ y.buf = x.buf /\ SameLists(x, y)
            /\ Written(x, y, x.buf[b].blockNumber, x.buf[b].img)
<1> DEFINE k == x.buf[b].blockNumber + 1
           d == [x.disk EXCEPT ![k] = x.buf[b].img]
<1>1. x.disk \in Seq(Image(n)) /\ Len(x.disk) = n /\ n \in Nat \ {0}
  BY DEF Ok, BlockFile
<1>2. x.buf[b].img \in Image(n) /\ x.buf[b].blockNumber \in 0..n - 1
  BY BufferType DEF Buffer
<1>3. k \in 1..Len(x.disk)
  BY <1>1, <1>2
<1>4. /\ Len(d) = Len(x.disk)
      /\ \A j \in 1..Len(x.disk) : d[j] = IF j = k THEN x.buf[b].img ELSE x.disk[j]
  BY <1>1, <1>2, <1>3, ExceptSeq
<1>5. PutFileBlock(x, b) = [x EXCEPT !.disk = d]
  BY DEF PutFileBlock, Ok, BlockFile
<1>6. d[k] = x.buf[b].img
  BY <1>3, <1>4
<1> HIDE DEF d
<1>7. LET y == [x EXCEPT !.disk = d]
      IN y.disk = d /\ y.buf = x.buf /\ SameLists(x, y)
  BY DEF SameLists, Ok, BlockFile
<1> QED BY <1>4, <1>5, <1>6, <1>7 DEF Written

LEMMA FlushShape ==
  ASSUME NEW n, NEW x, Ok(x, n), NEW b \in Buffers
  PROVE  LET y == Flush(x, b)
             c == ListToBlock(x.buf[b])
         IN /\ SameLists(x, y) /\ Becomes(x, y, b, c)
            /\ Written(x, y, x.buf[b].blockNumber, c.img)
<1> DEFINE c == ListToBlock(x.buf[b])
           v == SetBuffer(x, b, c)
           y == PutFileBlock(v, b)
<1>1. Remade(x.buf[b], c, n)
  BY BufferType, ContentTypes DEF Ok
<1> HIDE DEF c
<1>2. Ok(v, n) /\ v.buf[b] = c /\ c.blockNumber = x.buf[b].blockNumber
  BY <1>1, SetRemade DEF Remade
<1>3. v.disk = x.disk /\ SameLists(x, v) /\ Becomes(x, v, b, c)
  BY SetShape
<1> HIDE DEF v
<1>4. y.buf = v.buf /\ SameLists(v, y) /\ Written(v, y, v.buf[b].blockNumber, v.buf[b].img)
  BY <1>2, PutShape
<1>5. Flush(x, b) = y
  BY DEF Flush, v, c
<1> HIDE DEF y
<1>6. SameLists(x, y) /\ Becomes(x, y, b, c)
  BY <1>3, <1>4 DEF SameLists, Becomes
<1>7. Written(x, y, x.buf[b].blockNumber, c.img)
  BY <1>2, <1>3, <1>4 DEF Written
<1> QED BY <1>5, <1>6, <1>7 DEF c

LEMMA AppendShape ==
  ASSUME NEW n, NEW x, Ok(x, n), NEW b \in Buffers
  PROVE  LET y == AppendFileBlock(x, b)
         IN /\ y.buf = x.buf /\ SameLists(x, y) /\ Len(y.disk) = n + 1
            /\ y.disk[n + 1] = x.buf[b].img
            /\ \A k \in 1..n : y.disk[k] = x.disk[k]
<1> DEFINE d == Append(x.disk, x.buf[b].img)
<1>1. n \in Nat \ {0} /\ x.disk \in Seq(Image(n)) /\ Len(x.disk) = n
  BY DEF Ok, BlockFile
<1>2. x.buf[b].img \in Image(n)
  BY BufferType DEF Buffer
<1>3. Len(d) = n + 1 /\ d[n + 1] = x.buf[b].img /\ \A k \in 1..n : d[k] = x.disk[k]
  BY <1>1, <1>2, AppendProperties
<1>4. AppendFileBlock(x, b) = [x EXCEPT !.disk = d]
  BY DEF AppendFileBlock, Ok, BlockFile
<1> HIDE DEF d
<1>5. LET y == [x EXCEPT !.disk = d]
      IN y.disk = d /\ y.buf = x.buf /\ SameLists(x, y)
  BY DEF SameLists, Ok, BlockFile
<1> QED BY <1>3, <1>4, <1>5

-----------------------------------------------------------------------------
(* The two lists.                                                          *)

LEMMA ListsTypes ==
  ASSUME NEW n, NEW x, Ok(x, n)
  PROVE  /\ InUse(x) \subseteq Buffers /\ InFree(x) \subseteq Buffers
         /\ \A b : Youngest(x, b) => b \in InUse(x)
<1>1. InUse(x) \subseteq Buffers /\ InFree(x) \subseteq Buffers
  BY PoolTypes DEF InUse, InFree, Range
<1>2. ASSUME NEW b, Youngest(x, b) PROVE b \in InUse(x)
  <2>1. Len(x.used) \in DOMAIN x.used
    BY <1>2, PoolTypes, EmptySeq DEF Youngest
  <2> QED BY <1>2, <2>1 DEF Youngest, InUse, Range
<1> QED BY <1>1, <1>2

LEMMA UseShape ==
  ASSUME NEW n, NEW x, Ok(x, n), NEW b \in Buffers
  PROVE  LET y == Use(x, b)
         IN /\ y.buf = x.buf /\ y.disk = x.disk /\ y.free = x.free
            /\ y.lastBlock = x.lastBlock /\ y.diskLast = x.diskLast
            /\ InUse(y) = InUse(x) \cup {b} /\ Youngest(y, b) /\ y.blk = b
<1> DEFINE u == Append(x.used, b)
           m == Len(x.used)
<1>1. /\ m \in Nat /\ Len(u) = m + 1 /\ u # <<>>
      /\ DOMAIN u = 1..m + 1 /\ u[m + 1] = b
      /\ \A i \in 1..m : u[i] = x.used[i]
      /\ DOMAIN x.used = 1..m
  BY PoolTypes, AppendProperties, LenProperties
<1>2. Use(x, b) = [x EXCEPT !.used = u, !.blk = b]
  BY DEF Use, Ok, BlockFile
<1> HIDE DEF u
<1>3. Range(u) = Range(x.used) \cup {b}
  <2>1. \A c \in Range(u) : c \in Range(x.used) \cup {b}
    BY <1>1 DEF Range
  <2>2. b \in Range(u)
    <3>1. m + 1 \in DOMAIN u
      BY <1>1
    <3> QED BY <1>1, <3>1 DEF Range
  <2>3. ASSUME NEW i \in DOMAIN x.used PROVE x.used[i] \in Range(u)
    <3>1. i \in DOMAIN u /\ u[i] = x.used[i]
      BY <1>1
    <3> QED BY <3>1 DEF Range
  <2> QED BY <2>1, <2>2, <2>3 DEF Range
<1> DEFINE y == [x EXCEPT !.used = u, !.blk = b]
<1>4. /\ y.buf = x.buf /\ y.disk = x.disk /\ y.free = x.free /\ y.used = u /\ y.blk = b
      /\ y.lastBlock = x.lastBlock /\ y.diskLast = x.diskLast
  BY DEF Ok, BlockFile
<1> HIDE DEF y
<1>5. Youngest(y, b)
  BY <1>1, <1>4 DEF Youngest
<1>6. InUse(y) = InUse(x) \cup {b}
  BY <1>3, <1>4 DEF InUse
<1> QED BY <1>2, <1>4, <1>5, <1>6 DEF y

(* What is left of a list without repetitions when one element goes.       *)
LEMMA WithoutOne ==
  ASSUME NEW S, NEW s \in Seq(S), Distinct(s), NEW i \in 1..Len(s)
  PROVE  Range(RemoveAt(s, i)) = Range(s) \ {s[i]}
<1> DEFINE t == RemoveAt(s, i)
<1>1. /\ t \in Seq(S) /\ Len(t) = Len(s) - 1 /\ Len(s) \in Nat
      /\ \A j \in 1..Len(s) - 1 : t[j] = IF j < i THEN s[j] ELSE s[j + 1]
  BY RemoveAtFacts, LenProperties
<1>2. DOMAIN t = 1..Len(s) - 1 /\ DOMAIN s = 1..Len(s)
  BY <1>1, LenProperties
<1> HIDE DEF t
<1>3. ASSUME NEW j \in DOMAIN t PROVE t[j] \in Range(s) \ {s[i]}
  <2>1. PICK k \in DOMAIN s : t[j] = s[k] /\ k # i
    <3>1. CASE j < i
      BY <1>1, <1>2, <3>1
    <3>2. CASE ~(j < i)
      <4>1. j + 1 \in DOMAIN s /\ j + 1 # i /\ t[j] = s[j + 1]
        BY <1>1, <1>2, <3>2
      <4> QED BY <4>1
    <3> QED BY <3>1, <3>2
  <2>2. s[k] # s[i]
    BY <1>2, <2>1 DEF Distinct
  <2> QED BY <2>1, <2>2 DEF Range
<1>4. ASSUME NEW k \in DOMAIN s, k # i PROVE s[k] \in Range(t)
  <2>1. CASE k < i
    <3>1. k \in DOMAIN t /\ t[k] = s[k]
      BY <1>1, <1>2, <2>1
    <3> QED BY <3>1 DEF Range
  <2>2. CASE ~(k < i)
    <3>1. k - 1 \in DOMAIN t /\ ~(k - 1 < i) /\ (k - 1) + 1 = k
      BY <1>1, <1>2, <1>4, <2>2
    <3>2. t[k - 1] = s[k]
      BY <1>1, <1>2, <3>1
    <3> QED BY <3>1, <3>2 DEF Range
  <2> QED BY <2>1, <2>2
<1>5. Range(t) = Range(s) \ {s[i]}
  BY <1>3, <1>4 DEF Range
<1> QED BY <1>5 DEF t

LEMMA TailIsRemove ==
  ASSUME NEW S, NEW s \in Seq(S), s # <<>>
  PROVE  Tail(s) = RemoveAt(s, 1) /\ 1 \in 1..Len(s) /\ Head(s) = s[1]
<1>1. Len(s) \in Nat \ {0}
  BY EmptySeq
<1>2. /\ Tail(s) \in Seq(S) /\ Len(Tail(s)) = Len(s) - 1
      /\ \A j \in 1..Len(Tail(s)) : Tail(s)[j] = s[j + 1]
  BY HeadTailProperties
<1>3. 1 \in 1..Len(s)
  BY <1>1
<1>4. /\ RemoveAt(s, 1) \in Seq(S) /\ Len(RemoveAt(s, 1)) = Len(s) - 1
      /\ \A j \in 1..Len(s) - 1 : RemoveAt(s, 1)[j] = IF j < 1 THEN s[j] ELSE s[j + 1]
  BY <1>3, RemoveAtFacts
<1>5. \A j \in 1..Len(Tail(s)) : Tail(s)[j] = RemoveAt(s, 1)[j]
  BY <1>1, <1>2, <1>4
<1>6. Tail(s) = RemoveAt(s, 1)
  BY <1>2, <1>4, <1>5, SeqEqual
<1> QED BY <1>3, <1>6

(* A hit changes the order of the used buffers and nothing else.           *)
LEMMA TouchShape ==
  ASSUME NEW n, NEW x, Ok(x, n), Sound(x), NEW i \in DOMAIN x.used
  PROVE  LET y == Touch(x, i)
         IN /\ y.buf = x.buf /\ y.disk = x.disk /\ y.free = x.free
            /\ InUse(y) = InUse(x) /\ Youngest(y, x.used[i]) /\ y.blk = x.used[i]
<1> DEFINE t == [x EXCEPT !.used = RemoveAt(@, i)]
           b == x.used[i]
<1>1. /\ x.used \in Seq(Buffers) /\ Distinct(x.used) /\ i \in 1..Len(x.used)
      /\ b \in Buffers /\ b \in InUse(x)
  BY PoolTypes DEF Sound, InUse, Range
<1>2. Range(RemoveAt(x.used, i)) = Range(x.used) \ {b}
  BY <1>1, WithoutOne
<1>3. Ok(t, n) /\ t.buf = x.buf /\ t.disk = x.disk
  BY TakeUsedOk
<1>4. t.free = x.free /\ t.used = RemoveAt(x.used, i)
  BY DEF Ok, BlockFile
<1>5. Touch(x, i) = Use(t, b)
  BY DEF Touch
<1> HIDE DEF t, b
<1>6. LET y == Use(t, b)
      IN /\ y.buf = t.buf /\ y.disk = t.disk /\ y.free = t.free
         /\ InUse(y) = InUse(t) \cup {b} /\ Youngest(y, b) /\ y.blk = b
  BY <1>1, <1>3, UseShape
<1>7. InUse(t) \cup {b} = InUse(x)
  BY <1>1, <1>2, <1>4 DEF InUse
<1> QED BY <1>3, <1>4, <1>5, <1>6, <1>7 DEF b

(* The victim of a miss leaves the list it was in.  The youngest buffer is *)
(* not the victim when the lists hold two.                                 *)
LEMMA VictimShape ==
  ASSUME NEW n, NEW x, Ok(x, n), Sound(x), ~Exhausted(x)
  PROVE  LET t == TakeVictim(x)
             b == Victim(x)
         IN /\ t.buf = x.buf /\ t.disk = x.disk
            /\ t.lastBlock = x.lastBlock /\ t.diskLast = x.diskLast
            /\ InUse(t) = InUse(x) \ {b} /\ InFree(t) = InFree(x) \ {b}
            /\ b \in (IF x.free # <<>> THEN InFree(x) ELSE InUse(x))
            /\ \A c : Youngest(x, c) /\ Size(x) >= 2 => c # b
<1> DEFINE t == TakeVictim(x)
           b == Victim(x)
<1>1. /\ x.used \in Seq(Buffers) /\ Distinct(x.used)
      /\ x.free \in Seq(Buffers) /\ Distinct(x.free) /\ Disjoint(x.free, x.used)
  BY PoolTypes DEF Sound
<1>2. \A c \in InFree(x) : c \notin InUse(x)
  BY <1>1 DEF Disjoint, InUse, InFree, Range
<1>3. CASE x.free # <<>>
  <2>1. b = x.free[1] /\ 1 \in 1..Len(x.free) /\ Tail(x.free) = RemoveAt(x.free, 1)
    BY <1>1, <1>3, TailIsRemove DEF Victim
  <2>2. Range(Tail(x.free)) = Range(x.free) \ {b}
    BY <1>1, <2>1, WithoutOne
  <2>3. /\ t.buf = x.buf /\ t.disk = x.disk /\ t.used = x.used /\ t.free = Tail(x.free)
        /\ t.lastBlock = x.lastBlock /\ t.diskLast = x.diskLast
    BY <1>3 DEF TakeVictim, Ok, BlockFile
  <2>4. b \in InFree(x)
    BY <1>1, <2>1, LenProperties DEF InFree, Range
  <2> HIDE DEF t, b
  <2>5. InUse(t) = InUse(x) \ {b} /\ InFree(t) = InFree(x) \ {b}
    BY <1>2, <2>2, <2>3, <2>4 DEF InUse, InFree
  <2>6. \A c : Youngest(x, c) => c # b
    BY <1>2, <2>4, ListsTypes
  <2> QED BY <1>3, <2>3, <2>4, <2>5, <2>6 DEF t, b
<1>4. CASE x.free = <<>>
  <2>1. x.used # <<>>
    BY <1>4 DEF Exhausted
  <2>2. b = x.used[1] /\ 1 \in 1..Len(x.used) /\ Tail(x.used) = RemoveAt(x.used, 1)
    BY <1>1, <1>4, <2>1, TailIsRemove DEF Victim
  <2>3. Range(Tail(x.used)) = Range(x.used) \ {b}
    BY <1>1, <2>2, WithoutOne
  <2>4. /\ t.buf = x.buf /\ t.disk = x.disk /\ t.used = Tail(x.used) /\ t.free = x.free
        /\ t.lastBlock = x.lastBlock /\ t.diskLast = x.diskLast
    BY <1>4 DEF TakeVictim, Ok, BlockFile
  <2>5. b \in InUse(x)
    BY <1>1, <2>2, LenProperties DEF InUse, Range
  <2>6. Len(x.free) = 0 /\ Len(x.used) \in Nat
    BY <1>1, <1>4, EmptySeq, LenProperties
  <2>7. Size(x) = Len(x.used)
    BY <2>6 DEF Size
  <2>8. ASSUME NEW c, Youngest(x, c), Size(x) >= 2 PROVE c # b
    <3>1. c = x.used[Len(x.used)] /\ Len(x.used) # 1 /\ Len(x.used) \in 1..Len(x.used)
      BY <2>6, <2>7, <2>8 DEF Youngest
    <3>2. DOMAIN x.used = 1..Len(x.used)
      BY <1>1, LenProperties
    <3> QED BY <1>1, <2>2, <3>1, <3>2 DEF Distinct
  <2> HIDE DEF t, b
  <2>9. InUse(t) = InUse(x) \ {b} /\ InFree(t) = InFree(x) \ {b}
    BY <1>2, <2>3, <2>4, <2>5 DEF InUse, InFree
  <2> QED BY <1>4, <2>4, <2>5, <2>8, <2>9 DEF t, b
<1> QED BY <1>3, <1>4

(* A miss: the victim is written to its block, then filled from block m.   *)
LEMMA LoadShape ==
  ASSUME NEW n, NEW x, Ok(x, n), Sound(x), ~Exhausted(x), NEW m \in 0..n - 1
  PROVE  LET y == Load(x, m)
             b == Victim(x)
             c == ListToBlock(x.buf[b])
         IN /\ b \in Buffers
            /\ Becomes(x, y, b, Filled(c, m, y.disk[m + 1]))
            /\ Written(x, y, x.buf[b].blockNumber, c.img)
            /\ InUse(y) = InUse(x) \cup {b} /\ InFree(y) = InFree(x) \ {b}
            /\ Youngest(y, b) /\ y.blk = b
<1> DEFINE b == Victim(x)
           t == TakeVictim(x)
           c == ListToBlock(x.buf[b])
           v == Flush(t, b)
           w == SetBuffer(v, b, Filled(v.buf[b], m, GetFileBlock(v, m)))
           y == Use(w, b)
<1>1. /\ t.buf = x.buf /\ t.disk = x.disk
      /\ InUse(t) = InUse(x) \ {b} /\ InFree(t) = InFree(x) \ {b}
      /\ b \in (IF x.free # <<>> THEN InFree(x) ELSE InUse(x))
  BY VictimShape
<1>2. Ok(t, n) /\ b \in Buffers
  BY TakeVictimOk
<1>3. Load(x, m) = y
  BY DEF Load
<1> HIDE DEF t, b
<1>4. /\ SameLists(t, v) /\ Becomes(t, v, b, c) /\ Ok(v, n)
      /\ Written(t, v, x.buf[b].blockNumber, c.img)
  <2>1. Ok(v, n)
    BY <1>2, FlushOk
  <2> QED BY <1>1, <1>2, <2>1, FlushShape
<1> HIDE DEF v, c
<1>5. /\ w.disk = v.disk /\ SameLists(v, w)
      /\ Becomes(v, w, b, Filled(v.buf[b], m, GetFileBlock(v, m))) /\ Ok(w, n)
  <2>1. Filled(v.buf[b], m, GetFileBlock(v, m)) \in Buffer(n)
    <3>1. v.buf[b] \in Buffer(n) /\ n \in Nat \ {0}
      BY <1>2, <1>4, BufferType DEF Ok
    <3>2. GetFileBlock(v, m) \in Image(n)
      BY <1>4 DEF GetFileBlock, Ok, BlockFile
    <3> QED BY <3>1, <3>2, ContentTypes
  <2> QED BY <1>2, <1>4, <2>1, SetShape, SetBufferOk
<1> HIDE DEF w
<1>6. /\ y.buf = w.buf /\ y.disk = w.disk /\ y.free = w.free
      /\ InUse(y) = InUse(w) \cup {b} /\ Youngest(y, b) /\ y.blk = b
  BY <1>2, <1>5, UseShape
<1> HIDE DEF y
<1>7. InUse(w) = InUse(t) /\ InFree(w) = InFree(t) /\ InFree(y) = InFree(w)
  BY <1>4, <1>5, <1>6 DEF SameLists, InUse, InFree
<1>8. InUse(y) = InUse(x) \cup {b} /\ InFree(y) = InFree(x) \ {b}
  BY <1>1, <1>6, <1>7
<1>9. v.buf[b] = c /\ GetFileBlock(v, m) = y.disk[m + 1]
  BY <1>4, <1>5, <1>6 DEF Becomes, GetFileBlock
<1>10. Becomes(x, y, b, Filled(c, m, y.disk[m + 1]))
  BY <1>1, <1>4, <1>5, <1>6, <1>9 DEF Becomes
<1>11. Written(x, y, x.buf[b].blockNumber, c.img)
  BY <1>1, <1>4, <1>5, <1>6 DEF Written
<1> QED BY <1>2, <1>3, <1>6, <1>8, <1>10, <1>11 DEF b, c

(* z is x after the steps of getNewBlock up to the test of where the file  *)
(* ends: the contents c its victim b was left with, and block m it had.    *)
Placed(x, z, b, c, m, n) ==
  /\ Ok(z, n + 1) /\ Becomes(x, z, b, ClearList(c))
  /\ Len(z.disk) = n + 1 /\ z.disk[n + 1] = ClearList(c).img
  /\ \A k \in 1..n : z.disk[k] = IF x.free = <<>> /\ k = m + 1 THEN c.img ELSE x.disk[k]
  /\ InUse(z) = InUse(x) \ {b} /\ InFree(z) = InFree(x) \ {b}
  /\ GetNewBlock(x) =
       IF n # x.lastBlock + 1 THEN [z EXCEPT !.blk = NULL]
       ELSE Use(SetBuffer(z, b, [z.buf[b] EXCEPT !.blockNumber = n]), b)

(* getNewBlock, up to the test of where the file ends: a used victim is    *)
(* written to its block, and the file has one block more.                  *)
LEMMA NewPlace ==
  ASSUME NEW n, NEW x, Ok(x, n), Sound(x), ~Exhausted(x)
  PROVE  LET b == Victim(x)
             c == IF x.free # <<>> THEN x.buf[b] ELSE ListToBlock(x.buf[b])
             m == x.buf[b].blockNumber
         IN b \in Buffers /\ \E z : Placed(x, z, b, c, m, n)
<1> DEFINE b == Victim(x)
           t == TakeVictim(x)
           c == IF x.free # <<>> THEN x.buf[b] ELSE ListToBlock(x.buf[b])
           m == x.buf[b].blockNumber
           f == Flush(t, b)
           v == IF x.free # <<>> THEN t ELSE f
           l == SetBuffer(v, b, ClearList(v.buf[b]))
           z == AppendFileBlock(l, b)
<1>1. n \in Nat \ {0} /\ FileEnd(x) = n /\ Len(x.disk) = n
  BY DEF Ok, FileEnd
<1>2. GetNewBlock(x) =
        IF n # x.lastBlock + 1 THEN [z EXCEPT !.blk = NULL]
        ELSE Use(SetBuffer(z, b, [z.buf[b] EXCEPT !.blockNumber = n]), b)
  BY <1>1 DEF GetNewBlock
<1>3. /\ t.buf = x.buf /\ t.disk = x.disk
      /\ InUse(t) = InUse(x) \ {b} /\ InFree(t) = InFree(x) \ {b}
  BY VictimShape
<1>4. Ok(t, n) /\ b \in Buffers
  BY TakeVictimOk
<1> HIDE DEF t, b
<1>5. /\ SameLists(t, f) /\ Becomes(t, f, b, ListToBlock(x.buf[b])) /\ Ok(f, n)
      /\ Written(t, f, m, ListToBlock(x.buf[b]).img)
  BY <1>3, <1>4, FlushOk, FlushShape
<1> HIDE DEF f
<1>6. /\ Ok(v, n) /\ SameLists(t, v) /\ Becomes(x, v, b, c)
      /\ \A k \in 1..n : v.disk[k] = IF x.free = <<>> /\ k = m + 1 THEN c.img ELSE x.disk[k]
  <2>1. CASE x.free # <<>>
    BY <1>3, <1>4, <2>1 DEF SameLists, Becomes
  <2>2. CASE x.free = <<>>
    <3>1. v = f /\ c = ListToBlock(x.buf[b])
      BY <2>2
    <3> HIDE DEF v, c
    <3> QED BY <1>1, <1>3, <1>5, <2>2, <3>1 DEF SameLists, Becomes, Written
  <2> QED BY <2>1, <2>2
<1> HIDE DEF v, c, m
<1>7. l.disk = v.disk /\ SameLists(v, l) /\ Becomes(v, l, b, ClearList(v.buf[b])) /\ Ok(l, n)
  <2>1. ClearList(v.buf[b]) \in Buffer(n)
    BY <1>1, <1>4, <1>6, BufferType, ContentTypes DEF Remade
  <2> QED BY <1>4, <1>6, <2>1, SetShape, SetBufferOk
<1> HIDE DEF l
<1>8. /\ z.buf = l.buf /\ SameLists(l, z) /\ Len(z.disk) = n + 1 /\ Ok(z, n + 1)
      /\ z.disk[n + 1] = l.buf[b].img
      /\ \A k \in 1..n : z.disk[k] = l.disk[k]
  <2>1. Ok(z, n + 1)
    BY <1>4, <1>7, AppendFileBlockOk
  <2> QED BY <1>4, <1>7, <2>1, AppendShape
<1> HIDE DEF z
<1>9. InUse(z) = InUse(x) \ {b} /\ InFree(z) = InFree(x) \ {b}
  <2>1. z.used = t.used /\ z.free = t.free
    BY <1>6, <1>7, <1>8 DEF SameLists
  <2> QED BY <1>3, <2>1 DEF InUse, InFree
<1>10. v.buf[b] = c /\ l.buf[b] = ClearList(c)
  BY <1>6, <1>7 DEF Becomes
<1>11. Becomes(x, z, b, ClearList(c))
  BY <1>6, <1>7, <1>8, <1>10 DEF Becomes
<1>12. /\ z.disk[n + 1] = ClearList(c).img
       /\ \A k \in 1..n : z.disk[k] = IF x.free = <<>> /\ k = m + 1 THEN c.img ELSE x.disk[k]
  BY <1>6, <1>7, <1>8, <1>10
<1>13. Placed(x, z, b, c, m, n)
  BY <1>2, <1>8, <1>9, <1>11, <1>12 DEF Placed
<1> QED BY <1>4, <1>13 DEF b, c, m

(* When it returns a buffer, that buffer has the new block.                *)
LEMMA NewShape ==
  ASSUME NEW n, NEW x, Ok(x, n), Sound(x), GetNewBlock(x).blk # NULL
  PROVE  LET y == GetNewBlock(x)
             b == Victim(x)
             c == IF x.free # <<>> THEN x.buf[b] ELSE ListToBlock(x.buf[b])
             m == x.buf[b].blockNumber
         IN /\ b \in Buffers /\ y.blk = b /\ ~Exhausted(x)
            /\ Becomes(x, y, b, [ClearList(c) EXCEPT !.blockNumber = n])
            /\ Len(y.disk) = n + 1 /\ y.disk[n + 1] = ClearList(c).img
            /\ \A k \in 1..n : y.disk[k] = IF x.free = <<>> /\ k = m + 1
                                             THEN c.img ELSE x.disk[k]
            /\ InUse(y) = InUse(x) \cup {b} /\ InFree(y) = InFree(x) \ {b}
            /\ Youngest(y, b)
<1> DEFINE b == Victim(x)
           c == IF x.free # <<>> THEN x.buf[b] ELSE ListToBlock(x.buf[b])
           m == x.buf[b].blockNumber
<1>1. ~Exhausted(x)
  BY DEF GetNewBlock, Ok, BlockFile
<1>2. n \in Nat \ {0} /\ n = x.lastBlock + 1
  BY GetNewBlockOk, CacheSizeAssumption DEF Got, NULL, Buffers, Ok
<1>3. b \in Buffers /\ \E z : Placed(x, z, b, c, m, n)
  BY <1>1, NewPlace
<1>15. PICK z : Placed(x, z, b, c, m, n)
  BY <1>3
<1> HIDE DEF b, c, m
<1> DEFINE d == [z.buf[b] EXCEPT !.blockNumber = n]
           w == SetBuffer(z, b, d)
           y == Use(w, b)
<1>4. /\ w.disk = z.disk /\ SameLists(z, w) /\ Ok(w, n + 1) /\ Becomes(z, w, b, d)
  <2>1. d \in Buffer(n + 1)
    <3>1. z.buf[b] \in Buffer(n + 1) /\ n \in 0..(n + 1) - 1
      BY <1>2, <1>3, <1>15, BufferType DEF Placed
    <3> QED BY <3>1 DEF Buffer
  <2> HIDE DEF d
  <2> QED BY <1>3, <1>15, <2>1, SetShape, SetBufferOk DEF Placed
<1>5. z.buf[b] = ClearList(c)
  BY <1>15 DEF Becomes, Placed
<1> HIDE DEF w, d
<1>6. /\ y.buf = w.buf /\ y.disk = w.disk /\ y.free = w.free
      /\ InUse(y) = InUse(w) \cup {b} /\ Youngest(y, b) /\ y.blk = b
  BY <1>3, <1>4, UseShape
<1>7. GetNewBlock(x) = y
  BY <1>2, <1>15 DEF y, w, d, Placed
<1> HIDE DEF y
<1>8. InUse(y) = InUse(x) \cup {b} /\ InFree(y) = InFree(x) \ {b}
  <2>1. InUse(w) = InUse(z) /\ InFree(y) = InFree(z)
    BY <1>4, <1>6 DEF SameLists, InUse, InFree
  <2> QED BY <1>3, <1>15, <1>6, <2>1 DEF Placed
<1>9. Becomes(x, y, b, [ClearList(c) EXCEPT !.blockNumber = n])
  BY <1>15, <1>4, <1>5, <1>6 DEF Becomes, d, Placed
<1>10. /\ Len(y.disk) = n + 1 /\ y.disk[n + 1] = ClearList(c).img
       /\ \A k \in 1..n : y.disk[k] = IF x.free = <<>> /\ k = m + 1 THEN c.img ELSE x.disk[k]
  BY <1>15, <1>4, <1>6 DEF Placed
<1> QED BY <1>1, <1>3, <1>6, <1>7, <1>8, <1>9, <1>10 DEF b, c, m

-----------------------------------------------------------------------------
(* Counts: no block is read with more pairs than fit, and the control      *)
(* block is not read at all.                                               *)

Count == 0..numMaxItems

Counts(x) ==
  /\ \A b \in Buffers : x.buf[b].img.numKeyItems \in Count
  /\ \A k \in 2..Len(x.disk) : x.disk[k].numKeyItems \in Count
  /\ x.disk[1].numKeyItems \in Count \cup {HEADER}

(* The lists of the buffers outside B fit in a block.                      *)
Room(x, B) == \A b \in Buffers \ B : Len(x.buf[b].list) <= numMaxItems
Fit(x, B)  == Counts(x) /\ Room(x, B)

(* The free buffers were never used, so that a miss would write over the   *)
(* control block.                                                          *)
Blank(x) == \A b \in InFree(x) : x.buf[b].blockNumber = 0

(* While the file still has its control block at most one buffer is used:  *)
(* that of the first block, which has no neighbours.                       *)
Sole(x, b) ==
  /\ InUse(x) = {b}
  /\ x.buf[b].blockNumber # 0
  /\ x.buf[b].img.prevBlock = 0 /\ x.buf[b].img.nextBlock = 0
Header(x) == Accepted(x) => Blank(x) /\ \A b \in InUse(x) : Sole(x, b)

(* A used buffer that is not free, and a list of buffers without any.      *)
LEMMA ListsApart ==
  ASSUME NEW n, NEW x, Ok(x, n), Sound(x)
  PROVE  /\ \A b \in InFree(x) : b \notin InUse(x)
         /\ x.free = <<>> <=> InFree(x) = {}
         /\ x.used = <<>> <=> InUse(x) = {}
<1>1. \A b \in InFree(x) : b \notin InUse(x)
  BY DEF Sound, Disjoint, InUse, InFree, Range
<1>2. ASSUME NEW s \in Seq(Buffers) PROVE s = <<>> <=> Range(s) = {}
  <2>1. s # <<>> => 1 \in DOMAIN s
    BY EmptySeq, LenProperties
  <2> QED BY <2>1, EmptySeq, LenProperties DEF Range
<1> QED BY <1>1, <1>2, PoolTypes DEF InUse, InFree

(* Two buffers at most make a list of two at most.                         *)
LEMMA FewUsed ==
  ASSUME NEW n, NEW x, Ok(x, n), Sound(x), NEW b, NEW c, InUse(x) \subseteq {b, c}
  PROVE  /\ Len(x.used) <= 2
         /\ Size(x) >= 3 => x.free # <<>>
<1>1. Len(x.used) \in Nat /\ DOMAIN x.used = 1..Len(x.used) /\ Len(x.free) \in Nat
  BY PoolTypes
<1>2. \A i \in DOMAIN x.used : x.used[i] = b \/ x.used[i] = c
  BY DEF InUse, Range
<1>3. ASSUME ~(Len(x.used) <= 2) PROVE FALSE
  <2>1. 1 \in DOMAIN x.used /\ 2 \in DOMAIN x.used /\ 3 \in DOMAIN x.used
    BY <1>1, <1>3
  <2>2. x.used[1] # x.used[2] /\ x.used[1] # x.used[3] /\ x.used[2] # x.used[3]
    BY <2>1 DEF Sound, Distinct
  <2> QED BY <1>2, <2>1, <2>2
<1>4. ASSUME Size(x) >= 3, x.free = <<>> PROVE FALSE
  <2>1. Len(x.free) = 0
    BY <1>4, EmptySeq
  <2> QED BY <1>1, <1>3, <1>4, <2>1 DEF Size
<1> QED BY <1>3, <1>4

(* One buffer is replaced by one that fits.                                *)
LEMMA SetFit ==
  ASSUME NEW n, NEW x, Ok(x, n), NEW b \in Buffers, NEW c, NEW B,
         Fit(x, B \cup {b}), c.img.numKeyItems \in Count,
         b \in B \/ Len(c.list) <= numMaxItems
  PROVE  Fit(SetBuffer(x, b, c), B) /\ (Accepted(SetBuffer(x, b, c)) <=> Accepted(x))
<1> DEFINE y == SetBuffer(x, b, c)
<1>1. y.disk = x.disk /\ Becomes(x, y, b, c)
  BY SetShape
<1> HIDE DEF y
<1>2. Counts(y)
  BY <1>1 DEF Fit, Counts, Becomes
<1>3. Room(y, B)
  BY <1>1 DEF Fit, Room, Becomes
<1>4. Accepted(y) <=> Accepted(x)
  BY <1>1 DEF Accepted, GetFileBlock
<1> QED BY <1>2, <1>3, <1>4 DEF Fit, y

(* A block is written: it can only destroy the control block.              *)
LEMMA PutFit ==
  ASSUME NEW n, NEW x, Ok(x, n), NEW b \in Buffers, NEW B, Fit(x, B)
  PROVE  Fit(PutFileBlock(x, b), B) /\ (Accepted(PutFileBlock(x, b)) => Accepted(x))
<1> DEFINE y == PutFileBlock(x, b)
           m == x.buf[b].blockNumber
<1>1. y.buf = x.buf /\ Written(x, y, m, x.buf[b].img)
  BY PutShape
<1>2. n \in Nat \ {0} /\ Len(x.disk) = n /\ m \in 0..n - 1
  BY BlockNumbers DEF Ok
<1> HIDE DEF y, m
<1>3. x.buf[b].img.numKeyItems \in Count
  BY DEF Fit, Counts
<1>4. \A k \in 1..n : y.disk[k] = x.disk[k] \/ y.disk[k].numKeyItems \in Count
  BY <1>1, <1>2, <1>3 DEF Written
<1>5. Len(y.disk) = n /\ 1 \in 1..n /\ \A k \in 2..n : k \in 1..n
  BY <1>1, <1>2 DEF Written
<1>6. Counts(y)
  BY <1>1, <1>2, <1>4, <1>5 DEF Fit, Counts
<1>7. Accepted(y) => Accepted(x)
  <2>1. HEADER \notin Count
    BY DEF HEADER, Count
  <2>2. y.disk[0 + 1] = x.disk[0 + 1] \/ y.disk[0 + 1].numKeyItems \in Count
    BY <1>4, <1>5
  <2> QED BY <2>1, <2>2 DEF Accepted, GetFileBlock
<1> QED BY <1>1, <1>6, <1>7 DEF Fit, Room, y

(* The contents of buffers that fit.                                       *)
LEMMA ContentFits ==
  ASSUME NEW n \in Nat \ {0}, NEW c \in Buffer(n), Len(c.list) <= numMaxItems
  PROVE  /\ ListToBlock(c).img.numKeyItems \in Count /\ ListToBlock(c).list = c.list
         /\ ClearList(c).img = c.img /\ ClearList(c).list = <<>>
<1>1. Len(c.list) \in Nat /\ numMaxItems \in Nat
  BY MaxItemsAssumption, LenProperties DEF Buffer, Items
<1>2. Len(c.list) \in Count
  BY <1>1 DEF Count
<1>3. c.img \in Image(n)
  BY DEF Buffer
<1>4. ListToBlock(c).img.numKeyItems = Len(c.list) /\ ListToBlock(c).list = c.list
  BY <1>3 DEF ListToBlock, Buffer, Image
<1>5. ClearList(c).img = c.img /\ ClearList(c).list = <<>>
  BY DEF ClearList, Buffer
<1> QED BY <1>2, <1>4, <1>5

LEMMA FilledFits ==
  ASSUME NEW n \in Nat \ {0}, NEW c \in Buffer(n), NEW m, NEW i \in Image(n),
         i.numKeyItems \in Count
  PROVE  LET d == Filled(c, m, i)
         IN d.img = i /\ d.list = BlockToList(i) /\ Len(d.list) <= numMaxItems
            /\ d.blockNumber = m /\ d.sized /\ d.isDirty
<1>1. LET d == Filled(c, m, i)
      IN d.img = i /\ d.list = BlockToList(i) /\ d.blockNumber = m /\ d.sized /\ d.isDirty
  BY DEF Filled, ClearList, Buffer
<1>2. i.numKeyItems \in Nat /\ i.numKeyItems <= numMaxItems
  BY MaxItemsAssumption DEF Count
<1>3. BlockToList(i) \in Seq(KeyItem \cup {Zeros}) /\ DOMAIN BlockToList(i) = 1..i.numKeyItems
  BY BlockToListType DEF Items, BlockToList
<1>4. Len(BlockToList(i)) = i.numKeyItems
  BY <1>2, <1>3, LenProperties
<1> QED BY <1>1, <1>2, <1>4

(* A miss with the control block still there destroys it: the buffer it    *)
(* takes is one that was never used.                                       *)
LEMMA LoadFit ==
  ASSUME NEW n, NEW x, Ok(x, n), Sound(x), ~Exhausted(x), NEW m \in 0..n - 1,
         NotHeld(x, m), NEW B, Fit(x, B), Victim(x) \notin B,
         Accepted(x) => x.free # <<>> /\ Blank(x)
  PROVE  Fit(Load(x, m), B) /\ ~Accepted(Load(x, m))
<1> DEFINE y == Load(x, m)
           b == Victim(x)
           c == ListToBlock(x.buf[b])
           d == Filled(c, m, y.disk[m + 1])
           k == x.buf[b].blockNumber
<1>1. b \in Buffers /\ Becomes(x, y, b, d) /\ Written(x, y, k, c.img)
  BY LoadShape
<1>2. n \in Nat \ {0} /\ Len(x.disk) = n /\ Len(y.disk) = n /\ k \in 0..n - 1
  BY <1>1, BlockNumbers DEF Ok, Written
<1>3. c.img.numKeyItems \in Count /\ c \in Buffer(n)
  <2>1. x.buf[b] \in Buffer(n) /\ Len(x.buf[b].list) <= numMaxItems
    BY <1>1, BufferType DEF Fit, Room
  <2> QED BY <1>2, <2>1, ContentFits, ContentTypes DEF Remade
<1>4. \A j \in 1..n : y.disk[j] = x.disk[j] \/ y.disk[j].numKeyItems \in Count
  BY <1>1, <1>2, <1>3 DEF Written
<1>5. 1 \in 1..n /\ m + 1 \in 1..n /\ \A j \in 2..n : j \in 1..n
  BY <1>2
<1>6. y.disk[m + 1] \in Image(n)
  <2>1. Ok(y, n)
    BY LoadOk DEF Got
  <2> QED BY <1>5, <2>1 DEF Ok, BlockFile
<1>7. Accepted(x) => k = 0
  <2>1. ASSUME Accepted(x) PROVE b \in InFree(x)
    BY <2>1, VictimShape
  <2> QED BY <2>1 DEF Blank
<1> HIDE DEF y, b, c, k
<1>8. y.disk[1].numKeyItems \in Count
  <2>1. CASE Accepted(x)
    BY <1>1, <1>3, <1>7, <2>1 DEF Written
  <2>2. CASE ~Accepted(x)
    BY <1>4, <1>5, <2>2 DEF Accepted, GetFileBlock, Fit, Counts
  <2> QED BY <2>1, <2>2
<1>9. \A j \in 1..n : y.disk[j].numKeyItems \in Count
  <2>1. \A j \in 2..n : y.disk[j].numKeyItems \in Count
    BY <1>2, <1>4, <1>5 DEF Fit, Counts
  <2>2. \A j \in 1..n : j = 1 \/ j \in 2..n
    BY <1>2
  <2> QED BY <1>8, <2>1, <2>2
<1>10. d.img.numKeyItems \in Count /\ Len(d.list) <= numMaxItems
  BY <1>2, <1>3, <1>5, <1>6, <1>9, FilledFits
<1> HIDE DEF d
<1>11. Counts(y)
  BY <1>1, <1>2, <1>5, <1>9, <1>10 DEF Counts, Fit, Becomes
<1>12. Room(y, B)
  BY <1>1, <1>10 DEF Room, Fit, Becomes
<1>13. ~Accepted(y)
  <2>1. HEADER \notin Count
    BY DEF HEADER, Count
  <2> QED BY <1>8, <2>1 DEF Accepted, GetFileBlock
<1> QED BY <1>11, <1>12, <1>13 DEF Fit, y

(* getIndexBlock: a hit changes nothing, a miss leaves no control block.   *)
LEMMA GetFit ==
  ASSUME NEW n, NEW x, Ok(x, n), Sound(x), Size(x) # 0, NEW m \in 0..n - 1,
         Fit(x, {}), Accepted(x) => x.free # <<>> /\ Blank(x)
  PROVE  LET y == GetIndexBlock(x, m)
         IN /\ Fit(y, {})
            /\ \/ ~Accepted(y) /\ NotHeld(x, m)
               \/ /\ y.buf = x.buf /\ y.disk = x.disk /\ y.free = x.free
                  /\ InUse(y) = InUse(x) /\ y.blk \in InUse(x)
                  /\ x.buf[y.blk].blockNumber = m
<1>1. CASE Hits(x, m) = {}
  <2>1. NotHeld(x, m) /\ ~Exhausted(x)
    BY <1>1, HitsFacts, SizeType
  <2>2. Fit(Load(x, m), {}) /\ ~Accepted(Load(x, m))
    BY <2>1, LoadFit
  <2> QED BY <1>1, <2>1, <2>2 DEF GetIndexBlock
<1>2. CASE Hits(x, m) # {}
  <2> DEFINE i == Max(Hits(x, m))
             y == Touch(x, i)
  <2>1. PICK j \in Hits(x, m) : TRUE
    BY <1>2
  <2>2. i \in DOMAIN x.used
    BY <1>2, HitsFacts
  <2>3. x.buf[x.used[i]].blockNumber = m
    <3>1. \A k \in Hits(x, m) : k = j
      BY <2>1 DEF Hits, Sound, OneBufferPerBlock
    <3>2. Hits(x, m) = {j}
      BY <2>1, <3>1
    <3>3. j \in Int
      BY <2>1, PoolTypes DEF Hits
    <3>4. i = j
      BY <3>2, <3>3 DEF Max
    <3> QED BY <2>1, <3>4 DEF Hits
  <2> HIDE DEF i
  <2>4. /\ y.buf = x.buf /\ y.disk = x.disk /\ y.free = x.free
        /\ InUse(y) = InUse(x) /\ y.blk = x.used[i]
    BY <2>2, TouchShape
  <2>5. x.used[i] \in InUse(x)
    BY <2>2 DEF InUse, Range
  <2>6. GetIndexBlock(x, m) = y
    BY <1>2 DEF GetIndexBlock, i
  <2> HIDE DEF y
  <2>7. Fit(y, {})
    BY <2>4 DEF Fit, Counts, Room
  <2> QED BY <2>3, <2>4, <2>5, <2>6, <2>7
<1> QED BY <1>1, <1>2

-----------------------------------------------------------------------------
(* splitBlock.                                                             *)

LEMMA HalvesLengths ==
  ASSUME NEW l \in Items
  PROVE  /\ Kept(l) \in Nat /\ Kept(l) <= Len(l) /\ Len(l) \in Nat
         /\ Len(SubSeq(l, 1, Kept(l))) = Kept(l)
         /\ Len(Moved(l)) = Len(l) - Kept(l) /\ Moved(l) \in Items
         /\ \A j \in 1..Kept(l) : SubSeq(l, 1, Kept(l))[j] = l[j]
         /\ \A j \in 1..Len(l) - Kept(l) : Moved(l)[j] = l[Kept(l) + j]
         /\ Len(l) <= numMaxItems + 1 => Kept(l) <= numMaxItems /\ Len(Moved(l)) <= numMaxItems
         /\ Len(l) > numMaxItems => Kept(l) # 0 /\ Moved(l) # <<>>
<1>1. l \in Seq(KeyItem \cup {Zeros}) /\ Len(l) \in Nat
  BY LenProperties DEF Items
<1>2. /\ Kept(l) \in Nat /\ Kept(l) <= Len(l) /\ Kept(l) = Len(l) - Len(l) \div 2
  BY <1>1 DEF Kept
<1>3. Len(SubSeq(l, 1, Kept(l))) = Kept(l)
      /\ \A j \in 1..Kept(l) : SubSeq(l, 1, Kept(l))[j] = l[j]
  <2>1. 1 \in 1..Len(l) + 1 /\ Kept(l) \in 1 - 1..Len(l)
    BY <1>1, <1>2
  <2>2. LET t == SubSeq(l, 1, Kept(l))
        IN /\ Len(t) = IF 1 <= Kept(l) THEN Kept(l) - 1 + 1 ELSE 0
           /\ \A j \in 1..Kept(l) - 1 + 1 : t[j] = l[1 + j - 1]
    BY <1>1, <2>1, SubSeqProperties
  <2>3. Kept(l) - 1 + 1 = Kept(l) /\ \A j \in 1..Kept(l) : 1 + j - 1 = j
    BY <1>2
  <2> DEFINE t == SubSeq(l, 1, Kept(l))
             k == Kept(l)
  <2>4. Len(t) = k
    <3>1. k \in Nat /\ k - 1 + 1 = k
      BY <1>2, <2>3
    <3>2. Len(t) = IF 1 <= k THEN k - 1 + 1 ELSE 0
      BY <2>2
    <3> HIDE DEF t, k
    <3> QED BY <3>1, <3>2
  <2>5. \A j \in 1..k : t[j] = l[1 + j - 1]
    BY <2>2, <2>3
  <2>6. \A j \in 1..k : t[j] = l[j]
    <3> HIDE DEF t
    <3> QED BY <2>3, <2>5
  <2> QED BY <2>4, <2>6
<1>4. Len(Moved(l)) = Len(l) - Kept(l) /\ Moved(l) \in Items
      /\ \A j \in 1..Len(l) - Kept(l) : Moved(l)[j] = l[Kept(l) + j]
  <2>1. Kept(l) + 1 \in 1..Len(l) + 1 /\ Len(l) \in (Kept(l) + 1) - 1..Len(l)
    BY <1>1, <1>2
  <2>2. LET t == SubSeq(l, Kept(l) + 1, Len(l))
        IN /\ t \in Seq(KeyItem \cup {Zeros})
           /\ Len(t) = IF Kept(l) + 1 <= Len(l) THEN Len(l) - (Kept(l) + 1) + 1 ELSE 0
           /\ \A j \in 1..Len(t) : t[j] = l[(Kept(l) + 1) + j - 1]
    BY <1>1, <1>2, <2>1, SubSeqProperties
  <2>3. Len(Moved(l)) = Len(l) - Kept(l)
    BY <1>1, <1>2, <2>2 DEF Moved
  <2>4. \A j \in Nat : (Kept(l) + 1) + j - 1 = Kept(l) + j
    BY <1>2
  <2> QED BY <1>1, <1>2, <2>2, <2>3, <2>4 DEF Moved, Items
<1>5. Len(l) <= numMaxItems + 1 => Kept(l) <= numMaxItems /\ Len(l) - Kept(l) <= numMaxItems
  BY <1>1, <1>2, MaxItemsAssumption
<1>6. Len(l) > numMaxItems => Kept(l) # 0 /\ Len(l) - Kept(l) # 0
  BY <1>1, <1>2, MaxItemsAssumption
<1>7. Len(l) > numMaxItems => Moved(l) # <<>>
  BY <1>4, <1>6, EmptySeq DEF Items
<1> QED BY <1>1, <1>2, <1>3, <1>4, <1>5, <1>6, <1>7

(* The position p, once the links behind the k-th are gone.                *)
Cut(p, k) == IF p > k THEN GONE ELSE p

LEMMA HalfContents ==
  ASSUME NEW n \in Nat \ {0}, NEW c \in Buffer(n)
  PROVE  /\ LET d == BottomHalf(c)
            IN /\ d.list = SubSeq(c.list, 1, Kept(c.list)) /\ d.blockNumber = c.blockNumber
               /\ d.sized = c.sized /\ d.isDirty = c.isDirty
               /\ d.current = Cut(c.current, Kept(c.list))
               /\ d.img.numKeyItems = Kept(c.list)
               /\ d.img.prevBlock = c.img.prevBlock /\ d.img.nextBlock = c.img.nextBlock
         /\ \A l \in Items :
              LET d == TopHalf(c, l)
              IN /\ d.list = Moved(l) /\ d.blockNumber = c.blockNumber
                 /\ d.sized = c.sized /\ d.isDirty /\ d.current = c.current
                 /\ d.img.numKeyItems = Len(Moved(l))
                 /\ d.img.prevBlock = c.img.prevBlock /\ d.img.nextBlock = c.img.nextBlock
<1>1. c.img \in Image(n) /\ c.list \in Items
  BY DEF Buffer
<1>2. Len(SubSeq(c.list, 1, Kept(c.list))) = Kept(c.list)
  BY <1>1, HalvesLengths
<1> DEFINE h == SubSeq(c.list, 1, Kept(c.list))
<1>3. LET d == BottomHalf(c)
      IN /\ d.list = h /\ d.blockNumber = c.blockNumber
         /\ d.sized = c.sized /\ d.isDirty = c.isDirty
         /\ d.current = Cut(c.current, Kept(c.list))
         /\ d.img.numKeyItems = Len(h)
         /\ d.img.prevBlock = c.img.prevBlock /\ d.img.nextBlock = c.img.nextBlock
  <2> HIDE DEF h
  <2> QED BY <1>1 DEF BottomHalf, ListToBlock, Buffer, Image, Cut, h
<1>4. ASSUME NEW l \in Items
      PROVE  LET d == TopHalf(c, l)
              IN /\ d.list = Moved(l) /\ d.blockNumber = c.blockNumber
                 /\ d.sized = c.sized /\ d.isDirty /\ d.current = c.current
                 /\ d.img.numKeyItems = Len(Moved(l))
                 /\ d.img.prevBlock = c.img.prevBlock /\ d.img.nextBlock = c.img.nextBlock
  BY <1>1 DEF TopHalf, ListToBlock, Buffer, Image
<1> QED BY <1>2, <1>3, <1>4

LEMMA LinkContents ==
  ASSUME NEW n \in Nat \ {0}, NEW c \in Buffer(n), NEW m
  PROVE  /\ LET d == SetPrev(c, m)
            IN /\ d.list = c.list /\ d.blockNumber = c.blockNumber
               /\ d.current = c.current
               /\ d.sized = c.sized /\ d.isDirty = c.isDirty
               /\ d.img.numKeyItems = c.img.numKeyItems
               /\ d.img.prevBlock = m /\ d.img.nextBlock = c.img.nextBlock
         /\ LET d == SetNext(c, m)
            IN /\ d.list = c.list /\ d.blockNumber = c.blockNumber
               /\ d.current = c.current
               /\ d.sized = c.sized /\ d.isDirty = c.isDirty
               /\ d.img.numKeyItems = c.img.numKeyItems
               /\ d.img.prevBlock = c.img.prevBlock /\ d.img.nextBlock = m
         /\ LET d == Sized(c)
            IN /\ d.list = c.list /\ d.blockNumber = c.blockNumber
               /\ d.current = c.current
               /\ d.sized /\ d.isDirty = c.isDirty /\ d.img = c.img
<1>1. c.img \in Image(n)
  BY DEF Buffer
<1> QED BY <1>1 DEF SetPrev, SetNext, Sized, Buffer, Image

(* What buffer b and the new block's buffer r hold when splitBlock has     *)
(* linked the two blocks, in s, the x it was given and n the new block.    *)
SplitBuffers(x, s, b, r, n) ==
  LET c == x.buf[b]
      d == s.buf[b]
      e == s.buf[r]
  IN /\ \A a \in Buffers \ {b, r} : s.buf[a] = x.buf[a]
     /\ d.list = SubSeq(c.list, 1, Kept(c.list)) /\ d.blockNumber = c.blockNumber
     /\ d.sized = c.sized /\ d.isDirty = c.isDirty
     /\ d.current = Cut(c.current, Kept(c.list))
     /\ d.img.numKeyItems = Kept(c.list)
     /\ d.img.prevBlock = c.img.prevBlock /\ d.img.nextBlock = n
     /\ e.list = Moved(c.list) /\ e.blockNumber = n /\ e.sized /\ e.isDirty
     /\ e.current = Cut(x.buf[r].current, 0)
     /\ e.img.numKeyItems = Len(Moved(c.list))
     /\ e.img.prevBlock = c.blockNumber /\ e.img.nextBlock = c.img.nextBlock

(* What the file holds then; r had block m.                                *)
SplitFile(x, s, b, r, m, n) ==
  LET c == x.buf[b]
      k == c.blockNumber + 1
  IN /\ Len(s.disk) = n + 1
     /\ s.disk[n + 1].numKeyItems = Len(Moved(c.list))
     /\ s.disk[k].numKeyItems = Kept(c.list)
     /\ \A j \in 1..n : j # k =>
          s.disk[j] = IF x.free = <<>> /\ j = m + 1 THEN ListToBlock(x.buf[r]).img
                                                    ELSE x.disk[j]

(* splitBlock up to the block that followed, which it fetches last.        *)
Linked(x, s, b, r, n) ==
  /\ Ok(s, n + 1) /\ Sound(s) /\ Size(s) = Size(x)
  /\ s.lastBlock = n /\ s.diskLast = x.diskLast
  /\ InUse(s) = InUse(x) \cup {r} /\ InFree(s) = InFree(x) \ {r} /\ Youngest(s, r)
  /\ SplitBuffers(x, s, b, r, n)
  /\ SplitFile(x, s, b, r, x.buf[r].blockNumber, n)
  /\ LET f == GetIndexBlock(s, x.buf[b].img.nextBlock)
     IN SplitBlock(x, b) = [SetBuffer(f, f.blk, SetPrev(f.buf[f.blk], n)) EXCEPT !.blk = r]

LEMMA SplitShape ==
  ASSUME NEW n, NEW x, Ok(x, n), Sound(x), NEW b \in Buffers, Youngest(x, b),
         Size(x) >= 2, GetNewBlock(x).blk # NULL
  PROVE  LET r == Victim(x)
         IN r \in Buffers /\ r # b /\ \E s : Linked(x, s, b, r, n)
<1> DEFINE g == GetNewBlock(x)
           r == g.blk
           c == x.buf[b]
           l == c.list
           m == x.buf[r].blockNumber
           u == [g EXCEPT !.lastBlock = n]
           v == SetBuffer(u, b, BottomHalf(u.buf[b]))
           h == SetBuffer(v, r, TopHalf(u.buf[r], x.buf[b].list))
           o == PutFileBlock(h, b)
           w == PutFileBlock(o, r)
           e == SetBuffer(w, r, Sized(w.buf[r]))
           e1 == SetNext(e.buf[r], e.buf[b].img.nextBlock)
           e2 == SetPrev(e1, e.buf[b].blockNumber)
           t == SetBuffer(e, r, e2)
           s == SetBuffer(t, b, SetNext(t.buf[b], n))
           f == GetIndexBlock(s, x.buf[b].img.nextBlock)
           q == SetBuffer(f, f.blk, SetPrev(f.buf[f.blk], n))
<1>1. Got(x, g, n + 1) /\ n = x.lastBlock + 1 /\ g.lastBlock = x.lastBlock
  BY GetNewBlockOk
<1>2. n \in Nat \ {0} /\ n + 1 \in Nat \ {0} /\ n \in 0..(n + 1) - 1
  BY DEF Ok
<1>3. /\ l \in Items /\ c.blockNumber \in 0..n - 1
      /\ c.img.nextBlock \in 0..n - 1 /\ c \in Buffer(n)
  BY BlockNumbers, BufferType
<1> DEFINE vc == IF x.free # <<>> THEN x.buf[r] ELSE ListToBlock(x.buf[r])
<1>4. /\ r = Victim(x) /\ r \in Buffers /\ ~Exhausted(x)
      /\ Becomes(x, g, r, [ClearList(vc) EXCEPT !.blockNumber = n])
      /\ Len(g.disk) = n + 1
      /\ \A k \in 1..n : g.disk[k] = IF x.free = <<>> /\ k = m + 1
                                       THEN vc.img ELSE x.disk[k]
      /\ InUse(g) = InUse(x) \cup {r} /\ InFree(g) = InFree(x) \ {r} /\ Youngest(g, r)
  <2> DEFINE p == Victim(x)
             pc == IF x.free # <<>> THEN x.buf[p] ELSE ListToBlock(x.buf[p])
  <2>1. r = p /\ p \in Buffers /\ ~Exhausted(x)
    <3> HIDE DEF p
    <3> QED BY NewShape, Zenon DEF p
  <2>2. /\ Becomes(x, g, p, [ClearList(pc) EXCEPT !.blockNumber = n])
        /\ Len(g.disk) = n + 1
        /\ \A k \in 1..n : g.disk[k] = IF x.free = <<>> /\ k = x.buf[p].blockNumber + 1
                                         THEN pc.img ELSE x.disk[k]
        /\ InUse(g) = InUse(x) \cup {p} /\ InFree(g) = InFree(x) \ {p} /\ Youngest(g, p)
    BY NewShape, Zenon
  <2>3. pc = vc /\ m = x.buf[p].blockNumber
    BY <2>1
  <2> HIDE DEF g, vc, pc, m
  <2> QED BY <2>1, <2>2, <2>3
<1>5. r # b
  <2>1. ~Exhausted(x)
    BY <1>4
  <2> QED BY <1>4, <2>1, VictimShape
<1>6. \A k \in 1..n : g.disk[k] = IF x.free = <<>> /\ k = m + 1
                                    THEN ListToBlock(x.buf[r]).img ELSE x.disk[k]
  BY <1>4
<1> HIDE DEF g
<1>7. /\ Ok(u, n + 1) /\ u.lastBlock = n /\ u.diskLast = g.diskLast /\ u.buf = g.buf
      /\ u.free = g.free /\ u.used = g.used /\ u.disk = g.disk
  BY <1>1, <1>2 DEF Got, Ok, BlockFile
<1>8. Sound(u) /\ Size(u) = Size(x)
  BY <1>1, <1>7 DEF Got, Sound, Size, OneBufferPerBlock
<1>9. SplitBlock(x, b) = [q EXCEPT !.blk = r]
  <2>1. u = [g EXCEPT !.lastBlock = x.lastBlock + 1]
    BY <1>1
  <2> HIDE DEF u
  <2> QED BY <1>1, <1>7, <2>1, ZenonT(40) DEF SplitBlock, LinkAfter, g
<1> HIDE DEF u, r, vc, l, c, m
<1>10. /\ u.buf[b] = c /\ u.buf[r].blockNumber = n /\ \A a \in Buffers \ {r} : u.buf[a] = x.buf[a]
       /\ u.buf[r].current = Cut(x.buf[r].current, 0)
  <2>1. LET d == [ClearList(vc) EXCEPT !.blockNumber = n]
        IN d.blockNumber = n /\ d.current = Cut(x.buf[r].current, 0)
    <3>1. u.buf[r] \in Buffer(n + 1)
      BY <1>4, <1>7, BufferType
    <3>2. u.buf[r] = [ClearList(vc) EXCEPT !.blockNumber = n]
      BY <1>4, <1>7 DEF Becomes
    <3>3. vc \in Buffer(n) /\ vc.current = x.buf[r].current
      <4>1. x.buf[r] \in Buffer(n)
        BY <1>4, BufferType
      <4>2. ListToBlock(x.buf[r]).current = x.buf[r].current
        BY <4>1 DEF ListToBlock, Buffer
      <4> QED BY <1>2, <4>1, <4>2, ContentTypes DEF Remade, vc
    <3> QED BY <3>3 DEF ClearList, Buffer, Cut
  <2> QED BY <1>4, <1>5, <1>7, <2>1 DEF Becomes, c
<1>11. /\ Ok(v, n + 1) /\ SamePool(u, v) /\ v.disk = u.disk
       /\ Becomes(u, v, b, BottomHalf(c))
  <2>1. Remade(u.buf[b], BottomHalf(u.buf[b]), n + 1)
    BY <1>2, <1>7, BufferType, ContentTypes
  <2> QED BY <1>7, <1>10, <2>1, SetRemade, SetShape
<1> DEFINE th == TopHalf(u.buf[r], l)
<1> HIDE DEF v
<1>12. /\ Ok(h, n + 1) /\ SamePool(v, h) /\ h.disk = v.disk /\ Becomes(v, h, r, th)
  <2>1. Remade(u.buf[r], th, n + 1)
    BY <1>2, <1>3, <1>4, <1>7, BufferType, ContentTypes
  <2>2. h = SetBuffer(v, r, th)
    BY DEF l, c
  <2> HIDE DEF th, h
  <2>3. Remade(v.buf[r], th, n + 1)
    BY <1>4, <1>11, <2>1 DEF Remade, SamePool
  <2> QED BY <1>4, <1>11, <2>2, <2>3, SetRemade, SetShape
<1>13. u.buf[r] \in Buffer(n + 1) /\ c \in Buffer(n + 1)
  BY <1>4, <1>7, <1>10, BufferType
<1>14. /\ th.list = Moved(l) /\ th.blockNumber = n /\ th.isDirty
       /\ th.img.numKeyItems = Len(Moved(l)) /\ th.current = u.buf[r].current
  BY <1>2, <1>3, <1>10, <1>13, HalfContents
<1> DEFINE bh == BottomHalf(c)
<1>15. /\ bh.list = SubSeq(l, 1, Kept(l)) /\ bh.blockNumber = c.blockNumber
       /\ bh.sized = c.sized /\ bh.isDirty = c.isDirty
       /\ bh.img.numKeyItems = Kept(l) /\ bh.current = Cut(c.current, Kept(l))
       /\ bh.img.prevBlock = c.img.prevBlock /\ bh.img.nextBlock = c.img.nextBlock
  BY <1>2, <1>13, HalfContents DEF l
<1> HIDE DEF h, th, bh
<1>16. h.buf[b] = bh /\ h.buf[r] = th
  BY <1>4, <1>5, <1>11, <1>12 DEF Becomes, bh
<1>17. /\ Ok(o, n + 1) /\ SamePool(h, o) /\ o.buf = h.buf
       /\ Written(h, o, c.blockNumber, bh.img)
  BY <1>12, <1>15, <1>16, PutFileBlockOk, PutShape
<1> HIDE DEF o
<1>18. /\ Ok(w, n + 1) /\ SamePool(o, w) /\ w.buf = h.buf
       /\ Written(o, w, n, th.img)
  <2>1. o.buf[r].blockNumber = n /\ o.buf[r].img = th.img
    BY <1>14, <1>16, <1>17
  <2> QED BY <1>4, <1>17, <2>1, PutFileBlockOk, PutShape
<1> HIDE DEF w
<1>19. /\ Ok(e, n + 1) /\ SamePool(w, e) /\ e.disk = w.disk /\ Becomes(w, e, r, Sized(th))
  <2>1. Remade(w.buf[r], Sized(w.buf[r]), n + 1)
    BY <1>2, <1>4, <1>18, BufferType, ContentTypes
  <2> QED BY <1>4, <1>16, <1>18, <2>1, SetRemade, SetShape
<1> HIDE DEF e
<1>20. e.buf[r] = Sized(th) /\ e.buf[b] = bh /\ Sized(th) \in Buffer(n + 1)
  BY <1>4, <1>5, <1>16, <1>18, <1>19, BufferType DEF Becomes
<1>21. /\ Remade(e.buf[r], e2, n + 1)
       /\ e2.list = Moved(l) /\ e2.blockNumber = n /\ e2.isDirty /\ e2.sized
       /\ e2.current = th.current
       /\ e2.img.numKeyItems = Len(Moved(l))
       /\ e2.img.prevBlock = c.blockNumber /\ e2.img.nextBlock = c.img.nextBlock
  <2> DEFINE z == Sized(th)
  <2>1. /\ z.list = Moved(l) /\ z.blockNumber = n /\ z.sized /\ z.isDirty
        /\ z.img.numKeyItems = Len(Moved(l)) /\ z \in Buffer(n + 1)
        /\ z.current = th.current
    <3>1. th \in Buffer(n + 1)
      BY <1>4, <1>12, <1>16, BufferType
    <3> QED BY <1>2, <1>14, <1>20, <3>1, LinkContents
  <2>2. c.img.nextBlock \in 0..(n + 1) - 1 /\ c.blockNumber \in 0..(n + 1) - 1
    BY <1>2, <1>3
  <2>3. e1 = SetNext(z, c.img.nextBlock) /\ e2 = SetPrev(e1, c.blockNumber)
    BY <1>15, <1>20
  <2> HIDE DEF z, e1, e2
  <2>4. /\ e1 \in Buffer(n + 1) /\ e1.list = Moved(l) /\ e1.blockNumber = n
        /\ e1.sized /\ e1.isDirty /\ e1.img.numKeyItems = Len(Moved(l))
        /\ e1.img.nextBlock = c.img.nextBlock /\ e1.current = th.current
    BY <1>2, <2>1, <2>2, <2>3, LinkContents, ContentTypes DEF Remade
  <2>5. /\ e2 \in Buffer(n + 1) /\ e2.list = Moved(l) /\ e2.blockNumber = n
        /\ e2.sized /\ e2.isDirty /\ e2.img.numKeyItems = Len(Moved(l))
        /\ e2.img.prevBlock = c.blockNumber /\ e2.img.nextBlock = c.img.nextBlock
        /\ e2.current = th.current
    BY <1>2, <2>2, <2>3, <2>4, LinkContents, ContentTypes DEF Remade
  <2>6. e.buf[r].blockNumber = n
    BY <1>20, <2>1 DEF z
  <2> QED BY <2>5, <2>6 DEF Remade
<1> HIDE DEF e1, e2
<1>22. Ok(t, n + 1) /\ SamePool(e, t) /\ t.disk = e.disk /\ Becomes(e, t, r, e2)
  BY <1>4, <1>19, <1>21, SetRemade, SetShape
<1> HIDE DEF t
<1>23. t.buf[b] = bh /\ bh \in Buffer(n + 1)
  BY <1>5, <1>20, <1>22, BufferType DEF Becomes
<1>24. /\ Ok(s, n + 1) /\ SamePool(t, s) /\ s.disk = t.disk /\ Becomes(t, s, b, SetNext(bh, n))
  <2>1. Remade(t.buf[b], SetNext(t.buf[b], n), n + 1)
    BY <1>2, <1>23, ContentTypes
  <2> QED BY <1>22, <1>23, <2>1, SetRemade, SetShape
<1> HIDE DEF s
<1>25. s.buf[b] = SetNext(bh, n) /\ s.buf[r] = e2
  BY <1>4, <1>5, <1>22, <1>24 DEF Becomes
<1>26. \A a \in Buffers \ {b, r} : s.buf[a] = x.buf[a]
  BY <1>10, <1>11, <1>12, <1>18, <1>19, <1>22, <1>24 DEF Becomes
<1>27. SplitBuffers(x, s, b, r, n)
  <2>1. LET d == SetNext(bh, n)
        IN /\ d.list = bh.list /\ d.blockNumber = bh.blockNumber
           /\ d.sized = bh.sized /\ d.isDirty = bh.isDirty /\ d.current = bh.current
           /\ d.img.numKeyItems = bh.img.numKeyItems
           /\ d.img.prevBlock = bh.img.prevBlock /\ d.img.nextBlock = n
    BY <1>2, <1>23, LinkContents
  <2> QED BY <1>10, <1>14, <1>15, <1>21, <1>25, <1>26, <2>1 DEF SplitBuffers, l, c
<1>28. SplitFile(x, s, b, r, m, n)
  <2> DEFINE k == c.blockNumber + 1
  <2>1. k \in 1..n /\ k # n + 1 /\ \A j \in 1..n : j # n + 1 /\ j \in 1..n + 1
    BY <1>2, <1>3
  <2>2. s.disk = w.disk /\ h.disk = g.disk
    BY <1>7, <1>11, <1>12, <1>19, <1>22, <1>24
  <2>3. Len(h.disk) = n + 1 /\ Len(o.disk) = n + 1 /\ Len(w.disk) = n + 1
    BY <1>12, <1>17, <1>18 DEF Ok
  <2>4. o.disk[k] = bh.img /\ \A j \in 1..n : j # k => o.disk[j] = g.disk[j]
    BY <1>17, <2>1, <2>2, <2>3 DEF Written
  <2>5. w.disk[n + 1] = th.img /\ \A j \in 1..n : w.disk[j] = o.disk[j]
    BY <1>18, <2>1, <2>3 DEF Written
  <2>6. s.disk[n + 1].numKeyItems = Len(Moved(l)) /\ s.disk[k].numKeyItems = Kept(l)
    BY <1>14, <1>15, <2>1, <2>2, <2>4, <2>5
  <2>7. ASSUME NEW j \in 1..n, j # k
        PROVE  s.disk[j] = IF x.free = <<>> /\ j = m + 1 THEN ListToBlock(x.buf[r]).img
                                                         ELSE x.disk[j]
    BY <1>6, <2>2, <2>4, <2>5, <2>7
  <2> QED BY <2>2, <2>3, <2>6, <2>7 DEF SplitFile, l, c
<1>29. SamePool(u, s)
  <2>1. SamePool(v, o)
    BY <1>12, <1>17, SamePoolTrans
  <2>2. SamePool(o, e)
    BY <1>18, <1>19, SamePoolTrans
  <2>3. SamePool(e, s)
    BY <1>22, <1>24, SamePoolTrans
  <2> QED BY <1>11, <2>1, <2>2, <2>3, SamePoolTrans
<1>30. /\ Sound(s) /\ Size(s) = Size(x) /\ s.lastBlock = n /\ s.diskLast = x.diskLast
       /\ InUse(s) = InUse(x) \cup {r} /\ InFree(s) = InFree(x) \ {r} /\ Youngest(s, r)
  <2>1. Sound(s) /\ Size(s) = Size(u)
    BY <1>7, <1>8, <1>24, <1>29, SamePoolSound
  <2>2. s.used = g.used /\ s.free = g.free /\ s.lastBlock = n /\ s.diskLast = g.diskLast
    BY <1>7, <1>29 DEF SamePool
  <2> QED BY <1>1, <1>4, <1>8, <2>1, <2>2 DEF Got, InUse, InFree, Youngest
<1>31. SplitBlock(x, b) = [q EXCEPT !.blk = r]
  BY <1>9 DEF s, t, e2, e1, e, w, o, h, v
<1>32. Linked(x, s, b, r, n)
  BY <1>24, <1>27, <1>28, <1>30, <1>31 DEF Linked, m
<1> QED BY <1>4, <1>5, <1>32

-----------------------------------------------------------------------------
(* The counts after getNewBlock, splitBlock and deleteIndexItem.           *)

(* HEADER is not the count of a block.                                     *)
LEMMA HeaderIsNoCount == HEADER \notin Count
BY DEF HEADER, Count

(* x with another current buffer.                                          *)
LEMMA BlkFit ==
  ASSUME NEW n, NEW x, Ok(x, n), NEW r
  PROVE  LET y == [x EXCEPT !.blk = r]
         IN /\ y.buf = x.buf /\ y.disk = x.disk /\ y.free = x.free /\ y.used = x.used
            /\ y.blk = r
            /\ \A B : Fit(x, B) => Fit(y, B)
            /\ Accepted(y) <=> Accepted(x)
<1> DEFINE y == [x EXCEPT !.blk = r]
<1>1. y.buf = x.buf /\ y.disk = x.disk /\ y.free = x.free /\ y.used = x.used /\ y.blk = r
  BY DEF Ok, BlockFile
<1> HIDE DEF y
<1> QED BY <1>1 DEF y, Fit, Counts, Room, Accepted, GetFileBlock

(* The counts of x with a buffer written back and a block appended.        *)
LEMMA NewFit ==
  ASSUME NEW n, NEW x, Ok(x, n), Sound(x), NEW B, Fit(x, B),
         ~Exhausted(x) => Victim(x) \notin B
  PROVE  LET y == GetNewBlock(x)
         IN /\ Fit(y, B) /\ (Accepted(y) => Accepted(x))
            /\ y.blk = NULL =>
                 /\ InUse(y) \subseteq InUse(x) /\ InFree(y) \subseteq InFree(x)
                 /\ \A d \in Buffers : y.buf[d].blockNumber = x.buf[d].blockNumber
<1>1. CASE Exhausted(x)
  <2>1. GetNewBlock(x) = [x EXCEPT !.blk = NULL]
    BY <1>1 DEF GetNewBlock
  <2> QED BY <2>1, BlkFit DEF InUse, InFree
<1>2. CASE ~Exhausted(x)
  <2> DEFINE b == Victim(x)
             c == IF x.free # <<>> THEN x.buf[b] ELSE ListToBlock(x.buf[b])
             m == x.buf[b].blockNumber
  <2>1. b \in Buffers /\ \E z : Placed(x, z, b, c, m, n)
    BY <1>2, NewPlace
  <2>2. PICK z : Placed(x, z, b, c, m, n)
    BY <2>1
  <2>3. n \in Nat \ {0} /\ Len(x.disk) = n /\ x.buf[b] \in Buffer(n) /\ n \in 0..(n + 1) - 1
    BY <2>1, BufferType DEF Ok
  <2>4. Len(x.buf[b].list) <= numMaxItems
    BY <1>2, <2>1 DEF Fit, Room
  <2>5. /\ c \in Buffer(n) /\ c.img.numKeyItems \in Count /\ c.list = x.buf[b].list
        /\ c.blockNumber = m
    <3>1. x.buf[b].img.numKeyItems \in Count
      BY <2>1 DEF Fit, Counts
    <3> QED BY <2>3, <2>4, <3>1, ContentFits, ContentTypes DEF Remade
  <2> HIDE DEF b, c, m
  <2>6. /\ ClearList(c).img = c.img /\ ClearList(c).list = <<>>
        /\ ClearList(c).blockNumber = m
    <3>1. Len(c.list) <= numMaxItems
      BY <2>4, <2>5
    <3> QED BY <2>3, <2>5, <3>1, ContentFits, ContentTypes DEF Remade
  <2>7. /\ Len(z.disk) = n + 1 /\ z.disk[n + 1].numKeyItems \in Count
        /\ \A k \in 1..n : z.disk[k] = x.disk[k] \/ z.disk[k].numKeyItems \in Count
    BY <2>2, <2>5, <2>6 DEF Placed
  <2>8. Counts(z)
    <3>1. \A k \in 1..n + 1 : k \in 1..n \/ k = n + 1
      BY <2>3
    <3>2. 1 \in 1..n /\ \A k \in 2..n + 1 : k \in 2..n \/ k = n + 1
      BY <2>3
    <3>3. \A k \in 2..n : k \in 1..n
      BY <2>3
    <3>4. \A d \in Buffers : z.buf[d].img.numKeyItems \in Count
      BY <2>2, <2>5, <2>6 DEF Placed, Becomes, Fit, Counts
    <3> QED BY <2>3, <2>7, <3>2, <3>3, <3>4 DEF Fit, Counts
  <2>9. Room(z, B)
    <3>1. Len(<<>>) <= numMaxItems
      BY MaxItemsAssumption
    <3> QED BY <2>2, <2>6, <3>1 DEF Placed, Becomes, Fit, Room
  <2>10. Accepted(z) => Accepted(x)
    <3>1. 0 + 1 \in 1..n
      BY <2>3
    <3> QED BY <2>7, <3>1, HeaderIsNoCount DEF Accepted, GetFileBlock
  <2>11. Ok(z, n + 1)
    BY <2>2 DEF Placed
  <2>12. CASE n # x.lastBlock + 1
    <3>1. GetNewBlock(x) = [z EXCEPT !.blk = NULL]
      BY <2>2, <2>12 DEF Placed
    <3>2. InUse(z) \subseteq InUse(x) /\ InFree(z) \subseteq InFree(x)
      BY <2>2 DEF Placed
    <3>3. \A d \in Buffers : z.buf[d].blockNumber = x.buf[d].blockNumber
      BY <2>1, <2>2, <2>6 DEF Placed, Becomes, m
    <3> DEFINE y == [z EXCEPT !.blk = NULL]
    <3>4. /\ y.buf = z.buf /\ y.free = z.free /\ y.used = z.used /\ Fit(y, B)
          /\ Accepted(y) => Accepted(x)
      BY <2>8, <2>9, <2>10, <2>11, BlkFit DEF Fit
    <3> HIDE DEF y
    <3>5. InUse(y) = InUse(z) /\ InFree(y) = InFree(z)
      BY <3>4 DEF InUse, InFree
    <3> QED BY <3>1, <3>2, <3>3, <3>4, <3>5 DEF y
  <2>13. CASE n = x.lastBlock + 1
    <3> DEFINE d == [z.buf[b] EXCEPT !.blockNumber = n]
               w == SetBuffer(z, b, d)
               y == Use(w, b)
    <3>1. GetNewBlock(x) = y
      BY <2>2, <2>13 DEF Placed
    <3>2. z.buf[b] \in Buffer(n + 1) /\ z.buf[b].img.numKeyItems \in Count
      BY <2>1, <2>8, <2>11, BufferType DEF Counts
    <3>3. d \in Buffer(n + 1) /\ d.img = z.buf[b].img /\ d.list = z.buf[b].list
      BY <2>3, <3>2 DEF Buffer
    <3>4. Len(d.list) <= numMaxItems
      <4>1. z.buf[b].list = <<>>
        BY <2>2, <2>6 DEF Placed, Becomes
      <4> HIDE DEF d
      <4> QED BY <3>3, <4>1, MaxItemsAssumption
    <3> HIDE DEF d
    <3>5. Fit(w, B) /\ Ok(w, n + 1) /\ (Accepted(w) <=> Accepted(z))
      <4>1. Fit(z, B \cup {b})
        BY <2>8, <2>9 DEF Fit, Room
      <4>2. Fit(w, B) /\ (Accepted(w) <=> Accepted(z))
        BY <2>1, <2>11, <3>2, <3>3, <3>4, <4>1, SetFit
      <4> QED BY <2>1, <2>11, <3>3, <4>2, SetBufferOk
    <3> HIDE DEF w
    <3>6. y.buf = w.buf /\ y.disk = w.disk /\ y.blk = b
      BY <2>1, <3>5, UseShape
    <3>7. b # NULL
      BY <2>1 DEF NULL, Buffers
    <3> HIDE DEF y
    <3> QED BY <2>10, <3>1, <3>5, <3>6, <3>7 DEF Fit, Counts, Room, Accepted, GetFileBlock
  <2> QED BY <2>12, <2>13
<1> QED BY <1>1, <1>2

(* splitBlock of a block with one pair more than fits, the youngest: both  *)
(* halves fit, and the control block is gone when the block that followed  *)
(* has been fetched.  The block stays as it is when there is no buffer.    *)
LEMMA SplitFit ==
  ASSUME NEW n, NEW x, Ok(x, n), Sound(x), NEW b \in Buffers, Youngest(x, b),
         Size(x) >= 3, Fit(x, {b}), Len(x.buf[b].list) <= numMaxItems + 1, Header(x)
  PROVE  LET y == SplitBlock(x, b)
         IN /\ Counts(y) /\ (y.blk # NULL => Fit(y, {}) /\ ~Accepted(y))
            /\ y.blk = NULL <=> GetNewBlock(x).blk = NULL
            /\ y.blk = NULL => (Accepted(y) => Accepted(x))
<1> DEFINE g == GetNewBlock(x)
           l == x.buf[b].list
           k == x.buf[b].blockNumber + 1
<1>1. Size(x) \in Nat /\ Size(x) # 0 /\ Size(x) >= 2
  BY SizeType
<1>2. ~Exhausted(x)
  BY <1>1, SizeType
<1>3. CASE g.blk = NULL
  <2>1. SplitBlock(x, b) = g
    BY <1>3 DEF SplitBlock
  <2>2. Victim(x) # b
    BY <1>1, <1>2, VictimShape
  <2>3. Fit(g, {b}) /\ (Accepted(g) => Accepted(x))
    BY <2>2, NewFit
  <2> QED BY <1>3, <2>1, <2>3 DEF Fit
<1>4. CASE g.blk # NULL
  <2> DEFINE r == Victim(x)
             m == x.buf[r].blockNumber
             next == x.buf[b].img.nextBlock
  <2>1. r \in Buffers /\ r # b /\ \E s : Linked(x, s, b, r, n)
    BY <1>1, <1>4, SplitShape
  <2>2. PICK s : Linked(x, s, b, r, n)
    BY <2>1
  <2>3. /\ n \in Nat \ {0} /\ n + 1 \in Nat \ {0} /\ l \in Items
        /\ k \in 1..n /\ next \in 0..(n + 1) - 1 /\ n \in 0..(n + 1) - 1
        /\ x.buf[r] \in Buffer(n) /\ Len(x.disk) = n
    BY <2>1, BlockNumbers, BufferType DEF Ok
  <2>4. Kept(l) \in Count /\ Len(Moved(l)) \in Count
    <3>1. Kept(l) \in Nat /\ Kept(l) <= numMaxItems /\ Len(Moved(l)) <= numMaxItems
      BY <2>3, HalvesLengths
    <3>2. Len(Moved(l)) \in Nat
      BY <2>3, HalvesLengths, LenProperties DEF Items
    <3> QED BY <3>1, <3>2, MaxItemsAssumption DEF Count
  <2>5. ListToBlock(x.buf[r]).img.numKeyItems \in Count
    <3>1. Len(x.buf[r].list) <= numMaxItems
      BY <2>1 DEF Fit, Room
    <3> QED BY <2>3, <3>1, ContentFits
  <2> HIDE DEF l, k, r, m, next
  <2>6. Counts(s)
    <3>1. \A d \in Buffers : s.buf[d].img.numKeyItems \in Count
      BY <2>2, <2>4 DEF Linked, SplitBuffers, Fit, Counts, l
    <3>2. Len(s.disk) = n + 1 /\ s.disk[n + 1].numKeyItems \in Count
      BY <2>2, <2>4 DEF Linked, SplitFile, l
    <3>3. \A j \in 1..n : s.disk[j] = x.disk[j] \/ s.disk[j].numKeyItems \in Count
      BY <2>2, <2>4, <2>5 DEF Linked, SplitFile, l, k, m
    <3>4. 1 \in 1..n /\ \A j \in 2..n + 1 : j = n + 1 \/ (j \in 2..n /\ j \in 1..n)
      BY <2>3
    <3> QED BY <2>3, <3>1, <3>2, <3>3, <3>4 DEF Fit, Counts
  <2>7. Room(s, {})
    <3>1. Len(SubSeq(l, 1, Kept(l))) <= numMaxItems /\ Len(Moved(l)) <= numMaxItems
      BY <2>3, HalvesLengths DEF l
    <3> QED BY <2>1, <2>2, <3>1 DEF Linked, SplitBuffers, Fit, Room, l
  <2>8. Accepted(s) => Accepted(x)
    <3>1. \A j \in 1..n : s.disk[j] = x.disk[j] \/ s.disk[j].numKeyItems \in Count
      BY <2>2, <2>4, <2>5 DEF Linked, SplitFile, l, k, m
    <3>2. 0 + 1 \in 1..n
      BY <2>3
    <3> QED BY <3>1, <3>2, HeaderIsNoCount DEF Accepted, GetFileBlock
  <2>9. b \in InUse(x)
    BY ListsTypes
  <2>10. ASSUME Accepted(s)
         PROVE  /\ Sole(x, b) /\ InUse(s) = {b, r} /\ Blank(s) /\ s.free # <<>>
    <3>1. Sole(x, b) /\ Blank(x)
      BY <2>8, <2>9, <2>10 DEF Header
    <3>2. InUse(s) = {b, r}
      BY <2>2, <3>1 DEF Linked, Sole
    <3>3. Ok(s, n + 1) /\ Sound(s) /\ Size(s) >= 3
      BY <2>2 DEF Linked
    <3>4. s.free # <<>>
      BY <3>2, <3>3, FewUsed
    <3>5. Blank(s)
      <4>1. \A a \in InFree(s) : a \in InFree(x) /\ a # r /\ a # b /\ a \in Buffers
        BY <2>2, <2>9, ListsApart, ListsTypes DEF Linked
      <4> QED BY <2>2, <3>1, <4>1 DEF Blank, Linked, SplitBuffers
    <3> QED BY <3>1, <3>2, <3>4, <3>5
  <2> DEFINE f == GetIndexBlock(s, next)
  <2>11. Ok(s, n + 1) /\ Sound(s) /\ Size(s) # 0
    BY <1>1, <2>2 DEF Linked
  <2>12. /\ Fit(f, {})
         /\ \/ ~Accepted(f) /\ NotHeld(s, next)
            \/ /\ f.buf = s.buf /\ f.disk = s.disk /\ f.free = s.free
               /\ InUse(f) = InUse(s) /\ f.blk \in InUse(s)
               /\ s.buf[f.blk].blockNumber = next
    <3>1. Accepted(s) => s.free # <<>> /\ Blank(s)
      BY <2>10
    <3>2. Fit(s, {})
      BY <2>6, <2>7 DEF Fit
    <3> QED BY <2>3, <2>11, <3>1, <3>2, GetFit
  <2>13. Ok(f, n + 1) /\ f.blk \in Buffers
    BY <2>3, <2>11, GetIndexBlockOk DEF Got
  <2> HIDE DEF f
  <2>14. ~Accepted(f)
    <3>1. SUFFICES ASSUME f.disk = s.disk, Accepted(s), f.blk \in InUse(s),
                          s.buf[f.blk].blockNumber = next
                   PROVE  FALSE
      BY <2>12 DEF Accepted, GetFileBlock
    <3>2. next = 0 /\ x.buf[b].blockNumber # 0 /\ (f.blk = b \/ f.blk = r)
      BY <2>10, <3>1 DEF Sole, next
    <3>3. s.buf[b].blockNumber # 0 /\ s.buf[r].blockNumber # 0
      BY <2>2, <2>3, <3>2 DEF Linked, SplitBuffers
    <3> QED BY <3>1, <3>2, <3>3
  <2> DEFINE d == SetPrev(f.buf[f.blk], n)
             q == SetBuffer(f, f.blk, d)
             y == [q EXCEPT !.blk = r]
  <2>15. d.img.numKeyItems \in Count /\ Len(d.list) <= numMaxItems /\ d \in Buffer(n + 1)
    <3>1. f.buf[f.blk] \in Buffer(n + 1)
      BY <2>13, BufferType
    <3>2. /\ f.buf[f.blk].img.numKeyItems \in Count
          /\ Len(f.buf[f.blk].list) <= numMaxItems
      BY <2>12, <2>13 DEF Fit, Counts, Room
    <3> QED BY <2>3, <3>1, <3>2, LinkContents, ContentTypes DEF Remade
  <2> HIDE DEF d
  <2>16. Fit(q, {}) /\ (Accepted(q) <=> Accepted(f)) /\ Ok(q, n + 1)
    <3>1. Fit(f, {} \cup {f.blk})
      BY <2>12 DEF Fit, Room
    <3> QED BY <2>13, <2>15, <3>1, SetFit, SetBufferOk
  <2> HIDE DEF q
  <2>17. Fit(y, {}) /\ ~Accepted(y) /\ y.blk # NULL
    <3>1. r # NULL
      BY <2>1 DEF NULL, Buffers, r
    <3> QED BY <2>14, <2>16, <3>1, BlkFit
  <2>18. SplitBlock(x, b) = y
    BY <2>2 DEF Linked, y, q, d, f, next
  <2> QED BY <1>4, <2>17, <2>18 DEF Fit
<1> QED BY <1>3, <1>4

-----------------------------------------------------------------------------
(* The counts after the calls of index.c.                                  *)

(* getIndexBlock returns the youngest buffer, and it holds the block.      *)
LEMMA GetShape ==
  ASSUME NEW n, NEW x, Ok(x, n), Sound(x), Size(x) # 0, NEW m \in 0..n - 1
  PROVE  LET y == GetIndexBlock(x, m)
         IN Youngest(y, y.blk) /\ y.buf[y.blk].blockNumber = m
<1>1. CASE Hits(x, m) = {}
  <2>1. NotHeld(x, m) /\ ~Exhausted(x)
    BY <1>1, HitsFacts, SizeType
  <2> DEFINE y == Load(x, m)
             b == Victim(x)
             c == ListToBlock(x.buf[b])
  <2>2. /\ b \in Buffers /\ Becomes(x, y, b, Filled(c, m, y.disk[m + 1]))
        /\ Youngest(y, b) /\ y.blk = b
    BY <2>1, LoadShape
  <2>3. Ok(y, n) /\ n \in Nat \ {0}
    BY <2>1, LoadOk DEF Got, Ok
  <2>4. c \in Buffer(n)
    BY <2>2, <2>3, BufferType, ContentTypes DEF Remade
  <2>5. y.disk[m + 1] \in Image(n)
    BY <2>3 DEF Ok, BlockFile
  <2> HIDE DEF y, b, c
  <2>6. Filled(c, m, y.disk[m + 1]).blockNumber = m
    BY <2>3, <2>4, <2>5, ContentTypes
  <2> QED BY <1>1, <2>1, <2>2, <2>6 DEF GetIndexBlock, Becomes, y
<1>2. CASE Hits(x, m) # {}
  <2> DEFINE i == Max(Hits(x, m))
             y == Touch(x, i)
  <2>1. PICK j \in Hits(x, m) : TRUE
    BY <1>2
  <2>2. i \in DOMAIN x.used
    BY <1>2, HitsFacts
  <2>3. x.buf[x.used[i]].blockNumber = m
    <3>1. \A k \in Hits(x, m) : k = j
      BY <2>1 DEF Hits, Sound, OneBufferPerBlock
    <3>2. Hits(x, m) = {j}
      BY <2>1, <3>1
    <3>3. j \in Int
      BY <2>1, PoolTypes DEF Hits
    <3>4. i = j
      BY <3>2, <3>3 DEF Max
    <3> QED BY <2>1, <3>4 DEF Hits
  <2> HIDE DEF i
  <2>4. y.buf = x.buf /\ Youngest(y, x.used[i]) /\ y.blk = x.used[i]
    BY <2>2, TouchShape
  <2>5. GetIndexBlock(x, m) = y
    BY <1>2 DEF GetIndexBlock, i
  <2> HIDE DEF y
  <2> QED BY <2>3, <2>4, <2>5
<1> QED BY <1>1, <1>2

(* The header lemma: only block numbers and neighbours matter.             *)
LEMMA HeaderKept ==
  ASSUME NEW x, NEW y, Header(x), Accepted(y) => Accepted(x),
         InUse(y) = InUse(x), InFree(y) = InFree(x), InUse(x) \subseteq Buffers,
         InFree(x) \subseteq Buffers,
         \A d \in Buffers : /\ y.buf[d].blockNumber = x.buf[d].blockNumber
                            /\ y.buf[d].img.prevBlock = x.buf[d].img.prevBlock
                            /\ y.buf[d].img.nextBlock = x.buf[d].img.nextBlock
  PROVE  Header(y)
<1> SUFFICES ASSUME Accepted(y) PROVE Blank(y) /\ \A b \in InUse(y) : Sole(y, b)
  BY DEF Header
<1>1. Blank(x) /\ \A b \in InUse(x) : Sole(x, b)
  BY DEF Header
<1>2. Blank(y)
  BY <1>1 DEF Blank
<1> QED BY <1>1, <1>2 DEF Sole

(* The contents of a buffer that gets one more pair, or loses one.         *)
LEMMA ItemContents ==
  ASSUME NEW n \in Nat \ {0}, NEW c \in Buffer(n)
  PROVE  /\ \A p \in 1..Len(c.list) + 1, ki \in KeyItem :
              LET d == WithItem(c, p, ki)
              IN /\ d.list = InsertAt(c.list, p, ki) /\ Len(d.list) = Len(c.list) + 1
                 /\ d.blockNumber = c.blockNumber /\ d.img = c.img
                 /\ d.sized = c.sized /\ d.isDirty = c.isDirty /\ d \in Buffer(n)
         /\ \A p \in DOMAIN c.list :
              LET d == Counted(WithoutItem(c, p))
              IN /\ d.list = RemoveAt(c.list, p) /\ Len(d.list) = Len(c.list) - 1
                 /\ d.img.numKeyItems = Len(d.list)
                 /\ d.blockNumber = c.blockNumber
                 /\ d.img.prevBlock = c.img.prevBlock /\ d.img.nextBlock = c.img.nextBlock
                 /\ d.sized = c.sized /\ d.isDirty /\ d \in Buffer(n)
<1>1. /\ c.list \in Seq(KeyItem \cup {Zeros}) /\ DOMAIN c.list = 1..Len(c.list)
      /\ c.img \in Image(n)
  BY LenProperties DEF Buffer, Items
<1>2. ASSUME NEW p \in 1..Len(c.list) + 1, NEW ki \in KeyItem
      PROVE  LET d == WithItem(c, p, ki)
              IN /\ d.list = InsertAt(c.list, p, ki) /\ Len(d.list) = Len(c.list) + 1
                 /\ d.blockNumber = c.blockNumber /\ d.img = c.img
                 /\ d.sized = c.sized /\ d.isDirty = c.isDirty /\ d \in Buffer(n)
  <2>1. Len(InsertAt(c.list, p, ki)) = Len(c.list) + 1
    BY <1>1, InsertAtShape
  <2>2. WithItem(c, p, ki) \in Buffer(n)
    BY ItemTypes DEF Remade
  <2> QED BY <2>1, <2>2 DEF WithItem, Buffer
<1>3. ASSUME NEW p \in DOMAIN c.list
      PROVE  LET d == Counted(WithoutItem(c, p))
              IN /\ d.list = RemoveAt(c.list, p) /\ Len(d.list) = Len(c.list) - 1
                 /\ d.img.numKeyItems = Len(d.list)
                 /\ d.blockNumber = c.blockNumber
                 /\ d.img.prevBlock = c.img.prevBlock /\ d.img.nextBlock = c.img.nextBlock
                 /\ d.sized = c.sized /\ d.isDirty /\ d \in Buffer(n)
  <2> DEFINE e == WithoutItem(c, p)
             d == Counted(e)
  <2>1. Len(RemoveAt(c.list, p)) = Len(c.list) - 1
    BY <1>1, RemoveAtFacts
  <2>2. e \in Buffer(n)
    BY ItemTypes DEF Remade
  <2>3. /\ e.list = RemoveAt(c.list, p) /\ e.blockNumber = c.blockNumber
        /\ e.img.prevBlock = c.img.prevBlock /\ e.img.nextBlock = c.img.nextBlock
        /\ e.sized = c.sized /\ e.isDirty
    BY <1>1 DEF WithoutItem, Buffer, Image
  <2> HIDE DEF e
  <2>4. e.img \in Image(n)
    BY <2>2 DEF Buffer
  <2>5. /\ d.list = e.list /\ d.img.numKeyItems = Len(e.list)
        /\ d.blockNumber = e.blockNumber /\ d.sized = e.sized /\ d.isDirty = e.isDirty
        /\ d.img.prevBlock = e.img.prevBlock /\ d.img.nextBlock = e.img.nextBlock
    BY <2>2, <2>4 DEF Counted, Buffer, Image
  <2>6. d \in Buffer(n)
    BY <2>2, ContentTypes DEF Remade
  <2> HIDE DEF d
  <2> QED BY <2>1, <2>3, <2>5, <2>6 DEF d, e
<1> QED BY <1>2, <1>3

(* addIndexItem, before it looks whether the block has become too long.    *)
LEMMA InsertFit ==
  ASSUME NEW n, NEW x, Ok(x, n), Sound(x), NEW b \in Buffers, Fit(x, {}), Header(x),
         NEW p \in 1..Len(x.buf[b].list) + 1, NEW ki \in KeyItem
  PROVE  LET y == InsertItem(x, b, p, ki)
         IN /\ Fit(y, {b}) /\ Header(y)
            /\ Len(y.buf[b].list) <= numMaxItems + 1
            /\ ~Overflows(y.buf[b].list) => Fit(y, {})
            /\ Youngest(x, b) => Youngest(y, b)
<1> DEFINE c == x.buf[b]
           d == WithItem(c, p, ki)
           y == SetBuffer(x, b, d)
<1>1. n \in Nat \ {0} /\ c \in Buffer(n) /\ Len(c.list) \in Nat
  BY BufferType, LenProperties DEF Ok, Buffer, Items
<1>2. /\ Len(d.list) = Len(c.list) + 1 /\ d.blockNumber = c.blockNumber
      /\ d.img = c.img /\ d \in Buffer(n)
  BY <1>1, ItemContents
<1> HIDE DEF d
<1>3. /\ y.disk = x.disk /\ SameLists(x, y) /\ Becomes(x, y, b, d)
  BY SetShape
<1>4. c.img.numKeyItems \in Count /\ Len(c.list) <= numMaxItems
  BY DEF Fit, Counts, Room
<1> HIDE DEF c, y
<1>5. Counts(y) /\ Room(y, {b})
  BY <1>2, <1>3, <1>4 DEF Fit, Counts, Room, Becomes
<1>6. Len(y.buf[b].list) <= numMaxItems + 1 /\ Len(y.buf[b].list) \in Nat
  BY <1>1, <1>2, <1>3, <1>4, MaxItemsAssumption DEF Becomes
<1>7. ASSUME ~Overflows(y.buf[b].list) PROVE Room(y, {})
  <2>1. Len(y.buf[b].list) <= numMaxItems
    BY <1>6, <1>7, MaxItemsAssumption DEF Overflows
  <2> QED BY <1>5, <2>1 DEF Room
<1>8. Header(y)
  <2>1. InUse(x) \subseteq Buffers /\ InFree(x) \subseteq Buffers
    BY ListsTypes
  <2>2. InUse(y) = InUse(x) /\ InFree(y) = InFree(x)
    BY <1>3 DEF SameLists, InUse, InFree
  <2>3. Accepted(y) => Accepted(x)
    BY <1>3 DEF Accepted, GetFileBlock
  <2>4. \A a \in Buffers : /\ y.buf[a].blockNumber = x.buf[a].blockNumber
                           /\ y.buf[a].img.prevBlock = x.buf[a].img.prevBlock
                           /\ y.buf[a].img.nextBlock = x.buf[a].img.nextBlock
    BY <1>2, <1>3 DEF Becomes, c
  <2> QED BY <2>1, <2>2, <2>3, <2>4, HeaderKept
<1>9. Youngest(x, b) => Youngest(y, b)
  BY <1>3 DEF SameLists, Youngest
<1>10. InsertItem(x, b, p, ki) = y
  BY DEF InsertItem, y, d, c
<1> QED BY <1>5, <1>6, <1>7, <1>8, <1>9, <1>10 DEF Fit

(* deleteIndexItem, before it looks whether the block has become empty.    *)
LEMMA RemoveFit ==
  ASSUME NEW n, NEW x, Ok(x, n), Sound(x), NEW b \in Buffers, Fit(x, {}), Header(x),
         NEW p \in DOMAIN x.buf[b].list
  PROVE  LET y == RemoveItem(x, b, p)
             z == SetBuffer(y, b, Counted(y.buf[b]))
         IN /\ Fit(z, {}) /\ Header(z) /\ InUse(z) = InUse(x) /\ InFree(z) = InFree(x)
            /\ Becomes(x, z, b, Counted(WithoutItem(x.buf[b], p))) /\ z.disk = x.disk
            /\ y.buf[b].list = z.buf[b].list
<1> DEFINE c == x.buf[b]
           e == WithoutItem(c, p)
           d == Counted(e)
           y == SetBuffer(x, b, e)
           z == SetBuffer(y, b, Counted(y.buf[b]))
<1>1. n \in Nat \ {0} /\ c \in Buffer(n) /\ Len(c.list) \in Nat
  BY BufferType, LenProperties DEF Ok, Buffer, Items
<1>2. /\ Len(d.list) = Len(c.list) - 1 /\ d.img.numKeyItems = Len(d.list)
      /\ d.blockNumber = c.blockNumber /\ d \in Buffer(n) /\ e \in Buffer(n)
      /\ d.img.prevBlock = c.img.prevBlock /\ d.img.nextBlock = c.img.nextBlock
      /\ e.list = d.list
  <2>1. e \in Buffer(n)
    BY <1>1, ItemTypes DEF Remade
  <2>2. e.list = d.list
    <3> HIDE DEF e
    <3> QED BY <2>1 DEF Counted, Buffer
  <2> QED BY <1>1, <2>1, <2>2, ItemContents
<1>3. RemoveItem(x, b, p) = y
  BY DEF RemoveItem
<1> HIDE DEF e
<1>4. y.disk = x.disk /\ SameLists(x, y) /\ Becomes(x, y, b, e) /\ Ok(y, n)
  BY <1>2, SetShape, SetBufferOk
<1> HIDE DEF y
<1>5. z.disk = y.disk /\ SameLists(y, z) /\ Becomes(y, z, b, d)
  <2>1. y.buf[b] = e
    BY <1>4 DEF Becomes
  <2> QED BY <1>4, <2>1, SetShape
<1> HIDE DEF z, d
<1>6. z.disk = x.disk /\ SameLists(x, z) /\ Becomes(x, z, b, d)
  BY <1>4, <1>5 DEF SameLists, Becomes
<1>7. Len(d.list) <= numMaxItems /\ d.img.numKeyItems \in Count
  <2>1. Len(c.list) <= numMaxItems
    BY DEF Fit, Room
  <2>2. Len(d.list) \in Nat
    BY <1>2, LenProperties DEF Buffer, Items
  <2> HIDE DEF c
  <2> QED BY <1>1, <1>2, <2>1, <2>2, MaxItemsAssumption DEF Count
<1>8. Fit(z, {})
  BY <1>6, <1>7 DEF Fit, Counts, Room, Becomes
<1>9. InUse(z) = InUse(x) /\ InFree(z) = InFree(x)
  BY <1>6 DEF SameLists, InUse, InFree
<1>10. Header(z)
  <2>1. InUse(x) \subseteq Buffers /\ InFree(x) \subseteq Buffers
    BY ListsTypes
  <2>2. Accepted(z) => Accepted(x)
    BY <1>6 DEF Accepted, GetFileBlock
  <2>3. \A a \in Buffers : /\ z.buf[a].blockNumber = x.buf[a].blockNumber
                           /\ z.buf[a].img.prevBlock = x.buf[a].img.prevBlock
                           /\ z.buf[a].img.nextBlock = x.buf[a].img.nextBlock
    BY <1>2, <1>6 DEF Becomes
  <2> QED BY <1>9, <2>1, <2>2, <2>3, HeaderKept
<1>11. y.buf[b].list = z.buf[b].list
  BY <1>2, <1>4, <1>6 DEF Becomes
<1> QED BY <1>3, <1>6, <1>8, <1>9, <1>10, <1>11 DEF z, d, e

LEMMA UnlinkFit ==
  ASSUME NEW n, NEW x, Ok(x, n), Sound(x), NEW b \in InUse(x), Size(x) >= 3,
         Fit(x, {}), Header(x), NEW ki
  PROVE  LET y == UnlinkBlock(x, b, ki) IN Fit(y, {}) /\ ~Accepted(y)
<1> DEFINE v == PutFileBlock(x, b)
           p == GetIndexBlock(v, v.buf[b].img.prevBlock)
           q == GetIndexBlock(p, v.buf[b].img.nextBlock)
           lp == SetNext(q.buf[p.blk], q.buf[q.blk].blockNumber)
           l == SetBuffer(q, p.blk, lp)
           mq == SetPrev(l.buf[q.blk], q.buf[p.blk].blockNumber)
           m == SetBuffer(l, q.blk, mq)
           v1 == PutFileBlock(m, p.blk)
           w == PutFileBlock(v1, q.blk)
<1>1. n \in Nat \ {0} /\ Size(x) \in Nat /\ Size(x) # 0 /\ b \in Buffers
  BY SizeType, ListsTypes DEF Ok
<1>2. /\ Ok(v, n) /\ SamePool(x, v) /\ v.buf = x.buf /\ SameLists(x, v)
      /\ Fit(v, {}) /\ (Accepted(v) => Accepted(x))
  BY <1>1, PutFileBlockOk, PutShape, PutFit
<1>3. UnlinkBlock(x, b, ki) = IF ki.item = x.buf[b].blockNumber THEN FreeYoungest(w) ELSE w
  BY DEF UnlinkBlock, LinkNeighbours
<1> HIDE DEF v
<1>4. Sound(v) /\ Size(v) = Size(x)
  BY <1>2, SamePoolSound
<1>5. v.buf[b].img.prevBlock \in 0..n - 1 /\ v.buf[b].img.nextBlock \in 0..n - 1
  BY <1>1, <1>2, BlockNumbers
<1>6. InUse(v) = InUse(x) /\ InFree(v) = InFree(x)
  BY <1>2 DEF SameLists, InUse, InFree
<1>7. ASSUME Accepted(v)
      PROVE  Sole(v, b) /\ Blank(v) /\ v.free # <<>>
  <2>1. Sole(v, b) /\ Blank(v)
    BY <1>2, <1>6, <1>7 DEF Header, Sole, Blank
  <2>2. InUse(v) \subseteq {b, b}
    BY <2>1 DEF Sole
  <2> QED BY <1>2, <1>4, <2>1, <2>2, FewUsed
<1>8. /\ Fit(p, {})
      /\ \/ ~Accepted(p)
         \/ /\ p.disk = v.disk /\ p.blk \in InUse(v)
            /\ v.buf[p.blk].blockNumber = v.buf[b].img.prevBlock
  BY <1>1, <1>2, <1>4, <1>5, <1>7, GetFit
<1>9. Got(v, p, n)
  BY <1>1, <1>2, <1>4, <1>5, GetIndexBlockOk
<1> HIDE DEF p
<1>10. ~Accepted(p)
  <2>1. SUFFICES ASSUME p.disk = v.disk, p.blk \in InUse(v), Accepted(v),
                        v.buf[p.blk].blockNumber = v.buf[b].img.prevBlock
                 PROVE  FALSE
    BY <1>8 DEF Accepted, GetFileBlock
  <2> QED BY <1>7, <2>1 DEF Sole
<1>11. /\ Fit(q, {})
       /\ ~Accepted(q) \/ q.disk = p.disk
  BY <1>1, <1>4, <1>5, <1>8, <1>9, <1>10, GetFit DEF Got
<1>12. Got(p, q, n)
  BY <1>1, <1>4, <1>5, <1>9, GetIndexBlockOk DEF Got
<1> HIDE DEF q
<1>13. ~Accepted(q)
  BY <1>10, <1>11 DEF Accepted, GetFileBlock
<1>14. p.blk \in Buffers /\ q.blk \in Buffers /\ Ok(q, n)
  BY <1>9, <1>12 DEF Got
<1>15. q.buf[p.blk].blockNumber \in 0..n - 1 /\ q.buf[q.blk].blockNumber \in 0..n - 1
  BY <1>14, BlockNumbers
<1>16. Ok(l, n) /\ Fit(l, {}) /\ ~Accepted(l)
  <2>1. /\ q.buf[p.blk] \in Buffer(n) /\ q.buf[p.blk].img.numKeyItems \in Count
        /\ Len(q.buf[p.blk].list) <= numMaxItems
    BY <1>11, <1>14, BufferType DEF Fit, Counts, Room
  <2>2. lp \in Buffer(n) /\ lp.img.numKeyItems \in Count /\ Len(lp.list) <= numMaxItems
    BY <1>1, <1>15, <2>1, LinkContents, ContentTypes DEF Remade
  <2> HIDE DEF lp
  <2>3. Fit(q, {} \cup {p.blk})
    BY <1>11 DEF Fit, Room
  <2> QED BY <1>13, <1>14, <2>2, <2>3, SetFit, SetBufferOk
<1> HIDE DEF l
<1>17. Ok(m, n) /\ Fit(m, {}) /\ ~Accepted(m)
  <2>1. /\ l.buf[q.blk] \in Buffer(n) /\ l.buf[q.blk].img.numKeyItems \in Count
        /\ Len(l.buf[q.blk].list) <= numMaxItems
    BY <1>14, <1>16, BufferType DEF Fit, Counts, Room
  <2>2. mq \in Buffer(n) /\ mq.img.numKeyItems \in Count /\ Len(mq.list) <= numMaxItems
    BY <1>1, <1>15, <2>1, LinkContents, ContentTypes DEF Remade
  <2> HIDE DEF mq
  <2>3. Fit(l, {} \cup {q.blk})
    BY <1>16 DEF Fit, Room
  <2> QED BY <1>14, <1>16, <2>2, <2>3, SetFit, SetBufferOk
<1> HIDE DEF m
<1>18. Ok(v1, n) /\ Fit(v1, {}) /\ ~Accepted(v1)
  BY <1>14, <1>17, PutFit, PutFileBlockOk
<1> HIDE DEF v1
<1>19. Ok(w, n) /\ Fit(w, {}) /\ ~Accepted(w)
  BY <1>14, <1>18, PutFit, PutFileBlockOk
<1> HIDE DEF w
<1>20. FreeYoungest(w).buf = w.buf /\ FreeYoungest(w).disk = w.disk
  BY <1>19 DEF FreeYoungest, Ok, BlockFile
<1>21. Fit(FreeYoungest(w), {}) /\ ~Accepted(FreeYoungest(w))
  BY <1>19, <1>20 DEF Fit, Counts, Room, Accepted, GetFileBlock
<1> QED BY <1>3, <1>19, <1>21

(* The contents of the first block's buffer, c what it was left with.      *)
LEMMA FirstContents ==
  ASSUME NEW n \in Nat \ {0}, NEW c \in Buffer(n), c.list = <<>>, NEW ki \in KeyItem
  PROVE  LET e == Counted(WithItem(c, 1, ki))
             d == Sized([SetPrev(SetNext(e, 0), 0) EXCEPT !.isDirty = TRUE])
         IN /\ d.list = <<ki>> /\ Len(d.list) = 1 /\ d.img.numKeyItems = 1
            /\ d.blockNumber = c.blockNumber /\ d.sized /\ d.isDirty
            /\ d.img.prevBlock = 0 /\ d.img.nextBlock = 0 /\ d \in Buffer(n)
            /\ c.current <= 0 => d.current = c.current
<1> DEFINE w == WithItem(c, 1, ki)
           e == Counted(w)
           e1 == SetNext(e, 0)
           e2 == SetPrev(e1, 0)
           e3 == [e2 EXCEPT !.isDirty = TRUE]
           d == Sized(e3)
<1>1. 1 \in 1..Len(c.list) + 1 /\ 0 \in 0..n - 1
  BY EmptySeq
<1>2. /\ w.list = InsertAt(c.list, 1, ki)
      /\ w.blockNumber = c.blockNumber /\ w.img = c.img /\ w \in Buffer(n)
  <2>1. \A p \in 1..Len(c.list) + 1, k \in KeyItem :
          LET d0 == WithItem(c, p, k)
          IN d0.list = InsertAt(c.list, p, k)
             /\ d0.blockNumber = c.blockNumber /\ d0.img = c.img /\ d0 \in Buffer(n)
    BY ItemContents
  <2> QED BY <1>1, <2>1
<1>0. c.current <= 0 => w.current = c.current
  BY DEF WithItem, Buffer
<1> HIDE DEF w
<1>3. w.list = <<ki>> /\ Len(w.list) = 1
  BY <1>2, InsertFirst
<1>4. /\ e.list = <<ki>> /\ e.img.numKeyItems = 1 /\ e.blockNumber = c.blockNumber
      /\ e \in Buffer(n) /\ e.current = w.current
  <2>1. w.img \in Image(n)
    BY <1>2 DEF Buffer
  <2>2. e \in Buffer(n)
    BY <1>2, ContentTypes DEF Remade
  <2>3. /\ e.img.numKeyItems = Len(w.list) /\ e.list = w.list
        /\ e.blockNumber = w.blockNumber /\ e.current = w.current
    BY <1>2, <2>1 DEF Counted, Buffer, Image
  <2> HIDE DEF e
  <2> QED BY <1>2, <1>3, <2>2, <2>3
<1> HIDE DEF e
<1>5. /\ e1.list = <<ki>> /\ e1.img.numKeyItems = 1 /\ e1.blockNumber = c.blockNumber
      /\ e1.img.nextBlock = 0 /\ e1 \in Buffer(n) /\ e1.current = e.current
  <2>1. e1 \in Buffer(n)
    BY <1>1, <1>4, ContentTypes DEF Remade
  <2> QED BY <1>4, <2>1, LinkContents
<1> HIDE DEF e1
<1>6. /\ e2.list = <<ki>> /\ e2.img.numKeyItems = 1 /\ e2.blockNumber = c.blockNumber
      /\ e2.img.nextBlock = 0 /\ e2.img.prevBlock = 0 /\ e2 \in Buffer(n)
      /\ e2.current = e1.current
  <2>1. e2 \in Buffer(n)
    BY <1>1, <1>5, ContentTypes DEF Remade
  <2> QED BY <1>5, <2>1, LinkContents
<1> HIDE DEF e2
<1>7. /\ e3.list = <<ki>> /\ e3.img = e2.img /\ e3.blockNumber = c.blockNumber
      /\ e3.isDirty /\ e3 \in Buffer(n) /\ e3.current = e2.current
  BY <1>6 DEF Buffer
<1> HIDE DEF e3
<1>8. /\ d.list = <<ki>> /\ d.img = e2.img /\ d.blockNumber = c.blockNumber
      /\ d.isDirty /\ d.sized /\ d \in Buffer(n) /\ d.current = e3.current
  <2>1. d \in Buffer(n)
    BY <1>7, ContentTypes DEF Remade
  <2> QED BY <1>7, <2>1, LinkContents
<1> HIDE DEF d
<1>9. Len(<<ki>>) = 1
  OBVIOUS
<1>10. c.current <= 0 => d.current = c.current
  BY <1>0, <1>4, <1>5, <1>6, <1>7, <1>8
<1> QED BY <1>6, <1>8, <1>9, <1>10 DEF d, e3, e2, e1, e, w

(* y is x after the first block, with the pair ki, was made in buffer b.   *)
FirstMade(x, y, b, ki, n) ==
  /\ b \in Buffers /\ y.blk = b /\ n = x.lastBlock + 1 /\ y.lastBlock = n
  /\ y.disk = GetNewBlock(x).disk /\ Ok(y, n + 1)
  /\ InUse(y) = InUse(x) \cup {b} /\ InFree(y) = InFree(x) \ {b}
  /\ \A a \in Buffers \ {b} : y.buf[a] = x.buf[a]
  /\ LET d == y.buf[b]
     IN /\ d.list = <<ki>> /\ Len(d.list) = 1 /\ d.img.numKeyItems = 1
        /\ d.blockNumber = n /\ d.sized /\ d.isDirty
        /\ d.img.prevBlock = 0 /\ d.img.nextBlock = 0
        /\ d.current = Cut(x.buf[b].current, 0)

LEMMA FirstShape ==
  ASSUME NEW n, NEW x, Ok(x, n), Sound(x), NEW ki \in KeyItem,
         GetNewBlock(x).blk # NULL
  PROVE  FirstMade(x, FirstBlock(x, ki), Victim(x), ki, n)
<1> DEFINE g == GetNewBlock(x)
           b == Victim(x)
           cc == IF x.free # <<>> THEN x.buf[b] ELSE ListToBlock(x.buf[b])
           c == [ClearList(cc) EXCEPT !.blockNumber = n]
<1>1. /\ b \in Buffers /\ g.blk = b /\ Becomes(x, g, b, c)
      /\ InUse(g) = InUse(x) \cup {b} /\ InFree(g) = InFree(x) \ {b}
  <2> HIDE DEF b
  <2> QED BY NewShape, Zenon DEF b
<1>2. Got(x, g, n + 1) /\ n = x.lastBlock + 1 /\ g.lastBlock = x.lastBlock
  BY GetNewBlockOk
<1>3. n \in Nat \ {0} /\ n + 1 \in Nat \ {0} /\ Ok(g, n + 1)
  BY <1>2 DEF Ok, Got
<1>4. cc \in Buffer(n) /\ cc.current = x.buf[b].current /\ x.buf[b].current \in Int
  <2>1. x.buf[b] \in Buffer(n)
    BY <1>1, BufferType
  <2>2. ListToBlock(x.buf[b]).current = x.buf[b].current /\ x.buf[b].current \in Int
    BY <2>1 DEF ListToBlock, Buffer
  <2> QED BY <1>3, <2>1, <2>2, ContentTypes DEF Remade
<1> HIDE DEF b, cc
<1>5. /\ c.list = <<>> /\ c.blockNumber = n
      /\ c.current = Cut(x.buf[b].current, 0) /\ c.current <= 0
  BY <1>4 DEF ClearList, Buffer, Cut, GONE
<1>6. c \in Buffer(n + 1)
  BY <1>1, <1>3, BufferType DEF Becomes
<1> HIDE DEF g, c
<1> DEFINE e == Counted(WithItem(g.buf[g.blk], 1, ki))
           d == Sized([SetPrev(SetNext(e, 0), 0) EXCEPT !.isDirty = TRUE])
           z == SetBuffer(g, g.blk, d)
           y == [z EXCEPT !.lastBlock = @ + 1]
<1>7. FirstBlock(x, ki) = y
  BY DEF FirstBlock, g
<1>8. /\ d.list = <<ki>> /\ Len(d.list) = 1 /\ d.img.numKeyItems = 1
      /\ d.blockNumber = n /\ d.sized /\ d.isDirty
      /\ d.img.prevBlock = 0 /\ d.img.nextBlock = 0 /\ d \in Buffer(n + 1)
      /\ d.current = Cut(x.buf[b].current, 0)
  <2>1. g.buf[g.blk] = c
    BY <1>1 DEF Becomes
  <2> QED BY <1>3, <1>5, <1>6, <2>1, FirstContents
<1> HIDE DEF d
<1>9. z.disk = g.disk /\ SameLists(g, z) /\ Becomes(g, z, b, d) /\ Ok(z, n + 1)
  BY <1>1, <1>3, <1>8, SetShape, SetBufferOk
<1> HIDE DEF z
<1>10. /\ y.disk = z.disk /\ y.buf = z.buf /\ y.used = z.used /\ y.free = z.free
       /\ y.blk = z.blk /\ y.lastBlock = z.lastBlock + 1 /\ Ok(y, n + 1)
  <2>1. z.lastBlock + 1 \in Nat
    BY <1>9 DEF Ok, BlockFile
  <2> QED BY <1>9, <2>1 DEF Ok, BlockFile
<1> HIDE DEF y
<1>11. InUse(y) = InUse(g) /\ InFree(y) = InFree(g) /\ y.blk = b /\ y.lastBlock = n
  BY <1>1, <1>2, <1>9, <1>10 DEF SameLists, InUse, InFree
<1> QED BY <1>1, <1>2, <1>3, <1>7, <1>8, <1>9, <1>10, <1>11, ZenonT(60) DEF FirstMade, Becomes, g, b

(* addIndexItem into an empty index.                                       *)
LEMMA FirstFit ==
  ASSUME NEW n, NEW x, Ok(x, n), Sound(x), Fit(x, {}), Header(x),
         Accepted(x) => InUse(x) = {}, NEW ki \in KeyItem
  PROVE  LET y == FirstBlock(x, ki)
         IN /\ Fit(y, {}) /\ Header(y)
            /\ y.blk = NULL => (Accepted(y) => InUse(y) = {}) /\ y = GetNewBlock(x)
            /\ y.blk = NULL <=> GetNewBlock(x).blk = NULL
            /\ Accepted(y) => Accepted(x)
<1> DEFINE g == GetNewBlock(x)
           y == FirstBlock(x, ki)
<1>1. /\ Fit(g, {}) /\ (Accepted(g) => Accepted(x))
      /\ g.blk = NULL =>
           /\ InUse(g) \subseteq InUse(x) /\ InFree(g) \subseteq InFree(x)
           /\ \A d \in Buffers : g.buf[d].blockNumber = x.buf[d].blockNumber
  BY NewFit
<1>2. CASE g.blk = NULL
  <2>1. y = g
    BY <1>2 DEF FirstBlock
  <2>2. ASSUME Accepted(g) PROVE InUse(g) = {} /\ Blank(g)
    <3>1. InUse(x) = {} /\ Blank(x) /\ InFree(x) \subseteq Buffers
      BY <1>1, <2>2, ListsTypes DEF Header
    <3> QED BY <1>1, <1>2, <3>1 DEF Blank
  <2> QED BY <1>1, <1>2, <2>1, <2>2 DEF Header
<1>3. CASE g.blk # NULL
  <2> DEFINE b == Victim(x)
  <2>0. FirstMade(x, y, b, ki, n)
    BY <1>3, FirstShape
  <2> HIDE DEF b, y
  <2>1. /\ b \in Buffers /\ y.blk = b /\ y.disk = g.disk
        /\ InUse(y) = InUse(x) \cup {b} /\ InFree(y) = InFree(x) \ {b}
        /\ \A a \in Buffers \ {b} : y.buf[a] = x.buf[a]
    BY <2>0 DEF FirstMade
  <2>2. LET d == y.buf[b]
        IN /\ Len(d.list) = 1 /\ d.img.numKeyItems = 1 /\ d.blockNumber = n
           /\ d.img.prevBlock = 0 /\ d.img.nextBlock = 0
    BY <2>0 DEF FirstMade
  <2> HIDE DEF g
  <2>3. n \in Nat \ {0} /\ 1 \in Count /\ 1 <= numMaxItems
    BY MaxItemsAssumption DEF Ok, Count
  <2>4. Fit(y, {})
    BY <1>1, <2>1, <2>2, <2>3 DEF Fit, Counts, Room
  <2>5. ASSUME Accepted(y) PROVE Blank(y) /\ \A a \in InUse(y) : Sole(y, a)
    <3>1. InUse(x) = {} /\ Blank(x) /\ InFree(x) \subseteq Buffers
      BY <1>1, <2>1, <2>5, ListsTypes DEF Header, Accepted, GetFileBlock
    <3>2. Blank(y)
      BY <2>1, <3>1 DEF Blank
    <3>3. InUse(y) = {b} /\ Sole(y, b)
      BY <2>1, <2>2, <2>3, <3>1 DEF Sole
    <3> QED BY <3>2, <3>3
  <2>6. y.blk # NULL
    BY <2>1 DEF NULL, Buffers
  <2>7. Accepted(y) => Accepted(x)
    BY <1>1, <2>1 DEF Accepted, GetFileBlock
  <2> QED BY <1>3, <2>4, <2>5, <2>6, <2>7 DEF Header, y, g
<1> QED BY <1>2, <1>3

(* flushIndexBlocks: the used buffers that are dirty are written.          *)
LEMMA FlushAllShape ==
  ASSUME NEW n, NEW x, Ok(x, n), Sound(x)
  PROVE  LET y == FlushIndexBlocks(x)
             Due(b) == b \in InUse(x) /\ x.buf[b].isDirty
         IN /\ SameLists(x, y) /\ Len(y.disk) = n
            /\ \A b \in Buffers :
                 y.buf[b] = IF Due(b) THEN [ListToBlock(x.buf[b]) EXCEPT !.isDirty = FALSE]
                                      ELSE x.buf[b]
            /\ \A b \in Buffers :
                 Due(b) => y.disk[x.buf[b].blockNumber + 1] = ListToBlock(x.buf[b]).img
            /\ \A k \in 1..n :
                 \/ y.disk[k] = x.disk[k]
                 \/ \E b \in Buffers : /\ Due(b) /\ x.buf[b].blockNumber + 1 = k
                                       /\ y.disk[k] = ListToBlock(x.buf[b]).img
<1> DEFINE Dirty == {b \in Range(x.used) : x.buf[b].isDirty}
           Held(k) == {b \in Dirty : x.buf[b].blockNumber + 1 = k}
           Img(b) == ListToBlock(x.buf[b]).img
           d == [k \in DOMAIN x.disk |->
                   IF Held(k) # {} THEN Img(CHOOSE b \in Held(k) : TRUE) ELSE x.disk[k]]
           f == [b \in Buffers |->
                   IF b \in Dirty THEN [ListToBlock(x.buf[b]) EXCEPT !.isDirty = FALSE]
                                  ELSE x.buf[b]]
           y == [x EXCEPT !.disk = d, !.buf = f]
<1>1. n \in Nat \ {0} /\ x.disk \in [1..n -> Image(n)] /\ DOMAIN x.disk = 1..n
  BY LenProperties DEF Ok, BlockFile
<1>2. Dirty \subseteq Buffers /\ \A b : b \in Dirty <=> b \in InUse(x) /\ x.buf[b].isDirty
  BY PoolTypes DEF Range, InUse
<1>3. FlushIndexBlocks(x) = y
  BY DEF FlushIndexBlocks
<1>4. ASSUME NEW a \in Dirty, NEW b \in Dirty, x.buf[a].blockNumber = x.buf[b].blockNumber
      PROVE  a = b
  <2>1. PICK i, j \in DOMAIN x.used : a = x.used[i] /\ b = x.used[j]
    BY DEF Range
  <2> QED BY <1>4, <2>1 DEF Sound, OneBufferPerBlock
<1> HIDE DEF Dirty
<1>5. ASSUME NEW k \in 1..n
      PROVE  /\ Held(k) = {} => d[k] = x.disk[k]
             /\ \A b \in Held(k) : d[k] = Img(b)
  <2>1. d[k] = IF Held(k) # {} THEN Img(CHOOSE b \in Held(k) : TRUE) ELSE x.disk[k]
    BY <1>1
  <2>2. ASSUME NEW b \in Held(k) PROVE d[k] = Img(b)
    <3>1. \A a \in Held(k) : a = b
      <4>1. \A a \in Held(k) : /\ a \in Dirty /\ a \in Buffers /\ b \in Dirty /\ b \in Buffers
                               /\ x.buf[a].blockNumber + 1 = x.buf[b].blockNumber + 1
        BY <1>2, <2>2
      <4>2. \A a \in Held(k) : x.buf[a].blockNumber \in Int /\ x.buf[b].blockNumber \in Int
        BY <4>1, <1>1, BlockNumbers
      <4>3. \A a \in Held(k) : x.buf[a].blockNumber = x.buf[b].blockNumber
        BY <4>1, <4>2
      <4> QED BY <1>4, <4>1, <4>3
    <3>2. (CHOOSE a \in Held(k) : TRUE) = b
      <4>1. (CHOOSE a \in Held(k) : TRUE) \in Held(k)
        BY <2>2
      <4> QED BY <3>1, <4>1
    <3> QED BY <2>1, <2>2, <3>2
  <2> QED BY <2>1, <2>2
<1>6. DOMAIN d = 1..n /\ d \in Seq(Image(n)) /\ Len(d) = n
  <2>1. \A b \in Buffers : Img(b) \in Image(n)
    <3>1. \A b \in Buffers : ListToBlock(x.buf[b]) \in Buffer(n)
      BY <1>1, BufferType, ContentTypes DEF Remade
    <3> QED BY <3>1 DEF Buffer
  <2>2. \A k \in 1..n : d[k] \in Image(n)
    <3> TAKE k \in 1..n
    <3>1. CASE Held(k) = {}
      BY <1>1, <1>5, <3>1
    <3>2. CASE Held(k) # {}
      <4>1. PICK b \in Held(k) : TRUE
        BY <3>2
      <4>2. b \in Buffers /\ d[k] = Img(b)
        BY <1>2, <1>5, <4>1
      <4> QED BY <2>1, <4>2
    <3> QED BY <3>1, <3>2
  <2>3. DOMAIN d = 1..n
    BY <1>1
  <2> HIDE DEF d
  <2>4. d = [k \in 1..n |-> d[k]]
    <3>1. d = [k \in DOMAIN d |-> d[k]]
      BY DEF d
    <3> QED BY <2>3, <3>1
  <2>5. d \in [1..n -> Image(n)]
    BY <2>2, <2>4
  <2>6. d \in Seq(Image(n))
    BY <1>1, <2>5, SeqDef
  <2>7. Len(d) = n
    BY <1>1, <2>3, <2>6, LenProperties
  <2> QED BY <2>3, <2>6, <2>7
<1>7. \A b \in Buffers : f[b] = IF b \in Dirty
                                  THEN [ListToBlock(x.buf[b]) EXCEPT !.isDirty = FALSE]
                                  ELSE x.buf[b]
  OBVIOUS
<1>8. \A b \in Dirty : x.buf[b].blockNumber + 1 \in 1..n
  BY <1>1, <1>2, BlockNumbers
<1>9. \A b \in Dirty : d[x.buf[b].blockNumber + 1] = Img(b)
  <2> TAKE b \in Dirty
  <2>1. b \in Held(x.buf[b].blockNumber + 1)
    OBVIOUS
  <2> HIDE DEF d, Held
  <2> QED BY <1>5, <1>8, <2>1
<1>10. \A k \in 1..n : \/ d[k] = x.disk[k]
                       \/ \E b \in Dirty : x.buf[b].blockNumber + 1 = k /\ d[k] = Img(b)
  <2> TAKE k \in 1..n
  <2>1. CASE Held(k) = {}
    BY <1>5, <2>1
  <2>2. CASE Held(k) # {}
    <3>1. PICK b \in Held(k) : TRUE
      BY <2>2
    <3>2. b \in Dirty /\ x.buf[b].blockNumber + 1 = k
      BY <3>1
    <3>3. d[k] = Img(b)
      BY <1>5, <3>1
    <3> QED BY <3>2, <3>3
  <2> QED BY <2>1, <2>2
<1> HIDE DEF d, f
<1>11. y.disk = d /\ y.buf = f /\ SameLists(x, y)
  BY DEF SameLists, Ok, BlockFile
<1> HIDE DEF y
<1> QED BY <1>2, <1>3, <1>6, <1>7, <1>9, <1>10, <1>11

LEMMA FlushAllFit ==
  ASSUME NEW n, NEW x, Ok(x, n), Sound(x), Fit(x, {})
  PROVE  Fit(FlushIndexBlocks(x), {})
<1> DEFINE y == FlushIndexBlocks(x)
           Due(b) == b \in InUse(x) /\ x.buf[b].isDirty
<1>1. /\ Len(y.disk) = n
      /\ \A b \in Buffers :
           y.buf[b] = IF Due(b) THEN [ListToBlock(x.buf[b]) EXCEPT !.isDirty = FALSE]
                                ELSE x.buf[b]
      /\ \A k \in 1..n :
           \/ y.disk[k] = x.disk[k]
           \/ \E b \in Buffers : /\ Due(b) /\ x.buf[b].blockNumber + 1 = k
                                 /\ y.disk[k] = ListToBlock(x.buf[b]).img
  BY FlushAllShape
<1>2. n \in Nat \ {0} /\ Len(x.disk) = n
  BY DEF Ok
<1> HIDE DEF y
<1>3. ASSUME NEW b \in Buffers
      PROVE  LET c == ListToBlock(x.buf[b])
                 e == [c EXCEPT !.isDirty = FALSE]
             IN c.img.numKeyItems \in Count /\ e.img = c.img
                /\ e.list = x.buf[b].list
  <2>1. x.buf[b] \in Buffer(n) /\ Len(x.buf[b].list) <= numMaxItems
    BY BufferType DEF Fit, Room
  <2> DEFINE c == ListToBlock(x.buf[b])
  <2>2. c.img.numKeyItems \in Count /\ c.list = x.buf[b].list /\ c \in Buffer(n)
    BY <1>2, <2>1, ContentFits, ContentTypes DEF Remade
  <2> HIDE DEF c
  <2>3. [c EXCEPT !.isDirty = FALSE].img = c.img /\ [c EXCEPT !.isDirty = FALSE].list = c.list
    BY <2>2 DEF Buffer
  <2> QED BY <2>2, <2>3 DEF c
<1>4. \A b \in Buffers : y.buf[b].img.numKeyItems \in Count /\ y.buf[b].list = x.buf[b].list
  <2> TAKE b \in Buffers
  <2> DEFINE e == [ListToBlock(x.buf[b]) EXCEPT !.isDirty = FALSE]
  <2>1. y.buf[b] = e \/ y.buf[b] = x.buf[b]
    BY <1>1
  <2>2. e.img.numKeyItems \in Count /\ e.list = x.buf[b].list
    BY <1>3
  <2>3. x.buf[b].img.numKeyItems \in Count
    BY DEF Fit, Counts
  <2> HIDE DEF e
  <2> QED BY <2>1, <2>2, <2>3
<1>5. \A k \in 1..n : y.disk[k] = x.disk[k] \/ y.disk[k].numKeyItems \in Count
  BY <1>1, <1>3
<1>6. 1 \in 1..n /\ \A k \in 2..n : k \in 1..n
  BY <1>2
<1>7. Counts(y)
  BY <1>1, <1>2, <1>4, <1>5, <1>6 DEF Fit, Counts
<1>8. Room(y, {})
  BY <1>4 DEF Fit, Room
<1> QED BY <1>7, <1>8 DEF Fit, y

(* Closing, and openIndex of what a file holds.                            *)
LEMMA ClosedFit ==
  ASSUME NEW n, NEW x, Ok(x, n), Counts(x)
  PROVE  /\ Fit(Closed(x), {}) /\ Closed(x).disk = x.disk
         /\ \A b \in Buffers : Closed(x).buf[b] = NewBuffer
         /\ Accepted(Closed(x)) <=> Accepted(x)
<1> DEFINE f == [b \in Buffers |-> NewBuffer]
           y == [x EXCEPT !.buf = f, !.free = <<>>, !.used = <<>>, !.lastBlock = 0, !.blk = NULL]
<1>1. \A b \in Buffers : f[b] = NewBuffer
  OBVIOUS
<1>2. Closed(x) = y
  BY DEF Closed
<1> HIDE DEF f
<1>3. y.disk = x.disk /\ y.buf = f
  BY DEF Ok, BlockFile
<1> HIDE DEF y
<1>4. NewBuffer.img.numKeyItems \in Count /\ Len(NewBuffer.list) <= numMaxItems
  BY MaxItemsAssumption DEF NewBuffer, ZeroImage, Count
<1>5. Fit(y, {})
  BY <1>1, <1>3, <1>4 DEF Fit, Counts, Room
<1> QED BY <1>1, <1>2, <1>3, <1>5 DEF Accepted, GetFileBlock

LEMMA CloseFileFit ==
  ASSUME NEW n, NEW x, Ok(x, n), Counts(x)
  PROVE  /\ Counts(CloseBlockFile(x)) /\ Accepted(CloseBlockFile(x))
         /\ CloseBlockFile(x).buf = x.buf
         /\ Len(CloseBlockFile(x).disk) = n
         /\ \A k \in 2..n : CloseBlockFile(x).disk[k] = x.disk[k]
<1> DEFINE d == [x.disk EXCEPT ![1] = ControlBlock]
           y == [x EXCEPT !.disk = d, !.diskLast = x.lastBlock]
<1>1. n \in Nat \ {0} /\ x.disk \in Seq(Image(n)) /\ Len(x.disk) = n
  BY DEF Ok, BlockFile
<1>2. ControlBlock \in Image(n) /\ 1 \in 1..Len(x.disk)
  BY <1>1, InitialTypes
<1>3. /\ Len(d) = n /\ \A j \in 1..n : d[j] = IF j = 1 THEN ControlBlock ELSE x.disk[j]
  BY <1>1, <1>2, ExceptSeq
<1>4. CloseBlockFile(x) = y
  BY DEF CloseBlockFile, Ok, BlockFile
<1> HIDE DEF d
<1>5. y.disk = d /\ y.buf = x.buf
  BY DEF Ok, BlockFile
<1> HIDE DEF y
<1>6. ControlBlock.numKeyItems = HEADER
  BY DEF ControlBlock, ZeroImage
<1>7. 1 \in 1..n /\ \A j \in 2..n : j \in 1..n /\ j # 1
  BY <1>1
<1>8. d[1] = ControlBlock /\ \A j \in 2..n : d[j] = x.disk[j]
  BY <1>3, <1>7
<1>9. Counts(y)
  BY <1>1, <1>3, <1>5, <1>6, <1>8 DEF Counts
<1>10. Accepted(y)
  BY <1>5, <1>6, <1>8 DEF Accepted, GetFileBlock
<1> QED BY <1>3, <1>4, <1>5, <1>8, <1>9, <1>10

LEMMA OpenFit ==
  ASSUME NEW n, NEW x, Ok(x, n), Unopened(x), Fit(x, {}),
         \A b \in Buffers : x.buf[b].blockNumber = 0
  PROVE  LET y == OpenIndex(x)
         IN /\ Fit(y, {}) /\ Header(y) /\ InUse(y) = {} /\ Blank(y)
            /\ y.disk = x.disk /\ y.buf = x.buf
<1> DEFINE y == OpenIndex(x)
<1>1. y.disk = x.disk /\ y.buf = x.buf /\ y.used = <<>> /\ Ok(y, n)
  <2>1. y.disk = x.disk /\ y.buf = x.buf /\ y.used = x.used
    BY DEF OpenIndex, Ok, BlockFile
  <2> QED BY <2>1, OpenIndexOk DEF Unopened
<1> HIDE DEF y
<1>2. InUse(y) = {} /\ InFree(y) \subseteq Buffers
  BY <1>1, ListsTypes DEF InUse, Range
<1>3. Blank(y)
  BY <1>1, <1>2 DEF Blank
<1>4. Fit(y, {})
  BY <1>1 DEF Fit, Counts, Room
<1> QED BY <1>1, <1>2, <1>3, <1>4 DEF Header, y

-----------------------------------------------------------------------------
(* Each block, wherever it is.                                             *)

(* What a buffer, and an image in the file, say of their block.            *)
View(c)   == [list |-> c.list, prevBlock |-> c.img.prevBlock,
      nextBlock |-> c.img.nextBlock]
Stored(i) == [list |-> BlockToList(i), prevBlock |-> i.prevBlock,
      nextBlock |-> i.nextBlock]

(* No buffer in use has block m.                                           *)
Absent(x, m) == \A b \in InUse(x) : x.buf[b].blockNumber # m

(* The buffers of an index that is open: the free ones were never used, so *)
(* that a miss writes them over the control block only, and what is in the *)
(* others is written back, the pairs too.                                  *)
Alive(x) == Blank(x) /\ \A b \in InUse(x) : x.buf[b].sized /\ x.buf[b].isDirty

(* No block of a file of n blocks but the control block has changed.       *)
Same(x, y, n) == \A m \in 1..n - 1 : Logical(y, m) = Logical(x, m)

-----------------------------------------------------------------------------
(* A block in a buffer is what the buffer has, of which there is only one. *)
LEMMA HeldBlock ==
  ASSUME NEW n, NEW x, Ok(x, n), Sound(x), NEW b \in InUse(x)
  PROVE  /\ Logical(x, x.buf[b].blockNumber) = View(x.buf[b])
         /\ \A d \in InUse(x) : x.buf[d].blockNumber = x.buf[b].blockNumber => d = b
<1> DEFINE m == x.buf[b].blockNumber
<1>1. PICK j \in DOMAIN x.used : x.used[j] = b
  BY DEF InUse, Range
<1>2. /\ j \in Hits(x, m) /\ j \in Int
      /\ \A i \in Hits(x, m) : i = j
  BY <1>1, PoolTypes DEF Hits, Sound, OneBufferPerBlock
<1>3. Hits(x, m) = {j}
  BY <1>2
<1>4. Max(Hits(x, m)) = j
  BY <1>2, <1>3 DEF Max
<1>5. Logical(x, m) = View(x.buf[b])
  BY <1>1, <1>3, <1>4 DEF Logical, View
<1>6. \A d \in InUse(x) : x.buf[d].blockNumber = m => d = b
  BY <1>1 DEF InUse, Range, Sound, OneBufferPerBlock
<1> QED BY <1>5, <1>6

(* Any other is what the file has.                                         *)
LEMMA FileBlock ==
  ASSUME NEW x, NEW m, Absent(x, m)
  PROVE  Logical(x, m) = Stored(x.disk[m + 1])
<1>1. Hits(x, m) = {}
  BY DEF Hits, Absent, InUse, Range
<1> QED BY <1>1 DEF Logical, Stored, GetFileBlock

LEMMA AbsentNotHeld ==
  ASSUME NEW x, NEW m
  PROVE  NotHeld(x, m) <=> Absent(x, m)
BY DEF NotHeld, Absent, InUse, Range

LEMMA BlockTypes ==
  ASSUME NEW n, NEW x, Ok(x, n), Sound(x), NEW m \in 0..n - 1
  PROVE  /\ Logical(x, m).list \in Items
         /\ Logical(x, m).prevBlock \in 0..n - 1 /\ Logical(x, m).nextBlock \in 0..n - 1
<1>1. CASE Absent(x, m)
  <2>1. x.disk[m + 1] \in Image(n) /\ n \in Nat \ {0}
    BY DEF Ok, BlockFile
  <2> QED BY <1>1, <2>1, FileBlock, BlockToListType DEF Stored, Image
<1>2. CASE ~Absent(x, m)
  <2>1. PICK b \in InUse(x) : x.buf[b].blockNumber = m
    BY <1>2 DEF Absent
  <2>2. b \in Buffers
    BY <2>1, ListsTypes
  <2>3. Logical(x, m) = View(x.buf[b])
    BY <2>1, HeldBlock
  <2>4. x.buf[b].list \in Items /\ x.buf[b].img.prevBlock \in 0..n - 1
        /\ x.buf[b].img.nextBlock \in 0..n - 1
    BY <2>2, BlockNumbers
  <2> QED BY <2>3, <2>4 DEF View
<1> QED BY <1>1, <1>2

(* A buffer that has been used is written with its pairs.                  *)
LEMMA WrittenBack ==
  ASSUME NEW n \in Nat \ {0}, NEW c \in Buffer(n), c.sized
  PROVE  /\ Stored(ListToBlock(c).img) = View(c)
         /\ View(ListToBlock(c)) = View(c)
         /\ ListToBlock(c).blockNumber = c.blockNumber
         /\ ListToBlock(c).sized = c.sized /\ ListToBlock(c).isDirty = c.isDirty
<1> DEFINE i == ListToBlock(c).img
<1>1. c.list \in Seq(KeyItem \cup {Zeros}) /\ c.img \in Image(n)
  BY DEF Buffer, Items
<1>2. /\ i.numKeyItems = Len(c.list) /\ i.items = c.list
      /\ i.prevBlock = c.img.prevBlock /\ i.nextBlock = c.img.nextBlock
      /\ ListToBlock(c).list = c.list
      /\ ListToBlock(c).blockNumber = c.blockNumber
      /\ ListToBlock(c).sized = c.sized /\ ListToBlock(c).isDirty = c.isDirty
  BY <1>1 DEF ListToBlock, Image, Buffer
<1> HIDE DEF i
<1>3. Len(c.list) \in Nat /\ DOMAIN c.list = 1..Len(c.list)
      /\ c.list = [j \in 1..Len(c.list) |-> c.list[j]]
  BY <1>1
<1>4. BlockToList(i) = [j \in 1..Len(c.list) |-> c.list[j]]
  BY <1>2, <1>3 DEF BlockToList
<1> QED BY <1>2, <1>3, <1>4 DEF Stored, View, i

-----------------------------------------------------------------------------
(* getIndexBlock.                                                          *)

(* A miss moves blocks between the cache and the file.                     *)
LEMMA LoadKeeps ==
  ASSUME NEW n, NEW x, Ok(x, n), Sound(x), ~Exhausted(x), NEW m \in 0..n - 1,
         NotHeld(x, m), Alive(x)
  PROVE  Alive(Load(x, m)) /\ Same(x, Load(x, m), n)
<1> DEFINE y == Load(x, m)
           b == Victim(x)
           c == ListToBlock(x.buf[b])
           d == Filled(c, m, y.disk[m + 1])
           k == x.buf[b].blockNumber
<1>1. /\ b \in Buffers /\ Becomes(x, y, b, d) /\ Written(x, y, k, c.img)
      /\ InUse(y) = InUse(x) \cup {b} /\ InFree(y) = InFree(x) \ {b}
  BY LoadShape
<1>2. /\ n \in Nat \ {0} /\ Len(x.disk) = n /\ Len(y.disk) = n /\ k \in 0..n - 1
      /\ Ok(y, n) /\ Sound(y) /\ Absent(x, m)
  BY <1>1, BlockNumbers, LoadOk, AbsentNotHeld DEF Ok, Written, Got
<1>3. /\ InUse(x) \subseteq Buffers /\ InFree(x) \subseteq Buffers
      /\ x.free # <<>> => b \in InFree(x) /\ b \notin InUse(x)
      /\ x.free = <<>> => b \in InUse(x)
  BY ListsTypes, VictimShape, ListsApart
<1>4. b \in InFree(x) => k = 0
  BY DEF Alive, Blank
<1>5. x.buf[b] \in Buffer(n) /\ c \in Buffer(n) /\ y.disk[m + 1] \in Image(n)
  BY <1>1, <1>2, BufferType, ContentTypes DEF Remade, Ok, BlockFile
<1>6. /\ View(d) = Stored(y.disk[m + 1]) /\ d.blockNumber = m /\ d.sized /\ d.isDirty
  BY <1>5 DEF Filled, ClearList, View, Stored, Buffer
<1>7. b \in InUse(x) => Stored(c.img) = View(x.buf[b])
  BY <1>2, <1>5, WrittenBack DEF Alive
<1> HIDE DEF y, b, c, d, k
<1>8. Alive(y)
  BY <1>1, <1>3, <1>6 DEF Alive, Blank, Becomes
<1>9. ASSUME NEW j \in 1..n - 1 PROVE Logical(y, j) = Logical(x, j)
  <2>1. j \in Nat /\ j # 0 /\ j + 1 \in 1..n /\ m \in Nat /\ k \in Nat
    BY <1>2
  <2>2. CASE j = m
    <3>1. k # m
      BY <1>2, <1>3, <1>4, <2>1, <2>2 DEF Absent, k
    <3>2. y.disk[m + 1] = x.disk[m + 1]
      BY <1>1, <1>2, <2>1, <2>2, <3>1 DEF Written
    <3>3. Logical(y, m) = View(d)
      <4>1. b \in InUse(y) /\ y.buf[b] = d
        BY <1>1 DEF Becomes
      <4> QED BY <1>2, <1>6, <4>1, HeldBlock
    <3>4. Logical(x, m) = Stored(x.disk[m + 1])
      BY <1>2, FileBlock
    <3> QED BY <1>6, <2>2, <3>2, <3>3, <3>4
  <2>3. CASE j # m /\ ~Absent(x, j)
    <3>1. PICK a \in InUse(x) : x.buf[a].blockNumber = j
      BY <2>3 DEF Absent
    <3>2. Logical(x, j) = View(x.buf[a])
      BY <3>1, HeldBlock
    <3>3. CASE a # b
      <4>1. a \in InUse(y) /\ y.buf[a] = x.buf[a]
        BY <1>1, <1>3, <3>1, <3>3 DEF Becomes
      <4> QED BY <1>2, <3>1, <3>2, <4>1, HeldBlock
    <3>4. CASE a = b
      <4>1. \A e \in InUse(x) : x.buf[e].blockNumber = j => e = b
        BY <3>1, <3>4, HeldBlock
      <4>2. Absent(y, j)
        BY <1>1, <1>3, <1>6, <2>3, <4>1 DEF Absent, Becomes
      <4>3. y.disk[j + 1] = c.img
        BY <1>1, <3>1, <3>4 DEF Written, k
      <4> QED BY <1>7, <3>1, <3>2, <3>4, <4>2, <4>3, FileBlock
    <3> QED BY <3>3, <3>4
  <2>4. CASE j # m /\ Absent(x, j)
    <3>1. Absent(y, j)
      BY <1>1, <1>3, <1>6, <2>4 DEF Absent, Becomes
    <3>2. k # j
      BY <1>3, <1>4, <2>1, <2>4 DEF Absent, k
    <3>3. y.disk[j + 1] = x.disk[j + 1]
      BY <1>1, <1>2, <2>1, <3>2 DEF Written
    <3> QED BY <2>4, <3>1, <3>3, FileBlock
  <2> QED BY <2>2, <2>3, <2>4
<1> QED BY <1>8, <1>9 DEF Same, y

(* What getIndexBlock returns, in y, asked for block m.                    *)
Fetched(x, y, m, n) ==
  /\ Got(x, y, n) /\ y.lastBlock = x.lastBlock
  /\ Alive(y) /\ Same(x, y, n)
  /\ Youngest(y, y.blk) /\ y.blk \in InUse(y) /\ y.buf[y.blk].blockNumber = m

LEMMA GetKeeps ==
  ASSUME NEW n, NEW x, Ok(x, n), Sound(x), Size(x) # 0, NEW m \in 0..n - 1, Alive(x)
  PROVE  Fetched(x, GetIndexBlock(x, m), m, n)
<1> DEFINE y == GetIndexBlock(x, m)
<1>1. /\ Got(x, y, n) /\ y.lastBlock = x.lastBlock
      /\ Youngest(y, y.blk) /\ y.buf[y.blk].blockNumber = m
  BY GetIndexBlockOk, GetShape
<1>2. y.blk \in InUse(y)
  BY <1>1, ListsTypes DEF Got
<1>3. Alive(y) /\ Same(x, y, n)
  <2>1. CASE Hits(x, m) = {}
    <3>1. NotHeld(x, m) /\ ~Exhausted(x) /\ y = Load(x, m)
      BY <2>1, HitsFacts, SizeType DEF GetIndexBlock
    <3> QED BY <3>1, LoadKeeps
  <2>2. CASE Hits(x, m) # {}
    <3> DEFINE i == Max(Hits(x, m))
    <3>1. i \in DOMAIN x.used /\ y = Touch(x, i)
      BY <2>2, HitsFacts DEF GetIndexBlock
    <3> HIDE DEF i
    <3>2. y.buf = x.buf /\ y.disk = x.disk /\ y.free = x.free /\ InUse(y) = InUse(x)
      BY <3>1, TouchShape
    <3>3. Alive(y)
      BY <3>2 DEF Alive, Blank, InFree
    <3> HIDE DEF y
    <3>4. ASSUME NEW j \in 1..n - 1 PROVE Logical(y, j) = Logical(x, j)
      <4>1. CASE Absent(x, j)
        BY <3>2, <4>1, FileBlock DEF Absent
      <4>2. CASE ~Absent(x, j)
        <5>1. PICK a \in InUse(x) : x.buf[a].blockNumber = j
          BY <4>2 DEF Absent
        <5>2. Logical(x, j) = View(x.buf[a])
          BY <5>1, HeldBlock
        <5>3. Ok(y, n) /\ Sound(y) /\ a \in InUse(y) /\ y.buf[a] = x.buf[a]
          BY <1>1, <3>2, <5>1 DEF Got
        <5> QED BY <5>1, <5>2, <5>3, HeldBlock
      <4> QED BY <4>1, <4>2
    <3> QED BY <3>3, <3>4 DEF Same
  <2> QED BY <2>1, <2>2
<1> QED BY <1>1, <1>2, <1>3 DEF Fetched

-----------------------------------------------------------------------------
(* Buffers that are changed and written.                                   *)

(* x and y have the same buffers in use and free.                          *)
SameUse(x, y, n) ==
  /\ Ok(y, n) /\ Sound(y) /\ Size(y) = Size(x)
  /\ InUse(y) = InUse(x) /\ InFree(y) = InFree(x)

LEMMA SamePoolUse ==
  ASSUME NEW n, NEW x, Ok(x, n), Sound(x), NEW y, Ok(y, n), SamePool(x, y)
  PROVE  SameUse(x, y, n)
BY SamePoolSound DEF SameUse, SamePool, InUse, InFree

(* A buffer in use gets other contents.                                    *)
LEMMA ChangeView ==
  ASSUME NEW n, NEW x, Ok(x, n), Sound(x), NEW b \in InUse(x),
         NEW y, SameUse(x, y, n), y.disk = x.disk, NEW c, Becomes(x, y, b, c),
         c.blockNumber = x.buf[b].blockNumber
  PROVE  /\ \A k \in 0..n - 1 :
              Logical(y, k) = IF k
                    = x.buf[b].blockNumber THEN View(c) ELSE Logical(x, k)
         /\ Alive(x) /\ c.sized /\ c.isDirty => Alive(y)
<1>1. InUse(x) \subseteq Buffers /\ InFree(x) \subseteq Buffers /\ b \in Buffers
  BY ListsTypes
<1>2. \A a \in Buffers : y.buf[a].blockNumber = x.buf[a].blockNumber
  BY <1>1 DEF Becomes
<1>3. \A k : Absent(y, k) <=> Absent(x, k)
  BY <1>1, <1>2 DEF Absent, SameUse
<1>4. Alive(x) /\ c.sized /\ c.isDirty => Alive(y)
  BY <1>1, <1>2 DEF Alive, Blank, Becomes, SameUse
<1>5. ASSUME NEW k \in 0..n - 1
      PROVE  Logical(y, k) = IF k = x.buf[b].blockNumber THEN View(c) ELSE Logical(x, k)
  <2>1. CASE Absent(x, k)
    BY <1>3, <2>1, FileBlock DEF Absent
  <2>2. CASE ~Absent(x, k)
    <3>1. PICK a \in InUse(x) : x.buf[a].blockNumber = k
      BY <2>2 DEF Absent
    <3>2. Logical(x, k) = View(x.buf[a]) /\ (k = x.buf[b].blockNumber <=> a = b)
      BY <3>1, HeldBlock
    <3>3. a \in InUse(y) /\ y.buf[a].blockNumber = k
      BY <1>1, <1>2, <3>1 DEF SameUse
    <3>4. Logical(y, k) = View(y.buf[a])
      BY <3>3, HeldBlock DEF SameUse
    <3>5. y.buf[a] = IF a = b THEN c ELSE x.buf[a]
      BY <1>1, <3>1 DEF Becomes
    <3> QED BY <3>2, <3>4, <3>5
  <2> QED BY <2>1, <2>2
<1> QED BY <1>4, <1>5

(* x and y differ in the buffer b in use, which is c in y.                 *)
Reviewed(x, y, b, c, n) ==
  /\ SameUse(x, y, n) /\ Becomes(x, y, b, c)
  /\ y.lastBlock = x.lastBlock /\ y.blk = x.blk
  /\ \A k \in 0..n - 1 :
       Logical(y, k) = IF k = x.buf[b].blockNumber THEN View(c) ELSE Logical(x, k)
  /\ Alive(x) /\ c.sized /\ c.isDirty => Alive(y)

LEMMA SetView ==
  ASSUME NEW n, NEW x, Ok(x, n), Sound(x), NEW b \in InUse(x), NEW c,
         Remade(x.buf[b], c, n)
  PROVE  Reviewed(x, SetBuffer(x, b, c), b, c, n)
<1> DEFINE y == SetBuffer(x, b, c)
<1>1. b \in Buffers
  BY ListsTypes
<1>2. /\ Ok(y, n) /\ SamePool(x, y) /\ y.blk = x.blk
      /\ y.disk = x.disk /\ Becomes(x, y, b, c)
  BY <1>1, SetRemade, SetShape
<1>3. SameUse(x, y, n) /\ y.lastBlock = x.lastBlock
  BY <1>2, SamePoolUse DEF SamePool
<1>4. c.blockNumber = x.buf[b].blockNumber
  BY DEF Remade
<1> HIDE DEF y
<1>5. /\ \A k \in 0..n - 1 :
           Logical(y, k) = IF k = x.buf[b].blockNumber THEN View(c) ELSE Logical(x, k)
      /\ Alive(x) /\ c.sized /\ c.isDirty => Alive(y)
  BY <1>2, <1>3, <1>4, ChangeView
<1> QED BY <1>2, <1>3, <1>5 DEF Reviewed, y

(* A buffer in use is written to its block.                                *)
LEMMA PutKeeps ==
  ASSUME NEW n, NEW x, Ok(x, n), Sound(x), NEW b \in InUse(x)
  PROVE  LET y == PutFileBlock(x, b)
         IN /\ SameUse(x, y, n) /\ y.buf = x.buf /\ y.lastBlock = x.lastBlock
            /\ y.blk = x.blk
            /\ Same(x, y, n) /\ (Alive(x) => Alive(y))
<1> DEFINE y == PutFileBlock(x, b)
           m == x.buf[b].blockNumber
<1>1. b \in Buffers
  BY ListsTypes
<1>2. /\ Ok(y, n) /\ SamePool(x, y) /\ y.blk = x.blk /\ y.buf = x.buf
      /\ Written(x, y, m, x.buf[b].img)
  BY <1>1, PutFileBlockOk, PutShape
<1>3. SameUse(x, y, n) /\ y.lastBlock = x.lastBlock
  BY <1>2, SamePoolUse DEF SamePool
<1>4. Alive(x) => Alive(y)
  BY <1>2, <1>3 DEF Alive, Blank, SameUse
<1> HIDE DEF y
<1>5. ASSUME NEW k \in 1..n - 1 PROVE Logical(y, k) = Logical(x, k)
  <2>1. CASE Absent(x, k)
    <3>1. Absent(y, k) /\ m # k
      BY <1>2, <1>3, <2>1 DEF Absent, SameUse
    <3>2. k + 1 \in 1..Len(x.disk) /\ k + 1 # m + 1
      <4>1. m \in 0..n - 1
        BY <1>1, BlockNumbers
      <4>2. Len(x.disk) = n /\ n \in Nat
        BY DEF Ok
      <4> HIDE DEF m
      <4> QED BY <3>1, <4>1, <4>2
    <3>3. y.disk[k + 1] = x.disk[k + 1]
      BY <1>2, <3>2 DEF Written
    <3> QED BY <2>1, <3>1, <3>3, FileBlock
  <2>2. CASE ~Absent(x, k)
    <3>1. PICK a \in InUse(x) : x.buf[a].blockNumber = k
      BY <2>2 DEF Absent
    <3>2. Logical(x, k) = View(x.buf[a])
      BY <3>1, HeldBlock
    <3>3. a \in InUse(y) /\ y.buf[a] = x.buf[a]
      BY <1>2, <1>3, <3>1 DEF SameUse
    <3> QED BY <1>3, <3>1, <3>2, <3>3, HeldBlock DEF SameUse
  <2> QED BY <2>1, <2>2
<1> QED BY <1>2, <1>3, <1>4, <1>5 DEF Same, y

(* From x to y block j gets another nextBlock, or another prevBlock, m.    *)
NextSet(x, y, j, m, n) ==
  /\ SameUse(x, y, n) /\ Alive(y) /\ y.lastBlock = x.lastBlock
  /\ \A a \in Buffers : y.buf[a].blockNumber = x.buf[a].blockNumber
  /\ \A k \in 1..n - 1 :
       /\ Logical(y, k).list = Logical(x, k).list
       /\ Logical(y, k).prevBlock = Logical(x, k).prevBlock
       /\ Logical(y, k).nextBlock = IF k = j THEN m ELSE Logical(x, k).nextBlock

PrevSet(x, z, j, m, n) ==
  /\ SameUse(x, z, n) /\ Alive(z) /\ z.lastBlock = x.lastBlock
  /\ \A a \in Buffers : z.buf[a].blockNumber = x.buf[a].blockNumber
  /\ \A k \in 1..n - 1 :
       /\ Logical(z, k).list = Logical(x, k).list
       /\ Logical(z, k).nextBlock = Logical(x, k).nextBlock
       /\ Logical(z, k).prevBlock = IF k = j THEN m ELSE Logical(x, k).prevBlock

LEMMA LinkViews ==
  ASSUME NEW n, NEW x, Ok(x, n), Sound(x), NEW b \in InUse(x), NEW m \in 0..n - 1,
        Alive(x)
  PROVE  /\ NextSet(x, SetBuffer(x, b, SetNext(x.buf[b], m)), x.buf[b].blockNumber, m,
                     n)
         /\ PrevSet(x, SetBuffer(x, b, SetPrev(x.buf[b], m)), x.buf[b].blockNumber, m,
                     n)
<1> DEFINE c == SetNext(x.buf[b], m)
           d == SetPrev(x.buf[b], m)
           y == SetBuffer(x, b, c)
           z == SetBuffer(x, b, d)
<1>1. b \in Buffers /\ n \in Nat \ {0} /\ x.buf[b] \in Buffer(n)
  BY ListsTypes, BufferType DEF Ok
<1>2. Remade(x.buf[b], c, n) /\ Remade(x.buf[b], d, n)
  BY <1>1, ContentTypes
<1>3. /\ c.list = x.buf[b].list /\ c.sized = x.buf[b].sized
      /\ c.isDirty = x.buf[b].isDirty
      /\ c.img.prevBlock = x.buf[b].img.prevBlock /\ c.img.nextBlock = m
      /\ d.list = x.buf[b].list /\ d.sized = x.buf[b].sized
            /\ d.isDirty = x.buf[b].isDirty
      /\ d.img.prevBlock = m /\ d.img.nextBlock = x.buf[b].img.nextBlock
  BY <1>1, LinkContents
<1>4. x.buf[b].sized /\ x.buf[b].isDirty
  BY DEF Alive
<1> HIDE DEF c, d
<1>5. Reviewed(x, y, b, c, n) /\ Reviewed(x, z, b, d, n)
  BY <1>2, SetView
<1>6. Alive(y) /\ Alive(z)
  BY <1>3, <1>4, <1>5 DEF Reviewed
<1>7. Logical(x, x.buf[b].blockNumber) = View(x.buf[b])
  BY HeldBlock
<1> HIDE DEF y, z
<1>8. ASSUME NEW k \in 1..n - 1
      PROVE  /\ Logical(y, k).list = Logical(x, k).list
             /\ Logical(y, k).prevBlock = Logical(x, k).prevBlock
             /\ Logical(y, k).nextBlock = IF k = x.buf[b].blockNumber THEN m
                                          ELSE Logical(x, k).nextBlock
             /\ Logical(z, k).list = Logical(x, k).list
             /\ Logical(z, k).nextBlock = Logical(x, k).nextBlock
             /\ Logical(z, k).prevBlock = IF k = x.buf[b].blockNumber THEN m
                                          ELSE Logical(x, k).prevBlock
  <2>1. k \in 0..n - 1
    BY <1>1
  <2>2. CASE k = x.buf[b].blockNumber
    BY <1>3, <1>5, <1>7, <2>1, <2>2 DEF View, Reviewed
  <2>3. CASE k # x.buf[b].blockNumber
    BY <1>5, <2>1, <2>3 DEF Reviewed
  <2> QED BY <2>2, <2>3
<1>9. \A a \in Buffers : /\ y.buf[a].blockNumber = x.buf[a].blockNumber
                         /\ z.buf[a].blockNumber = x.buf[a].blockNumber
  BY <1>2, <1>5 DEF Becomes, Remade, Reviewed
<1> QED BY <1>5, <1>6, <1>8, <1>9 DEF y, z, c, d, Reviewed, NextSet, PrevSet

-----------------------------------------------------------------------------
(* deleteIndexItem, of the last pair of a block.                           *)

(* The block last returned keeps its buffer when another one is fetched.   *)
LEMMA YoungestStays ==
  ASSUME NEW n, NEW x, Ok(x, n), Sound(x), Size(x) >= 2, NEW m \in 0..n - 1,
         NEW b, Youngest(x, b)
  PROVE  LET y == GetIndexBlock(x, m)
         IN b \in InUse(y) /\ y.buf[b] = x.buf[b]
<1> DEFINE y == GetIndexBlock(x, m)
<1>1. b \in InUse(x) /\ b \in Buffers
  BY ListsTypes
<1>2. CASE Hits(x, m) = {}
  <2>1. ~Exhausted(x) /\ y = Load(x, m)
    BY <1>2, SizeType DEF GetIndexBlock
  <2>2. b # Victim(x)
    BY <2>1, VictimShape
  <2>3. PICK d : Becomes(x, y, Victim(x), d) /\ InUse(y) = InUse(x) \cup {Victim(x)}
    BY <2>1, LoadShape
  <2> QED BY <1>1, <2>2, <2>3 DEF Becomes
<1>3. CASE Hits(x, m) # {}
  <2> DEFINE i == Max(Hits(x, m))
  <2>1. i \in DOMAIN x.used /\ y = Touch(x, i)
    BY <1>3, HitsFacts DEF GetIndexBlock
  <2> HIDE DEF i
  <2>2. y.buf = x.buf /\ InUse(y) = InUse(x)
    BY <2>1, TouchShape
  <2> QED BY <1>1, <2>2
<1> QED BY <1>2, <1>3

(* From x to y the blocks before and after a block, p and q, are linked.   *)
Relinked(x, y, p, q, n) ==
  /\ Ok(y, n) /\ Sound(y) /\ Alive(y)
  /\ \A k \in 1..n - 1 :
       /\ Logical(y, k).list = Logical(x, k).list
       /\ Logical(y, k).nextBlock = IF k = p THEN q ELSE Logical(x, k).nextBlock
       /\ Logical(y, k).prevBlock = IF k = q THEN p ELSE Logical(x, k).prevBlock

LEMMA LinkNeighboursViews ==
  ASSUME NEW n, NEW x, Ok(x, n), Sound(x), NEW b \in InUse(x), Size(x) >= 2, Alive(x)
  PROVE  Relinked(x, LinkNeighbours(x, b), x.buf[b].img.prevBlock,
        x.buf[b].img.nextBlock, n)
<1> DEFINE P == x.buf[b].img.prevBlock
           N == x.buf[b].img.nextBlock
           p == GetIndexBlock(x, P)
           q == GetIndexBlock(p, N)
           l == SetBuffer(q, p.blk, SetNext(q.buf[p.blk], q.buf[q.blk].blockNumber))
           m == SetBuffer(l, q.blk, SetPrev(l.buf[q.blk], q.buf[p.blk].blockNumber))
           v == PutFileBlock(m, p.blk)
           w == PutFileBlock(v, q.blk)
<1>1. P \in 0..n - 1 /\ N \in 0..n - 1 /\ Size(x) # 0 /\ LinkNeighbours(x, b) = w
  <2>1. b \in Buffers /\ Size(x) \in Nat
    BY ListsTypes, SizeType
  <2> QED BY <2>1, BlockNumbers DEF LinkNeighbours
<1> HIDE DEF P, N
<1>2. Fetched(x, p, P, n)
  BY <1>1, GetKeeps
<1> HIDE DEF p
<1>3. /\ Ok(p, n) /\ Sound(p) /\ Size(p) >= 2 /\ Size(p) # 0 /\ Alive(p)
      /\ Youngest(p, p.blk) /\ p.buf[p.blk].blockNumber = P
  BY <1>1, <1>2 DEF Fetched, Got
<1>4. Fetched(p, q, N, n) /\ p.blk \in InUse(q) /\ q.buf[p.blk] = p.buf[p.blk]
  BY <1>1, <1>3, GetKeeps, YoungestStays
<1> HIDE DEF q
<1>5. /\ Ok(q, n) /\ Sound(q) /\ Alive(q) /\ q.blk \in InUse(q)
      /\ q.buf[q.blk].blockNumber = N /\ q.buf[p.blk].blockNumber = P
  BY <1>3, <1>4 DEF Fetched, Got
<1>6. NextSet(q, l, P, N, n)
  BY <1>1, <1>4, <1>5, LinkViews
<1> HIDE DEF l
<1>7. /\ Ok(l, n) /\ Sound(l) /\ q.blk \in InUse(l) /\ p.blk \in InUse(l)
      /\ l.buf[q.blk].blockNumber = N
  <2>1. q.blk \in Buffers
    BY <1>5, ListsTypes
  <2> QED BY <1>4, <1>5, <1>6, <2>1 DEF SameUse, NextSet
<1>8. PrevSet(l, m, N, P, n)
  <2>1. Alive(l) /\ l.buf[p.blk].blockNumber = P /\ q.buf[p.blk].blockNumber = P
    <3>1. p.blk \in Buffers
      BY <1>5, <1>4, ListsTypes
    <3> QED BY <1>5, <1>6, <3>1 DEF NextSet
  <2> QED BY <1>1, <1>7, <2>1, LinkViews
<1> HIDE DEF m
<1>9. Ok(m, n) /\ Sound(m) /\ p.blk \in InUse(m) /\ q.blk \in InUse(m)
  BY <1>7, <1>8 DEF SameUse, PrevSet
<1>10. SameUse(m, v, n) /\ Same(m, v, n) /\ Alive(v)
  BY <1>8, <1>9, PutKeeps DEF PrevSet
<1> HIDE DEF v
<1>11. Ok(v, n) /\ Sound(v) /\ q.blk \in InUse(v)
  BY <1>9, <1>10 DEF SameUse
<1>12. SameUse(v, w, n) /\ Same(v, w, n) /\ Alive(w)
  BY <1>10, <1>11, PutKeeps
<1> HIDE DEF w
<1>13. ASSUME NEW k \in 1..n - 1
       PROVE  /\ Logical(w, k).list = Logical(x, k).list
              /\ Logical(w, k).nextBlock = IF k = P THEN N ELSE Logical(x, k).nextBlock
              /\ Logical(w, k).prevBlock = IF k = N THEN P ELSE Logical(x, k).prevBlock
  <2>1. Logical(q, k) = Logical(x, k) /\ Logical(w, k) = Logical(m, k)
    BY <1>2, <1>4, <1>10, <1>12 DEF Same, Fetched
  <2> QED BY <1>6, <1>8, <2>1 DEF NextSet, PrevSet
<1> QED BY <1>1, <1>12, <1>13 DEF Relinked, SameUse, P, N

LEMMA UnlinkViews ==
  ASSUME NEW n, NEW x, Ok(x, n), Sound(x), NEW b \in InUse(x), Size(x) >= 2, Alive(x),
         NEW ki, ki.item # x.buf[b].blockNumber
  PROVE  Relinked(x, UnlinkBlock(x, b, ki), x.buf[b].img.prevBlock,
                  x.buf[b].img.nextBlock, n)
<1> DEFINE v == PutFileBlock(x, b)
<1>1. /\ SameUse(x, v, n) /\ v.buf = x.buf /\ Same(x, v, n) /\ Alive(v)
  BY PutKeeps
<1>2. UnlinkBlock(x, b, ki) = LinkNeighbours(v, b)
  BY DEF UnlinkBlock
<1> HIDE DEF v
<1>3. Relinked(v, LinkNeighbours(v, b), v.buf[b].img.prevBlock, v.buf[b].img.nextBlock,
      n)
  <2>1. Ok(v, n) /\ Sound(v) /\ b \in InUse(v) /\ Size(v) >= 2
    BY <1>1 DEF SameUse
  <2> QED BY <1>1, <2>1, LinkNeighboursViews
<1> QED BY <1>1, <1>2, <1>3 DEF Relinked, Same

-----------------------------------------------------------------------------
(* splitBlock.                                                             *)

(* From x to y block m has given the pairs behind the first half of its    *)
(* list to the new block n, which is linked in behind it.                  *)
Divided(x, y, m, n) ==
  LET old == Logical(x, m)
      half == Kept(old.list)
  IN /\ Ok(y, n + 1) /\ Sound(y) /\ Alive(y)
     /\ \A k \in 1..n :
          /\ Logical(y, k).list =
               (CASE k = m -> SubSeq(old.list, 1, half)
                  [] k = n -> Moved(old.list)
                  [] OTHER -> Logical(x, k).list)
          /\ Logical(y, k).nextBlock =
               (CASE k = m -> n
                  [] k = n -> old.nextBlock
                  [] OTHER -> Logical(x, k).nextBlock)
          /\ Logical(y, k).prevBlock =
               (IF k = old.nextBlock THEN n
                ELSE IF k = n THEN m ELSE Logical(x, k).prevBlock)

(* Up to the block that followed, whose prevBlock is not yet set.          *)
Parted(x, s, m, n) ==
  LET old == Logical(x, m)
  IN /\ Alive(s)
     /\ Logical(s, m) = [list |-> SubSeq(old.list, 1, Kept(old.list)),
                         prevBlock |-> old.prevBlock, nextBlock |-> n]
     /\ Logical(s, n) = [list |-> Moved(old.list),
                         prevBlock |-> m, nextBlock |-> old.nextBlock]
     /\ \A k \in 1..n - 1 : k # m => Logical(s, k) = Logical(x, k)

LEMMA LinkedViews ==
  ASSUME NEW n, NEW x, Ok(x, n), Sound(x), NEW b \in InUse(x), NEW s, Alive(x),
         NEW m \in 1..n - 1, x.buf[b].blockNumber = m, ~Exhausted(x),
         Victim(x) # b, Linked(x, s, b, Victim(x), n)
  PROVE  Parted(x, s, m, n)
<1> DEFINE r == Victim(x)
           c == x.buf[b]
<1>1. /\ b \in Buffers /\ n \in Nat \ {0} /\ m \in Nat /\ m # 0 /\ m # n
      /\ InUse(x) \subseteq Buffers /\ InFree(x) \subseteq Buffers /\ b \notin InFree(x)
  BY ListsTypes, ListsApart DEF Ok
<1>2. /\ r \in Buffers /\ r # b
      /\ x.free # <<>> => r \in InFree(x) /\ r \notin InUse(x)
      /\ x.free = <<>> => r \in InUse(x)
  BY <1>1, VictimShape, ListsApart
<1>3. /\ Ok(s, n + 1) /\ Sound(s)
      /\ InUse(s) = InUse(x) \cup {r} /\ InFree(s) = InFree(x) \ {r}
      /\ SplitBuffers(x, s, b, r, n)
      /\ SplitFile(x, s, b, r, x.buf[r].blockNumber, n)
  BY DEF Linked
<1>4. /\ c.sized /\ c.isDirty
      /\ \A a \in Buffers \ {b, r} : s.buf[a] = x.buf[a]
      /\ s.buf[b].sized /\ s.buf[b].isDirty /\ s.buf[b].blockNumber = m
      /\ s.buf[r].sized /\ s.buf[r].isDirty /\ s.buf[r].blockNumber = n
  BY <1>3 DEF SplitBuffers, Alive
<1>5. Alive(s)
  BY <1>1, <1>2, <1>3, <1>4 DEF Alive, Blank
<1>6. /\ View(s.buf[b]) = [list |-> SubSeq(c.list, 1, Kept(c.list)),
                           prevBlock |-> c.img.prevBlock, nextBlock |-> n]
      /\ View(s.buf[r]) = [list |-> Moved(c.list), prevBlock |-> m,
                           nextBlock |-> c.img.nextBlock]
  BY <1>3 DEF SplitBuffers, View
<1>7. Logical(s, m) = View(s.buf[b]) /\ Logical(s, n) = View(s.buf[r])
  BY <1>3, <1>4, HeldBlock
<1> HIDE DEF r, c
<1>8. ASSUME NEW k \in 1..n - 1, k # m PROVE Logical(s, k) = Logical(x, k)
  <2>1. k + 1 \in 1..n /\ k + 1 # m + 1 /\ k # n /\ k \in Nat /\ k # 0
    BY <1>1, <1>8
  <2>2. s.disk[k + 1] = IF x.free = <<>> /\ k + 1 = x.buf[r].blockNumber + 1
                          THEN ListToBlock(x.buf[r]).img ELSE x.disk[k + 1]
    BY <1>3, <2>1 DEF SplitFile
  <2>3. CASE Absent(x, k)
    <3>1. Absent(s, k)
      BY <1>1, <1>2, <1>3, <1>4, <1>8, <2>1, <2>3 DEF Absent
    <3>2. ~(x.free = <<>> /\ k + 1 = x.buf[r].blockNumber + 1)
      <4>1. x.buf[r].blockNumber \in Nat
        BY <1>1, <1>2, BlockNumbers
      <4>2. x.free = <<>> => x.buf[r].blockNumber # k
        BY <1>2, <2>3 DEF Absent
      <4> QED BY <2>1, <4>1, <4>2
    <3> QED BY <2>2, <2>3, <3>1, <3>2, FileBlock
  <2>4. CASE ~Absent(x, k)
    <3>1. PICK a \in InUse(x) : x.buf[a].blockNumber = k
      BY <2>4 DEF Absent
    <3>2. Logical(x, k) = View(x.buf[a]) /\ a # b /\ a \in Buffers
      BY <1>1, <1>8, <3>1, HeldBlock DEF c
    <3>3. CASE a # r
      <4>1. a \in InUse(s) /\ s.buf[a] = x.buf[a]
        BY <1>3, <1>4, <3>1, <3>2, <3>3
      <4> QED BY <1>3, <3>1, <3>2, <4>1, HeldBlock
    <3>4. CASE a = r
      <4>1. x.free = <<>> /\ x.buf[r].blockNumber = k
        BY <1>2, <3>1, <3>4
      <4>2. \A e \in InUse(x) : x.buf[e].blockNumber = k => e = r
        BY <3>1, <3>4, HeldBlock
      <4>3. Absent(s, k)
        BY <1>1, <1>2, <1>3, <1>4, <1>8, <2>1, <4>2 DEF Absent
      <4>4. s.disk[k + 1] = ListToBlock(x.buf[r]).img
        BY <2>2, <4>1
      <4>5. x.buf[r] \in Buffer(n) /\ x.buf[r].sized
        BY <1>2, <3>1, <3>4, BufferType DEF Alive
      <4>6. Stored(s.disk[k + 1]) = View(x.buf[r])
        BY <1>1, <4>4, <4>5, WrittenBack
      <4> QED BY <3>2, <3>4, <4>3, <4>6, FileBlock
    <3> QED BY <3>3, <3>4
  <2> QED BY <2>3, <2>4
<1>9. /\ Logical(x, m).list = c.list /\ Logical(x, m).prevBlock = c.img.prevBlock
      /\ Logical(x, m).nextBlock = c.img.nextBlock
  <2>1. Logical(x, m) = View(c)
    BY HeldBlock DEF c
  <2> QED BY <2>1 DEF View
<1> QED BY <1>5, <1>6, <1>7, <1>8, <1>9 DEF Parted

LEMMA SplitViews ==
  ASSUME NEW n, NEW x, Ok(x, n), Sound(x), NEW b, Youngest(x, b), Size(x) >= 2,
         Alive(x), GetNewBlock(x).blk # NULL, x.buf[b].blockNumber \in 1..n - 1
  PROVE  Divided(x, SplitBlock(x, b), x.buf[b].blockNumber, n)
<1> DEFINE m == x.buf[b].blockNumber
           r == Victim(x)
           N == x.buf[b].img.nextBlock
           old == Logical(x, m)
<1>1. b \in InUse(x) /\ b \in Buffers /\ n \in Nat \ {0} /\ ~Exhausted(x)
  <2>1. b \in InUse(x)
    BY ListsTypes
  <2>2. ~Exhausted(x)
    BY NewShape
  <2> QED BY <2>1, <2>2, ListsTypes DEF Ok
<1>2. r \in Buffers /\ r # b /\ \E s : Linked(x, s, b, r, n)
  BY <1>1, SplitShape
<1>3. PICK s : Linked(x, s, b, r, n)
  BY <1>2
<1>4. N \in 0..n - 1 /\ old = View(x.buf[b]) /\ old.nextBlock = N
  BY <1>1, BlockNumbers, HeldBlock DEF View
<1>5. Parted(x, s, m, n)
  BY <1>1, <1>2, <1>3, LinkedViews
<1> HIDE DEF r
<1> DEFINE f == GetIndexBlock(s, N)
           t == SetBuffer(f, f.blk, SetPrev(f.buf[f.blk], n))
           y == SplitBlock(x, b)
<1>6. /\ Ok(s, n + 1) /\ Sound(s) /\ Size(s) # 0 /\ Alive(s) /\ n + 1 \in Nat \ {0}
      /\ N \in 0..(n + 1) - 1 /\ n \in 0..(n + 1) - 1
      /\ y = [t EXCEPT !.blk = r]
  <2>1. N \in 0..(n + 1) - 1 /\ n \in 0..(n + 1) - 1 /\ n + 1 \in Nat \ {0}
    <3> HIDE DEF N
    <3> QED BY <1>1, <1>4
  <2>2. Ok(s, n + 1) /\ Sound(s) /\ Size(s) = Size(x)
    BY <1>3 DEF Linked
  <2>3. y = [t EXCEPT !.blk = r]
    BY <1>3 DEF Linked
  <2>4. Size(s) # 0
    BY <2>2, SizeType
  <2> QED BY <1>5, <2>1, <2>2, <2>3, <2>4 DEF Parted
<1>7. Fetched(s, f, N, n + 1)
  BY <1>6, GetKeeps
<1>8. Ok(f, n + 1) /\ Sound(f) /\ Alive(f) /\ f.blk \in InUse(f)
      /\ f.buf[f.blk].blockNumber = N
  BY <1>7 DEF Fetched, Got
<1> HIDE DEF f
<1>9. PrevSet(f, t, N, n, n + 1)
  BY <1>6, <1>8, LinkViews
<1> HIDE DEF t, y
<1>11. /\ y.buf = t.buf /\ y.disk = t.disk /\ y.used = t.used /\ y.free = t.free
       /\ Ok(y, n + 1) /\ Sound(y)
  <2>1. t \in BlockFile(n + 1) /\ Len(t.disk) = n + 1 /\ n + 1 \in Nat \ {0}
        /\ Ok(t, n + 1)
    BY <1>6, <1>9 DEF SameUse, Ok, PrevSet
  <2>2. /\ y.buf = t.buf /\ y.disk = t.disk /\ y.used = t.used /\ y.free = t.free
    BY <1>6, <2>1, BlkFit
  <2>3. y \in BlockFile(n + 1)
    BY <1>2, <1>6, <2>1 DEF BlockFile
  <2>4. Sound(t)
    BY <1>9 DEF SameUse, PrevSet
  <2>5. Ok(y, n + 1)
    BY <2>1, <2>2, <2>3 DEF Ok
  <2> QED BY <2>2, <2>4, <2>5 DEF Sound, OneBufferPerBlock
<1>12. Alive(y) /\ \A k : Logical(y, k) = Logical(t, k)
  <2>1. Alive(t)
    BY <1>9 DEF PrevSet
  <2> QED BY <2>1, <1>11 DEF Alive, Blank, InUse, InFree, Logical, Hits, GetFileBlock
<1>13. ASSUME NEW k \in 1..n
       PROVE  /\ Logical(y, k).list = Logical(s, k).list
              /\ Logical(y, k).nextBlock = Logical(s, k).nextBlock
              /\ Logical(y, k).prevBlock = IF k = N THEN n ELSE Logical(s, k).prevBlock
  <2>1. k \in 1..(n + 1) - 1
    BY <1>1
  <2>2. Logical(f, k) = Logical(s, k)
    BY <1>7, <2>1 DEF Fetched, Same
  <2> QED BY <1>9, <1>12, <2>1, <2>2 DEF PrevSet
<1> HIDE DEF N, m
<1>14. ASSUME NEW k \in 1..n
       PROVE  \/ k = m \/ k = n \/ (k \in 1..n - 1 /\ k # m)
  BY <1>1
<1>15. m # n
  BY <1>1 DEF m
<1> HIDE DEF old
<1>16. /\ Logical(s, m).list = SubSeq(old.list, 1, Kept(old.list))
       /\ Logical(s, m).nextBlock = n /\ Logical(s, m).prevBlock = old.prevBlock
       /\ Logical(s, n).list = Moved(old.list)
       /\ Logical(s, n).nextBlock = N /\ Logical(s, n).prevBlock = m
       /\ \A k \in 1..n - 1 : k # m => Logical(s, k) = Logical(x, k)
       /\ Logical(x, m) = old
  <2>1. /\ Logical(s, m) = [list |-> SubSeq(old.list, 1, Kept(old.list)),
                            prevBlock |-> old.prevBlock, nextBlock |-> n]
        /\ Logical(s, n) = [list |-> Moved(old.list),
                            prevBlock |-> m, nextBlock |-> old.nextBlock]
        /\ \A k \in 1..n - 1 : k # m => Logical(s, k) = Logical(x, k)
        /\ Logical(x, m) = old
    BY <1>5 DEF Parted, old
  <2>2. old.nextBlock = N
    BY <1>4, <2>1
  <2> DEFINE l == SubSeq(old.list, 1, Kept(old.list))
             h == Moved(old.list)
             u == Logical(s, m)
             v == Logical(s, n)
  <2>3. /\ u = [list |-> l, prevBlock |-> old.prevBlock, nextBlock |-> n]
        /\ v = [list |-> h, prevBlock |-> m, nextBlock |-> old.nextBlock]
    BY <2>1
  <2> HIDE DEF m, l, h, u, v
  <2>4. u.list = l /\ u.prevBlock = old.prevBlock /\ u.nextBlock = n
    BY <2>3
  <2>5. v.list = h /\ v.prevBlock = m /\ v.nextBlock = N
    BY <2>2, <2>3
  <2> QED BY <2>1, <2>4, <2>5 DEF u, v, l, h
<1>17. ASSUME NEW k \in 1..n
       PROVE  /\ Logical(y, k).list =
                   (CASE k = m -> SubSeq(old.list, 1, Kept(old.list))
                      [] k = n -> Moved(old.list)
                      [] OTHER -> Logical(x, k).list)
              /\ Logical(y, k).nextBlock =
                   (CASE k = m -> n
                      [] k = n -> old.nextBlock
                      [] OTHER -> Logical(x, k).nextBlock)
              /\ Logical(y, k).prevBlock =
                   (IF k = old.nextBlock THEN n
                    ELSE IF k = n THEN m ELSE Logical(x, k).prevBlock)
  <2>1. CASE k = m
    BY <1>4, <1>13, <1>15, <1>16, <2>1
  <2>2. CASE k = n
    BY <1>4, <1>13, <1>15, <1>16, <2>2
  <2>3. CASE k \in 1..n - 1 /\ k # m
    <3>1. k # n
      BY <1>1, <2>3
    <3> QED BY <1>4, <1>13, <1>16, <2>3, <3>1
  <2> QED BY <1>14, <2>1, <2>2, <2>3
<1> QED BY <1>11, <1>12, <1>17 DEF Divided, y, old, m

-----------------------------------------------------------------------------
(* addIndexItem into an empty index.                                       *)

(* From x to y block n is new and has the one pair ki.                     *)
Begun(x, y, ki, n) ==
  /\ Ok(y, n + 1) /\ Sound(y) /\ Alive(y) /\ y.lastBlock = n
  /\ Logical(y, n).list = <<ki>>
  /\ Logical(y, n).prevBlock = 0 /\ Logical(y, n).nextBlock = 0

LEMMA FirstViews ==
  ASSUME NEW n, NEW x, Ok(x, n), Sound(x), NEW ki \in KeyItem, Alive(x),
         FirstBlock(x, ki).blk # NULL
  PROVE  Begun(x, FirstBlock(x, ki), ki, n)
<1> DEFINE y == FirstBlock(x, ki)
           b == Victim(x)
<1>1. GetNewBlock(x).blk # NULL
  BY DEF FirstBlock
<1>2. FirstMade(x, y, b, ki, n)
  BY <1>1, FirstShape
<1>3. Got(x, y, n + 1)
  BY FirstBlockOk
<1> HIDE DEF y, b
<1>4. InUse(x) \subseteq Buffers /\ InFree(x) \subseteq Buffers
  BY ListsTypes
<1>5. Ok(y, n + 1) /\ Sound(y)
  BY <1>3 DEF Got
<1>6. Alive(y)
  BY <1>2, <1>4 DEF FirstMade, Alive, Blank
<1>7. b \in InUse(y) /\ y.buf[b].blockNumber = n
  BY <1>2 DEF FirstMade
<1>8. Logical(y, n) = View(y.buf[b])
  BY <1>5, <1>7, HeldBlock
<1> QED BY <1>2, <1>5, <1>6, <1>8 DEF FirstMade, View, Begun, y

(* A buffer that is lost takes no block along.                             *)
LEMMA NewLost ==
  ASSUME NEW n, NEW x, Ok(x, n), Sound(x), Alive(x), GetNewBlock(x).blk = NULL
  PROVE  Alive(GetNewBlock(x))
<1> DEFINE y == GetNewBlock(x)
           b == Victim(x)
           c == IF x.free # <<>> THEN x.buf[b] ELSE ListToBlock(x.buf[b])
           m == x.buf[b].blockNumber
<1>1. CASE Exhausted(x)
  <2>1. y = [x EXCEPT !.blk = NULL]
    BY <1>1 DEF GetNewBlock
  <2>2. y.buf = x.buf /\ y.free = x.free /\ y.used = x.used
    BY <2>1, BlkFit
  <2> QED BY <2>2 DEF Alive, Blank, InUse, InFree
<1>2. CASE ~Exhausted(x)
  <2>1. b \in Buffers /\ \E z : Placed(x, z, b, c, m, n)
    BY <1>2, NewPlace
  <2>2. PICK z : Placed(x, z, b, c, m, n)
    BY <2>1
  <2>3. InUse(x) \subseteq Buffers /\ InFree(x) \subseteq Buffers
    BY ListsTypes
  <2> HIDE DEF b, c, m
  <2>4. Alive(z)
    BY <2>2, <2>3 DEF Placed, Becomes, Alive, Blank
  <2>5. n # x.lastBlock + 1
    <3>1. SUFFICES ASSUME n = x.lastBlock + 1 PROVE FALSE
      OBVIOUS
    <3>2. y = Use(SetBuffer(z, b, [z.buf[b] EXCEPT !.blockNumber = n]), b)
      BY <2>2, <3>1 DEF Placed
    <3> DEFINE v == SetBuffer(z, b, [z.buf[b] EXCEPT !.blockNumber = n])
    <3>3. DOMAIN v = DOMAIN z /\ "blk" \in DOMAIN z
      BY <2>2 DEF Placed, Ok, BlockFile, SetBuffer
    <3> HIDE DEF v
    <3>4. y.blk = b
      BY <3>2, <3>3 DEF Use, v
    <3> QED BY <2>1, <3>4, CacheSizeAssumption DEF Buffers, NULL
  <2>6. y = [z EXCEPT !.blk = NULL]
    BY <2>2, <2>5 DEF Placed
  <2>7. y.buf = z.buf /\ y.free = z.free /\ y.used = z.used
    <3>1. Ok(z, n + 1)
      BY <2>2 DEF Placed
    <3> HIDE DEF y
    <3> QED BY <2>6, <3>1, BlkFit
  <2> QED BY <2>4, <2>7 DEF Alive, Blank, InUse, InFree
<1> QED BY <1>1, <1>2

-----------------------------------------------------------------------------
(* Opening and closing.                                                    *)

(* openIndex starts with an empty cache.                                   *)
LEMMA OpenViews ==
  ASSUME NEW n, NEW x, Ok(x, n), Unopened(x), Fit(x, {}),
         \A b \in Buffers : x.buf[b].blockNumber = 0
  PROVE  LET y == OpenIndex(x)
         IN Alive(y) /\ InUse(y) = {} /\ \A k : Logical(y, k) = Logical(x, k)
<1> DEFINE y == OpenIndex(x)
<1>1. InUse(y) = {} /\ Blank(y) /\ y.disk = x.disk
  BY OpenFit
<1>2. InUse(x) = {}
  BY DEF Unopened, InUse, Range
<1> HIDE DEF y
<1>3. Alive(y)
  BY <1>1 DEF Alive
<1>4. ASSUME NEW k PROVE Logical(y, k) = Logical(x, k)
  <2>1. Absent(x, k) /\ Absent(y, k)
    BY <1>1, <1>2 DEF Absent
  <2> QED BY <1>1, <2>1, FileBlock
<1> QED BY <1>1, <1>3, <1>4 DEF y

(* Without its cache an index has what is in the file.                     *)
LEMMA ClosedViews ==
  ASSUME NEW n, NEW x, Ok(x, n), NEW k
  PROVE  Logical(Closed(x), k) = Stored(x.disk[k + 1])
<1> DEFINE y == Closed(x)
<1>1. y.disk = x.disk /\ y.used = <<>>
  BY DEF Ok, BlockFile, Closed
<1> HIDE DEF y
<1>2. Absent(y, k)
  BY <1>1 DEF Absent, InUse, Range
<1> QED BY <1>1, <1>2, FileBlock DEF y

(* From x to y every block has been written.                               *)
WrittenAll(x, y, n) ==
  /\ Same(x, y, n)
  /\ \A k \in 1..n - 1 : Stored(y.disk[k + 1]) = Logical(y, k)

LEMMA FlushViews ==
  ASSUME NEW n, NEW x, Ok(x, n), Sound(x), Alive(x)
  PROVE  WrittenAll(x, FlushIndexBlocks(x), n)
<1> DEFINE y == FlushIndexBlocks(x)
           Due(b) == b \in InUse(x) /\ x.buf[b].isDirty
<1>1. /\ SameLists(x, y) /\ Len(y.disk) = n
      /\ \A b \in Buffers :
           y.buf[b] = IF Due(b) THEN [ListToBlock(x.buf[b]) EXCEPT !.isDirty = FALSE]
                                ELSE x.buf[b]
      /\ \A b \in Buffers :
           Due(b) => y.disk[x.buf[b].blockNumber + 1] = ListToBlock(x.buf[b]).img
      /\ \A k \in 1..n :
           \/ y.disk[k] = x.disk[k]
           \/ \E b \in Buffers : /\ Due(b) /\ x.buf[b].blockNumber + 1 = k
                                 /\ y.disk[k] = ListToBlock(x.buf[b]).img
  BY FlushAllShape
<1>2. Ok(y, n) /\ SamePool(x, y)
  BY FlushIndexBlocksOk
<1>3. Sound(y) /\ InUse(y) = InUse(x) /\ InUse(x) \subseteq Buffers /\ n \in Nat \ {0}
  BY <1>2, SamePoolSound, ListsTypes DEF SamePool, InUse, Ok
<1> HIDE DEF y
<1>4. ASSUME NEW b \in InUse(x)
      PROVE  /\ y.buf[b].blockNumber = x.buf[b].blockNumber
             /\ View(y.buf[b]) = View(x.buf[b])
             /\ Stored(y.disk[x.buf[b].blockNumber + 1]) = View(x.buf[b])
  <2> DEFINE c == ListToBlock(x.buf[b])
  <2>1. b \in Buffers /\ x.buf[b].sized /\ Due(b) /\ x.buf[b] \in Buffer(n)
    BY <1>3, BufferType DEF Alive
  <2>2. /\ Stored(c.img) = View(x.buf[b]) /\ View(c) = View(x.buf[b])
        /\ c.blockNumber = x.buf[b].blockNumber
    BY <1>3, <2>1, WrittenBack
  <2>3. c \in Buffer(n)
    BY <1>3, <2>1, ContentTypes DEF Remade
  <2>4. y.buf[b] = [c EXCEPT !.isDirty = FALSE]
        /\ y.disk[x.buf[b].blockNumber + 1] = c.img
    BY <1>1, <2>1
  <2> HIDE DEF c
  <2>5. y.buf[b].list = c.list /\ y.buf[b].img = c.img
        /\ y.buf[b].blockNumber = c.blockNumber
    BY <2>3, <2>4 DEF Buffer
  <2> QED BY <2>2, <2>4, <2>5 DEF View
<1>5. ASSUME NEW k \in 1..n - 1
      PROVE  Logical(y, k) = Logical(x, k) /\ Stored(y.disk[k + 1]) = Logical(y, k)
  <2>1. CASE Absent(x, k)
    <3>1. Absent(y, k)
      BY <1>3, <1>4, <2>1 DEF Absent
    <3>2. k + 1 \in 1..n /\ k \in Nat
      BY <1>3
    <3>3. \A b \in InUse(x) : x.buf[b].blockNumber + 1 # k + 1
      <4>1. \A b \in InUse(x) : x.buf[b].blockNumber \in 0..n - 1
        BY <1>3, BlockNumbers
      <4> QED BY <1>3, <2>1, <3>2, <4>1 DEF Absent
    <3>4. y.disk[k + 1] = x.disk[k + 1]
      BY <1>1, <3>2, <3>3
    <3> QED BY <2>1, <3>1, <3>4, FileBlock
  <2>2. CASE ~Absent(x, k)
    <3>1. PICK b \in InUse(x) : x.buf[b].blockNumber = k
      BY <2>2 DEF Absent
    <3>2. Logical(x, k) = View(x.buf[b])
      BY <3>1, HeldBlock
    <3>3. b \in InUse(y) /\ y.buf[b].blockNumber = k
      BY <1>3, <1>4, <3>1
    <3>4. Logical(y, k) = View(y.buf[b])
      BY <1>2, <1>3, <3>3, HeldBlock
    <3> QED BY <1>4, <3>1, <3>2, <3>4
  <2> QED BY <2>1, <2>2
<1> QED BY <1>5 DEF WrittenAll, Same, y

(* Writing the blocks never makes a file acceptable.                       *)
LEMMA FlushAccepts ==
  ASSUME NEW n, NEW x, Ok(x, n), Sound(x), Fit(x, {}), Accepted(FlushIndexBlocks(x))
  PROVE  Accepted(x)
<1> DEFINE y == FlushIndexBlocks(x)
<1>1. n \in Nat \ {0} /\ 1 \in 1..n /\ 0 + 1 = 1
  BY DEF Ok
<1>2. \/ y.disk[1] = x.disk[1]
      \/ \E b \in Buffers : y.disk[1] = ListToBlock(x.buf[b]).img
  <2>1. \A k \in 1..n :
           \/ y.disk[k] = x.disk[k]
           \/ \E b \in Buffers : y.disk[k] = ListToBlock(x.buf[b]).img
    BY FlushAllShape
  <2> HIDE DEF y
  <2> QED BY <1>1, <2>1
<1>3. \A b \in Buffers : ListToBlock(x.buf[b]).img.numKeyItems # HEADER
  <2>1. \A b \in Buffers : x.buf[b] \in Buffer(n) /\ Len(x.buf[b].list) <= numMaxItems
    BY BufferType DEF Fit, Room
  <2> QED BY <1>1, <2>1, ContentFits, HeaderIsNoCount
<1> QED BY <1>1, <1>2, <1>3 DEF Accepted, GetFileBlock

(* closeBlockFile writes the control block only.                           *)
LEMMA CloseViews ==
  ASSUME NEW n, NEW x, Ok(x, n), Counts(x), NEW k \in 1..n - 1,
         Stored(x.disk[k + 1]) = Logical(x, k)
  PROVE  Logical(Closed(CloseBlockFile(x)), k) = Logical(x, k)
<1> DEFINE y == CloseBlockFile(x)
<1>1. Ok(y, n) /\ k + 1 \in 2..n
  <2>1. n \in Nat
    BY DEF Ok
  <2> QED BY <2>1, CloseBlockFileOk
<1>2. y.disk[k + 1] = x.disk[k + 1]
  BY <1>1, CloseFileFit
<1> HIDE DEF y
<1> QED BY <1>1, <1>2, ClosedViews DEF y

-----------------------------------------------------------------------------
(* Shells: the blocks of an index in the order of its in-memory index.      *)

(* The blocks before and behind the i-th of a shell, 0 at its ends.        *)
Before(s, i) == IF i = 1 THEN 0 ELSE s[i - 1]
Behind(s, i) == IF i = Len(s) THEN 0 ELSE s[i + 1]

(* The blocks of the shell s are linked in its order, both ways.           *)
Chain(x, s) ==
  \A i \in DOMAIN s : /\ Logical(x, s[i]).prevBlock = Before(s, i)
                      /\ Logical(x, s[i]).nextBlock = Behind(s, i)

(* The index of shell s holds the pairs l.                                 *)
Listed(x, s, l) == Distinct(s) /\ Chain(x, s) /\ PairsIn(x, s) = l
(* The numbers of an index.                                                *)
LEMMA Numbers ==
  ASSUME NEW n, NEW x, Ok(x, n)
  PROVE  /\ n \in Nat \ {0} /\ FileEnd(x) = n
         /\ x.lastBlock \in Nat /\ x.diskLast \in Nat
BY DEF Ok, BlockFile, FileEnd

(* An in-memory index of a file is one of a longer file.                   *)
LEMMA ShellOfLonger ==
  ASSUME NEW n \in Nat, NEW s \in Seq(1..n - 1)
  PROVE  s \in Seq(1..(n + 1) - 1)
<1>1. 1..n - 1 \subseteq 1..(n + 1) - 1
  OBVIOUS
<1> QED BY <1>1, SeqMonotonic

LEMMA CacheNotEmpty == BLOCK_CACHE_SIZE # 0 /\ NULL \notin Buffers
BY CacheSizeAssumption DEF NULL, Buffers

-----------------------------------------------------------------------------
(* The pairs of a shell, block by block.                                   *)

Pairs       == KeyItem \cup {Zeros}
Lists(x, s) == [i \in DOMAIN s |-> Logical(x, s[i]).list]

LEMMA ListsType ==
  ASSUME NEW n, NEW x, Ok(x, n), Sound(x), NEW s \in Seq(1..n - 1)
  PROVE  /\ Lists(x, s) \in Seq(Seq(Pairs)) /\ Len(Lists(x, s)) = Len(s)
         /\ DOMAIN s = 1..Len(s) /\ Len(s) \in Nat
         /\ \A i \in 1..Len(s) : Lists(x, s)[i] = Logical(x, s[i]).list
<1>1. n \in Nat /\ Len(s) \in Nat /\ DOMAIN s = 1..Len(s)
  BY LenProperties DEF Ok
<1>2. \A i \in 1..Len(s) : s[i] \in 0..n - 1
  BY <1>1, ElementOfSeq
<1>3. \A i \in 1..Len(s) : Logical(x, s[i]).list \in Seq(Pairs)
  BY <1>2, BlockTypes DEF Items, Pairs
<1>4. Lists(x, s) = [i \in 1..Len(s) |-> Logical(x, s[i]).list]
  BY <1>1 DEF Lists
<1> QED BY <1>1, <1>3, <1>4

LEMMA PairsType ==
  ASSUME NEW n, NEW x, Ok(x, n), Sound(x), NEW s \in Seq(1..n - 1)
  PROVE  PairsIn(x, s) \in Seq(Pairs)
<1>1. PairsIn(x, s) = FlattenSeq(Lists(x, s))
  BY DEF PairsIn, Lists
<1> QED BY <1>1, ListsType, FlattenType

LEMMA PairsConcat ==
  ASSUME NEW n, NEW x, Ok(x, n), Sound(x), NEW s \in Seq(1..n - 1),
        NEW t \in Seq(1..n - 1)
  PROVE  PairsIn(x, s \o t) = PairsIn(x, s) \o PairsIn(x, t)
<1> DEFINE u == s \o t
           a == Lists(x, s)
           b == Lists(x, t)
           c == Lists(x, u)
<1>1. /\ u \in Seq(1..n - 1) /\ Len(u) = Len(s) + Len(t)
      /\ \A i \in 1..Len(s) + Len(t) : u[i]
            = IF i <= Len(s) THEN s[i] ELSE t[i - Len(s)]
  BY ConcatProperties
<1> HIDE DEF u
<1>2. /\ a \in Seq(Seq(Pairs)) /\ Len(a) = Len(s) /\ Len(s) \in Nat
      /\ \A i \in 1..Len(s) : a[i] = Logical(x, s[i]).list
  BY ListsType
<1>3. /\ b \in Seq(Seq(Pairs)) /\ Len(b) = Len(t) /\ Len(t) \in Nat
      /\ \A i \in 1..Len(t) : b[i] = Logical(x, t[i]).list
  BY ListsType
<1>4. /\ c \in Seq(Seq(Pairs)) /\ Len(c) = Len(u)
      /\ \A i \in 1..Len(u) : c[i] = Logical(x, u[i]).list
  <2>1. u \in Seq(1..n - 1)
    BY <1>1
  <2> QED BY <2>1, ListsType
<1> HIDE DEF a, b, c
<1>5. /\ a \o b \in Seq(Seq(Pairs)) /\ Len(a \o b) = Len(a) + Len(b)
      /\ \A i \in 1..Len(a) + Len(b) :
           (a \o b)[i] = IF i <= Len(a) THEN a[i] ELSE b[i - Len(a)]
  <2>1. a \in Seq(Seq(Pairs)) /\ b \in Seq(Seq(Pairs))
    BY <1>2, <1>3
  <2> QED BY <2>1, ConcatProperties
<1>6. ASSUME NEW i \in 1..Len(c) PROVE c[i] = (a \o b)[i]
  <2>1. i \in 1..Len(s) + Len(t) /\ i \in 1..Len(a) + Len(b) /\ i \in Int
    BY <1>1, <1>2, <1>3, <1>4
  <2>2. CASE i <= Len(s)
    <3>1. i \in 1..Len(s)
      BY <1>2, <2>1, <2>2
    <3> QED BY <1>1, <1>2, <1>4, <1>5, <2>1, <2>2, <3>1
  <2>3. CASE ~(i <= Len(s))
    <3>1. i - Len(s) \in 1..Len(t)
      BY <1>2, <1>3, <2>1, <2>3
    <3> QED BY <1>1, <1>2, <1>3, <1>4, <1>5, <2>1, <2>3, <3>1
  <2> QED BY <2>2, <2>3
<1>7. c = a \o b
  <2>1. Len(c) = Len(a \o b)
    BY <1>1, <1>2, <1>3, <1>4, <1>5
  <2> QED BY <1>4, <1>5, <1>6, <2>1, SeqEqual
<1>8. FlattenSeq(a \o b) = FlattenSeq(a) \o FlattenSeq(b)
  BY <1>2, <1>3, FlattenConcat
<1>9. /\ PairsIn(x, u) = FlattenSeq(c) /\ PairsIn(x, s) = FlattenSeq(a)
      /\ PairsIn(x, t) = FlattenSeq(b)
  BY DEF PairsIn, Lists, a, b, c
<1> QED BY <1>7, <1>8, <1>9 DEF u

LEMMA PairsOne ==
  ASSUME NEW n, NEW x, Ok(x, n), Sound(x), NEW m \in 1..n - 1
  PROVE  PairsIn(x, <<m>>) = Logical(x, m).list
<1>1. m \in 0..n - 1
  BY DEF Ok
<1>2. Logical(x, m).list \in Seq(Pairs)
  BY <1>1, BlockTypes DEF Items, Pairs
<1>3. Lists(x, <<m>>) = <<Logical(x, m).list>>
  BY DEF Lists
<1>4. PairsIn(x, <<m>>) = FlattenSeq(Lists(x, <<m>>))
  BY DEF PairsIn, Lists
<1> QED BY <1>2, <1>3, <1>4, FlattenOne

LEMMA PairsNone == ASSUME NEW x PROVE PairsIn(x, <<>>) = <<>>
<1>1. [i \in DOMAIN <<>> |-> Logical(x, <<>>[i]).list] = <<>>
  OBVIOUS
<1> QED BY <1>1, FlattenEmpty DEF PairsIn

(* They depend on the lists of its blocks only.                            *)
LEMMA PairsSame ==
  ASSUME NEW x, NEW y, NEW s,
         \A i \in DOMAIN s : Logical(y, s[i]).list = Logical(x, s[i]).list
  PROVE  PairsIn(y, s) = PairsIn(x, s)
<1>1. [i \in DOMAIN s |-> Logical(y, s[i]).list]
      = [i \in DOMAIN s |-> Logical(x, s[i]).list]
  OBVIOUS
<1> QED BY <1>1 DEF PairsIn

LEMMA PairsAround ==
  ASSUME NEW n, NEW x, Ok(x, n), Sound(x), NEW s, NEW a, NEW m, NEW z,
         Around(1..n - 1, s, a, m, z)
  PROVE  /\ PairsIn(x, a) \in Seq(Pairs) /\ PairsIn(x, z) \in Seq(Pairs)
         /\ PairsIn(x, s) = (PairsIn(x, a) \o Logical(x, m).list) \o PairsIn(x, z)
<1>0. \A u, v \in Seq(1..n - 1) : PairsIn(x, u \o v) = PairsIn(x, u) \o PairsIn(x, v)
  BY PairsConcat
<1>1. a \in Seq(1..n - 1) /\ z \in Seq(1..n - 1) /\ m \in 1..n - 1
      /\ s = (a \o <<m>>) \o z
  BY DEF Around
<1>2. <<m>> \in Seq(1..n - 1)
  BY <1>1
<1>3. a \o <<m>> \in Seq(1..n - 1)
  BY <1>1, <1>2, ConcatProperties
<1>4. PairsIn(x, (a \o <<m>>) \o z) = PairsIn(x, a \o <<m>>) \o PairsIn(x, z)
  BY <1>0, <1>1, <1>3, Zenon
<1>5. PairsIn(x, a \o <<m>>) = PairsIn(x, a) \o PairsIn(x, <<m>>)
  BY <1>0, <1>1, <1>2, Zenon
<1>6. PairsIn(x, <<m>>) = Logical(x, m).list
  BY <1>1, PairsOne
<1> QED BY <1>1, <1>4, <1>5, <1>6, PairsType

(* What the shell s, and s without its i-th block and with another one     *)
(* behind it, hold in y, when y differs from x in that block: the pairs    *)
(* before it, A, and behind it, Z, are those of x.                         *)
Parts(x, y, s, i, k, A, Z) ==
  /\ A \in Seq(Pairs) /\ Z \in Seq(Pairs)
  /\ PairsIn(x, s) = (A \o Logical(x, s[i]).list) \o Z
  /\ PairsIn(y, s) = (A \o Logical(y, s[i]).list) \o Z
  /\ PairsIn(y, RemoveAt(s, i)) = A \o Z
  /\ \A d \in 1..k - 1 :
       PairsIn(y, InsertAt(s, i + 1, d)) =
         ((A \o Logical(y, s[i]).list) \o Logical(y, d).list) \o Z

LEMMA PairsParts ==
  ASSUME NEW n, NEW x, Ok(x, n), Sound(x), NEW k, NEW y, Ok(y, k), Sound(y),
         NEW s \in Seq(1..n - 1), s \in Seq(1..k - 1), Distinct(s), NEW i \in DOMAIN s,
         \A j \in 1..n - 1 : j # s[i] => Logical(y, j).list = Logical(x, j).list
  PROVE  \E Z : Parts(x, y, s, i, k, PairsIn(x, SubSeq(s, 1, i - 1)), Z)
<1> DEFINE a == SubSeq(s, 1, i - 1)
           z == SubSeq(s, i + 1, Len(s))
<1>0. CutAt(1..n - 1, s, i, a, z) /\ CutAt(1..k - 1, s, i, a, z)
  BY CutOne
<1> HIDE DEF a, z
<1>1. /\ Around(1..n - 1, s, a, s[i], z) /\ Around(1..k - 1, s, a, s[i], z)
      /\ Len(a) = i - 1 /\ Len(z) = Len(s) - i
      /\ \A j \in 1..i - 1 : a[j] = s[j]
      /\ \A j \in 1..Len(s) - i : z[j] = s[i + j]
  BY <1>0 DEF CutAt
<1>2. /\ Len(s) \in Nat /\ DOMAIN s = 1..Len(s) /\ i \in 1..Len(s)
      /\ \A j \in 1..Len(s) : s[j] \in 1..n - 1 /\ s[j] \in 1..k - 1
  BY LenProperties, ElementOfSeq
<1>3. /\ a \in Seq(1..n - 1) /\ z \in Seq(1..n - 1) /\ s = (a \o <<s[i]>>) \o z
      /\ DOMAIN a = 1..Len(a) /\ DOMAIN z = 1..Len(z)
  BY <1>1, LenProperties DEF Around
<1>4. /\ \A j \in DOMAIN a : a[j] \in 1..n - 1 /\ a[j] \in 1..k - 1 /\ a[j] # s[i]
      /\ \A j \in DOMAIN z : z[j] \in 1..n - 1 /\ z[j] \in 1..k - 1 /\ z[j] # s[i]
  <2>1. ASSUME NEW j \in 1..i - 1
        PROVE a[j] \in 1..n - 1 /\ a[j] \in 1..k - 1 /\ a[j] # s[i]
    <3>1. j \in DOMAIN s /\ i \in DOMAIN s /\ j # i
      BY <1>2
    <3> QED BY <1>1, <1>2, <3>1 DEF Distinct
  <2>2. ASSUME NEW j \in 1..Len(s) - i
        PROVE  z[j] \in 1..n - 1 /\ z[j] \in 1..k - 1 /\ z[j] # s[i]
    <3>1. i + j \in DOMAIN s /\ i \in DOMAIN s /\ i + j # i
      BY <1>2
    <3> QED BY <1>1, <1>2, <3>1 DEF Distinct
  <2> QED BY <1>1, <1>3, <2>1, <2>2
<1>5. PairsIn(y, a) = PairsIn(x, a) /\ PairsIn(y, z) = PairsIn(x, z)
  BY <1>4, PairsSame
<1>6. Around(1..k - 1, s, a, s[i], z)
  BY <1>1
<1>made. AroundMade(1..k - 1, s, a, s[i], z)
  BY <1>6, AroundChanges
<1>7. /\ PairsIn(x, a) \in Seq(Pairs) /\ PairsIn(x, z) \in Seq(Pairs)
      /\ PairsIn(x, s) = (PairsIn(x, a) \o Logical(x, s[i]).list) \o PairsIn(x, z)
  BY <1>1, PairsAround
<1>8. PairsIn(y, s) = (PairsIn(y, a) \o Logical(y, s[i]).list) \o PairsIn(y, z)
  BY <1>6, PairsAround
<1>9. /\ a \in Seq(1..k - 1) /\ z \in Seq(1..k - 1) /\ s[i] \in 1..k - 1
      /\ Len(a) + 1 = i /\ Len(a) + 2 = i + 1
  BY <1>1, <1>2, <1>6 DEF Around
<1>concat. \A u, v \in Seq(1..k - 1) : PairsIn(y, u \o v) = PairsIn(y, u)
      \o PairsIn(y, v)
  BY PairsConcat
<1>10. PairsIn(y, RemoveAt(s, i)) = PairsIn(y, a) \o PairsIn(y, z)
  <2>1. RemoveAt(s, i) = a \o z
    <3>1. RemoveAt(s, Len(a) + 1) = a \o z
      BY <1>made DEF AroundMade
    <3> QED BY <1>9, <3>1
  <2> QED BY <1>9, <1>concat, <2>1
<1>11. ASSUME NEW d \in 1..k - 1
       PROVE  PairsIn(y, InsertAt(s, i + 1, d)) =
                ((PairsIn(y, a) \o Logical(y, s[i]).list) \o Logical(y, d).list)
                  \o PairsIn(y, z)
  <2> DEFINE b == a \o <<s[i]>>
  <2>1. InsertAt(s, i + 1, d) = (b \o <<d>>) \o z
    <3>1. InsertAt(s, Len(a) + 2, d) = ((a \o <<s[i]>>) \o <<d>>) \o z
      BY <1>made DEF AroundMade
    <3> QED BY <1>9, <3>1
  <2>2. <<s[i]>> \in Seq(1..k - 1)
    BY <1>9
  <2>3. b \in Seq(1..k - 1)
    BY <1>9, <2>2, ConcatProperties
  <2>4. PairsIn(y, b) = PairsIn(y, a) \o Logical(y, s[i]).list
    <3>1. PairsIn(y, b) = PairsIn(y, a) \o PairsIn(y, <<s[i]>>)
      BY <1>9, <1>concat, <2>2, Zenon
    <3> QED BY <1>9, <3>1, PairsOne
  <2> HIDE DEF b
  <2> DEFINE t == (b \o <<d>>) \o z
  <2>5. Around(1..k - 1, t, b, d, z)
    BY <1>9, <2>3 DEF Around
  <2> HIDE DEF t
  <2>6. PairsIn(y, t) = (PairsIn(y, b) \o Logical(y, d).list) \o PairsIn(y, z)
    BY <2>5, PairsAround
  <2> QED BY <2>1, <2>4, <2>6 DEF t
<1> QED BY <1>1, <1>5, <1>7, <1>8, <1>10, <1>11 DEF Parts, a

-----------------------------------------------------------------------------
(* The chain of the blocks.                                                *)

LEMMA ShellFacts ==
  ASSUME NEW n, NEW x, Ok(x, n), NEW s \in Seq(1..n - 1)
  PROVE  /\ n \in Nat \ {0} /\ Len(s) \in Nat /\ DOMAIN s = 1..Len(s)
         /\ \A i \in 1..Len(s) : s[i] \in 1..n - 1
BY LenProperties, ElementOfSeq DEF Ok

LEMMA ChainSame ==
  ASSUME NEW n, NEW x, Ok(x, n), NEW s \in Seq(1..n - 1), Chain(x, s), NEW y,
         \A k \in 1..n - 1 : /\ Logical(y, k).prevBlock = Logical(x, k).prevBlock
                             /\ Logical(y, k).nextBlock = Logical(x, k).nextBlock
  PROVE  Chain(y, s)
BY ShellFacts DEF Chain

(* A block that is split leads on to the new one, and that to the old next *)
(* block.                                                                  *)
LEMMA ChainSplit ==
  ASSUME NEW n, NEW x, Ok(x, n), NEW s \in Seq(1..n - 1), Distinct(s), Chain(x, s),
         NEW i \in DOMAIN s, NEW y, Divided(x, y, s[i], n)
  PROVE  LET t == InsertAt(s, i + 1, n) IN Distinct(t) /\ Chain(y, t)
<1> DEFINE t == InsertAt(s, i + 1, n)
           m == s[i]
           old == Logical(x, m)
<1>1. /\ n \in Nat \ {0} /\ Len(s) \in Nat /\ DOMAIN s = 1..Len(s) /\ i \in 1..Len(s)
      /\ i \in Nat
      /\ \A j \in 1..Len(s) : s[j] \in 1..n - 1
      /\ \A j, k \in 1..Len(s) : s[j] = s[k] => j = k
  BY ShellFacts DEF Distinct
<1>2. s \in Seq(1..n) /\ n \in 1..n
  <2>1. \A j \in 1..Len(s) : s[j] \in 1..n
    BY <1>1
  <2> QED BY <1>1, <2>1
<1>3. GrownBehind(1..n, s, i, n, t)
  BY <1>1, <1>2, GrowsBehind
<1> HIDE DEF t
<1>4. DOMAIN t = 1..Len(s) + 1 /\ Len(t) = Len(s) + 1
  BY <1>3 DEF GrownBehind
<1>5. /\ \A j \in 1..i : t[j] = s[j]
      /\ t[i + 1] = n
      /\ \A j \in i + 2..Len(s) + 1 : t[j] = s[j - 1] /\ j - 1 \in 1..Len(s)
  <2>1. \A j \in i + 2..Len(s) + 1 : j - 1 \in 1..Len(s)
    BY <1>1
  <2> QED BY <1>3, <2>1 DEF GrownBehind
<1>6. Distinct(t)
  <2>1. \A h \in 1..Len(s) : s[h] # n
    BY <1>1
  <2>2. ASSUME NEW j \in 1..Len(s) + 1, NEW k \in 1..Len(s) + 1, t[j] = t[k] PROVE j = k
    <3> DEFINE At(h) == IF h <= i THEN h ELSE h - 1
    <3>2. ASSUME NEW h \in 1..Len(s) + 1, h # i + 1
          PROVE  At(h) \in 1..Len(s) /\ t[h] = s[At(h)]
      <4>1. CASE h \in 1..i
        BY <1>1, <1>5, <4>1
      <4>2. CASE h \in i + 2..Len(s) + 1
        <5>1. At(h) = h - 1
          BY <1>1, <4>2
        <5> QED BY <1>5, <4>2, <5>1
      <4> QED BY <1>1, <3>2, <4>1, <4>2
    <3> HIDE DEF At
    <3>3. CASE j = i + 1
      BY <1>5, <2>1, <2>2, <3>2, <3>3
    <3>4. CASE k = i + 1
      BY <1>5, <2>1, <2>2, <3>2, <3>4
    <3>5. CASE j # i + 1 /\ k # i + 1
      <4>1. At(j) = At(k)
        BY <1>1, <2>2, <3>2, <3>5
      <4> QED BY <1>1, <3>5, <4>1 DEF At
    <3> QED BY <3>3, <3>4, <3>5
  <2> QED BY <1>4, <2>2 DEF Distinct
<1>7. /\ \A j \in 1..Len(s) : /\ Logical(x, s[j]).prevBlock = Before(s, j)
                              /\ Logical(x, s[j]).nextBlock = Behind(s, j)
  BY <1>1 DEF Chain
<1>8. /\ \A k \in 1..n :
           /\ Logical(y, k).nextBlock =
                (CASE k = m -> n
                   [] k = n -> old.nextBlock
                   [] OTHER -> Logical(x, k).nextBlock)
           /\ Logical(y, k).prevBlock =
                (IF k = old.nextBlock THEN n
                 ELSE IF k = n THEN m ELSE Logical(x, k).prevBlock)
  BY DEF Divided
<1>9. /\ old.nextBlock = Behind(s, i) /\ m \in 1..n - 1 /\ m # n
      /\ \A j \in 1..Len(s) : s[j] # n /\ s[j] \in 1..n
  BY <1>1, <1>7
<1> HIDE DEF m, old
<1>10. \A j \in 1..Len(s) : j # i => s[j] # m
  BY <1>1 DEF m
<1>11. \A j \in 1..Len(s) : s[j] = Behind(s, i) <=> j = i + 1
  <2>1. ASSUME NEW j \in 1..Len(s) PROVE s[j] # 0
    BY <1>1
  <2>2. CASE i = Len(s)
    BY <1>1, <2>1, <2>2 DEF Behind
  <2>3. CASE i # Len(s)
    <3>1. i + 1 \in 1..Len(s)
      BY <1>1, <2>3
    <3> QED BY <1>1, <2>3, <3>1 DEF Behind
  <2> QED BY <2>2, <2>3
<1>12. ASSUME NEW j \in 1..Len(s) + 1
       PROVE  /\ Logical(y, t[j]).prevBlock = Before(t, j)
              /\ Logical(y, t[j]).nextBlock = Behind(t, j)
  <2>1. CASE j \in 1..i
    <3>1. j \in 1..Len(s) /\ t[j] = s[j] /\ j # i + 1 /\ j # Len(t)
      BY <1>1, <1>4, <1>5, <2>1
    <3>2. Logical(y, s[j]).prevBlock = Before(s, j)
      BY <1>7, <1>8, <1>9, <1>11, <3>1
    <3>3. Logical(y, s[j]).nextBlock = IF j = i THEN n ELSE Behind(s, j)
      BY <1>7, <1>8, <1>9, <1>10, <3>1 DEF m
    <3>4. Before(t, j) = Before(s, j)
      <4>1. j # 1 => j - 1 \in 1..i
        BY <1>1, <2>1
      <4> QED BY <1>5, <4>1 DEF Before
    <3>5. Behind(t, j) = IF j = i THEN n ELSE Behind(s, j)
      <4>1. CASE j = i
        BY <1>5, <3>1, <4>1 DEF Behind
      <4>2. CASE j # i
        <5>1. j + 1 \in 1..i /\ j # Len(s)
          <6>1. j \in Nat /\ i \in Nat /\ Len(s) \in Nat /\ j < i /\ i <= Len(s)
            BY <1>1, <2>1, <4>2
          <6> QED BY <6>1
        <5> QED BY <1>5, <3>1, <4>2, <5>1 DEF Behind
      <4> QED BY <4>1, <4>2
    <3> QED BY <3>1, <3>2, <3>3, <3>4, <3>5
  <2>2. CASE j = i + 1
    <3>1. t[j] = n /\ n # Behind(s, i)
      <4>1. Behind(s, i) # n
        BY <1>1, <1>9 DEF Behind
      <4> QED BY <1>5, <2>2, <4>1
    <3>2. Logical(y, n).prevBlock = m /\ Logical(y, n).nextBlock = Behind(s, i)
      BY <1>2, <1>8, <1>9, <3>1
    <3>3. Before(t, j) = m
      <4>1. j # 1 /\ j - 1 = i /\ i \in 1..i
        BY <1>1, <2>2
      <4> QED BY <1>5, <4>1 DEF Before, m
    <3>4. Behind(t, j) = Behind(s, i)
      <4>1. CASE i = Len(s)
        BY <1>1, <1>4, <2>2, <4>1 DEF Behind
      <4>2. CASE i # Len(s)
        <5>1. i + 2 \in i + 2..Len(s) + 1 /\ (i + 2) - 1 = i + 1 /\ j + 1 = i + 2
              /\ j # Len(t)
          BY <1>1, <1>4, <2>2, <4>2
        <5>2. t[i + 2] = s[(i + 2) - 1]
          BY <1>5, <5>1
        <5> QED BY <4>2, <5>1, <5>2 DEF Behind
      <4> QED BY <4>1, <4>2
    <3> QED BY <3>1, <3>2, <3>3, <3>4
  <2>3. CASE j \in i + 2..Len(s) + 1
    <3>1. /\ t[j] = s[j - 1] /\ j - 1 \in 1..Len(s) /\ j - 1 # i /\ j # 1 /\ j - 1 # 1
          /\ (j - 1 = i + 1 <=> j = i + 2)
      <4>1. j \in Nat /\ i \in Nat /\ i >= 1 /\ j >= i + 2
        BY <1>1, <2>3
      <4>2. t[j] = s[j - 1] /\ j - 1 \in 1..Len(s)
        BY <1>5, <2>3
      <4> QED BY <4>1, <4>2
    <3>2. Logical(y, s[j - 1]).prevBlock = IF j = i + 2 THEN n ELSE Before(s, j - 1)
      BY <1>7, <1>8, <1>9, <1>11, <3>1
    <3>3. Logical(y, s[j - 1]).nextBlock = Behind(s, j - 1)
      BY <1>7, <1>8, <1>9, <1>10, <3>1
    <3>4. Before(t, j) = IF j = i + 2 THEN n ELSE Before(s, j - 1)
      <4>1. CASE j = i + 2
        <5>1. j - 1 = i + 1
          BY <1>1, <4>1
        <5> QED BY <1>5, <3>1, <4>1, <5>1 DEF Before
      <4>2. CASE j # i + 2
        <5>1. j - 1 \in i + 2..Len(s) + 1
          BY <1>1, <2>3, <4>2
        <5>2. t[j - 1] = s[(j - 1) - 1]
          BY <1>5, <5>1
        <5> QED BY <3>1, <4>2, <5>2 DEF Before
      <4> QED BY <4>1, <4>2
    <3>5. Behind(t, j) = Behind(s, j - 1)
      <4>1. CASE j = Len(s) + 1
        <5>1. j - 1 = Len(s)
          BY <1>1, <4>1
        <5> QED BY <1>4, <4>1, <5>1 DEF Behind
      <4>2. CASE j # Len(s) + 1
        <5>1. /\ j + 1 \in i + 2..Len(s) + 1 /\ (j + 1) - 1 = (j - 1) + 1 /\ j # Len(t)
              /\ j - 1 # Len(s)
          BY <1>1, <1>4, <2>3, <4>2
        <5>2. t[j + 1] = s[(j + 1) - 1]
          BY <1>5, <5>1
        <5> QED BY <5>1, <5>2 DEF Behind
      <4> QED BY <4>1, <4>2
    <3> QED BY <3>1, <3>2, <3>3, <3>4, <3>5
  <2>4. j \in 1..i \/ j = i + 1 \/ j \in i + 2..Len(s) + 1
    BY <1>1
  <2> QED BY <2>1, <2>2, <2>3, <2>4
<1>13. Chain(y, t)
  BY <1>4, <1>12 DEF Chain
<1> QED BY <1>6, <1>13 DEF t

(* The neighbours of a block that is unlinked lead to each other.          *)
LEMMA ChainUnlinked ==
  ASSUME NEW n, NEW x, Ok(x, n), NEW s \in Seq(1..n - 1), Distinct(s), Chain(x, s),
         NEW i \in DOMAIN s, NEW y, Relinked(x, y, Before(s, i), Behind(s, i), n)
  PROVE  LET t == RemoveAt(s, i) IN Distinct(t) /\ Chain(y, t)
<1> DEFINE t == RemoveAt(s, i)
<1>1. /\ n \in Nat \ {0} /\ Len(s) \in Nat /\ DOMAIN s = 1..Len(s) /\ i \in 1..Len(s)
      /\ i \in Nat
      /\ \A j \in 1..Len(s) : s[j] \in 1..n - 1
      /\ \A j, k \in 1..Len(s) : s[j] = s[k] => j = k
  BY ShellFacts DEF Distinct
<1>2. ShrunkAt(1..n - 1, s, i, t)
  BY <1>1, RemoveShrinks
<1> HIDE DEF t
<1>3. DOMAIN t = 1..Len(s) - 1 /\ Len(t) = Len(s) - 1
  BY <1>2 DEF ShrunkAt
<1>4. /\ \A j \in 1..i - 1 : t[j] = s[j] /\ j \in 1..Len(s)
      /\ \A j \in i..Len(s) - 1 : t[j] = s[j + 1] /\ j + 1 \in 1..Len(s)
  <2>1. /\ \A j \in 1..i - 1 : j \in 1..Len(s)
        /\ \A j \in i..Len(s) - 1 : j + 1 \in 1..Len(s)
    BY <1>1
  <2> QED BY <1>2, <2>1 DEF ShrunkAt
<1>5. Distinct(t)
  <2>1. ASSUME NEW j \in 1..Len(s) - 1, NEW k \in 1..Len(s) - 1, t[j] = t[k] PROVE j = k
    <3> DEFINE At(h) == IF h < i THEN h ELSE h + 1
    <3>1. ASSUME NEW h \in 1..Len(s) - 1
          PROVE  At(h) \in 1..Len(s) /\ t[h] = s[At(h)]
      <4>1. CASE h < i
        <5>1. h \in 1..i - 1
          BY <1>1, <4>1
        <5> QED BY <1>4, <4>1, <5>1
      <4>2. CASE ~(h < i)
        <5>1. h \in i..Len(s) - 1
          BY <1>1, <4>2
        <5> QED BY <1>4, <4>2, <5>1
      <4> QED BY <4>1, <4>2
    <3> HIDE DEF At
    <3>2. At(j) = At(k)
      BY <1>1, <2>1, <3>1
    <3>3. j \in Nat /\ k \in Nat /\ i \in Nat
      BY <1>1
    <3> QED BY <3>2, <3>3 DEF At
  <2> QED BY <1>3, <2>1 DEF Distinct
<1>6. \A j \in 1..Len(s) : /\ Logical(x, s[j]).prevBlock = Before(s, j)
                           /\ Logical(x, s[j]).nextBlock = Behind(s, j)
  BY <1>1 DEF Chain
<1>7. \A k \in 1..n - 1 :
        /\ Logical(y, k).nextBlock = IF k = Before(s, i) THEN Behind(s, i)
                                                         ELSE Logical(x, k).nextBlock
        /\ Logical(y, k).prevBlock = IF k = Behind(s, i) THEN Before(s, i)
                                                         ELSE Logical(x, k).prevBlock
  BY DEF Relinked
<1>8. \A j \in 1..Len(s) : /\ s[j] = Behind(s, i) <=> j = i + 1
                           /\ s[j] = Before(s, i) <=> j = i - 1
  <2>1. ASSUME NEW j \in 1..Len(s) PROVE s[j] # 0 /\ j # 0 /\ j # Len(s) + 1
    BY <1>1
  <2>2. ASSUME NEW j \in 1..Len(s) PROVE s[j] = Behind(s, i) <=> j = i + 1
    <3>1. CASE i = Len(s)
      BY <1>1, <2>1, <3>1 DEF Behind
    <3>2. CASE i # Len(s)
      <4>1. i + 1 \in 1..Len(s)
        BY <1>1, <3>2
      <4> QED BY <1>1, <3>2, <4>1 DEF Behind
    <3> QED BY <3>1, <3>2
  <2>3. ASSUME NEW j \in 1..Len(s) PROVE s[j] = Before(s, i) <=> j = i - 1
    <3>1. CASE i = 1
      BY <1>1, <2>1, <3>1 DEF Before
    <3>2. CASE i # 1
      <4>1. i - 1 \in 1..Len(s)
        BY <1>1, <3>2
      <4> QED BY <1>1, <3>2, <4>1 DEF Before
    <3> QED BY <3>1, <3>2
  <2> QED BY <2>2, <2>3
<1>9. ASSUME NEW j \in 1..Len(s) - 1
      PROVE  /\ Logical(y, t[j]).prevBlock = Before(t, j)
             /\ Logical(y, t[j]).nextBlock = Behind(t, j)
  <2>1. CASE j \in 1..i - 1
    <3>1. /\ t[j] = s[j] /\ j \in 1..Len(s) /\ j # i + 1 /\ j # Len(s)
          /\ (j = 1 \/ j - 1 \in 1..i - 1)
      <4>1. j \in Nat /\ i \in Nat /\ Len(s) \in Nat /\ 1 <= j /\ j < i /\ i <= Len(s)
        BY <1>1, <2>1
      <4>2. /\ j \in 1..Len(s) /\ j # i + 1 /\ j # Len(s)
            /\ (j = 1 \/ j - 1 \in 1..i - 1)
        BY <4>1
      <4> QED BY <1>4, <2>1, <4>2
    <3>2. Logical(y, s[j]).prevBlock = Before(s, j)
      BY <1>1, <1>6, <1>7, <1>8, <3>1
    <3>3. Logical(y, s[j]).nextBlock = IF j = i - 1 THEN Behind(s, i) ELSE Behind(s, j)
      BY <1>1, <1>6, <1>7, <1>8, <3>1
    <3>4. Before(t, j) = Before(s, j)
      BY <1>4, <3>1 DEF Before
    <3>5. Behind(t, j) = IF j = i - 1 THEN Behind(s, i) ELSE Behind(s, j)
      <4>1. CASE j = i - 1
        <5>1. j + 1 = i /\ (i = Len(s) <=> j = Len(t))
          <6>1. j + 1 = i /\ i \in Nat /\ j \in Nat /\ Len(s) \in Nat
                /\ Len(t) = Len(s) - 1
            BY <1>1, <1>3, <2>1, <4>1
          <6> QED BY <6>1
        <5>2. CASE i = Len(s)
          BY <4>1, <5>1, <5>2 DEF Behind
        <5>3. CASE i # Len(s)
          <6>1. i \in i..Len(s) - 1
            BY <1>1, <5>3
          <6>2. t[j + 1] = s[i + 1]
            BY <1>4, <5>1, <6>1
          <6> QED BY <4>1, <5>1, <5>3, <6>2 DEF Behind
        <5> QED BY <5>2, <5>3
      <4>2. CASE j # i - 1
        <5>1. j + 1 \in 1..i - 1 /\ j # Len(t)
          <6>1. j \in Nat /\ i \in Nat /\ Len(s) \in Nat /\ j < i - 1 /\ i <= Len(s)
            BY <1>1, <2>1, <4>2
          <6>2. Len(t) = Len(s) - 1
            BY <1>3
          <6>3. j + 1 \in 1..i - 1
            BY <6>1
          <6>4. j # Len(t)
            BY <6>1, <6>2
          <6> QED BY <6>3, <6>4
        <5> QED BY <1>4, <3>1, <4>2, <5>1 DEF Behind
      <4> QED BY <4>1, <4>2
    <3> QED BY <3>1, <3>2, <3>3, <3>4, <3>5
  <2>2. CASE j \in i..Len(s) - 1
    <3>1. t[j] = s[j + 1] /\ j + 1 \in 1..Len(s) /\ j + 1 # i - 1 /\ j + 1 # 1
      BY <1>1, <1>4, <2>2
    <3>2. Logical(y, s[j + 1]).nextBlock = Behind(s, j + 1)
      BY <1>1, <1>6, <1>7, <1>8, <3>1
    <3>3. Logical(y, s[j + 1]).prevBlock = IF j
          = i THEN Before(s, i) ELSE Before(s, j + 1)
      <4>1. j + 1 = i + 1 <=> j = i
        BY <1>1
      <4> QED BY <1>1, <1>6, <1>7, <1>8, <3>1, <4>1
    <3>4. Behind(t, j) = Behind(s, j + 1)
      <4>1. CASE j = Len(s) - 1
        <5>1. j + 1 = Len(s)
          BY <1>1, <4>1
        <5> QED BY <1>3, <4>1, <5>1 DEF Behind
      <4>2. CASE j # Len(s) - 1
        <5>1. j + 1 \in i..Len(s) - 1 /\ j # Len(t) /\ j + 1 # Len(s)
          <6>0. /\ j \in Nat /\ i \in Nat /\ Len(s) \in Nat /\ i <= j /\ j <= Len(s) - 1
            BY <1>1, <2>2
          <6>1. /\ j \in Nat /\ i \in Nat /\ Len(s) \in Nat /\ i <= j /\ j < Len(s) - 1
            BY <4>2, <6>0
          <6>2. Len(t) = Len(s) - 1
            BY <1>3
          <6>3. j + 1 \in i..Len(s) - 1 /\ j # Len(s) - 1 /\ j + 1 # Len(s)
            BY <6>1
          <6> QED BY <6>2, <6>3
        <5>2. t[j + 1] = s[(j + 1) + 1]
          BY <1>4, <5>1
        <5> QED BY <5>1, <5>2 DEF Behind
      <4> QED BY <4>1, <4>2
    <3>5. Before(t, j) = IF j = i THEN Before(s, i) ELSE Before(s, j + 1)
      <4>1. CASE j = i
        <5>1. i = 1 \/ i - 1 \in 1..i - 1
          BY <1>1
        <5> QED BY <1>4, <4>1, <5>1 DEF Before
      <4>2. CASE j # i
        <5>1. j - 1 \in i..Len(s) - 1 /\ (j - 1) + 1 = (j + 1) - 1 /\ j # 1
          <6>1. j \in Nat /\ i \in Nat /\ Len(s) \in Nat /\ i < j /\ j <= Len(s) - 1
                /\ 1 <= i
            BY <1>1, <2>2, <4>2
          <6> QED BY <6>1
        <5>2. t[j - 1] = s[(j - 1) + 1]
          BY <1>4, <5>1
        <5> QED BY <3>1, <4>2, <5>1, <5>2 DEF Before
      <4> QED BY <4>1, <4>2
    <3> QED BY <3>1, <3>2, <3>3, <3>4, <3>5
  <2>3. j \in 1..i - 1 \/ j \in i..Len(s) - 1
    BY <1>1
  <2> QED BY <2>1, <2>2, <2>3
<1>10. Chain(y, t)
  BY <1>3, <1>9 DEF Chain
<1> QED BY <1>5, <1>10 DEF t
-----------------------------------------------------------------------------
(* What changes the pairs of a shell and what does not.                    *)

LEMMA ListedSame ==
  ASSUME NEW n, NEW x, Ok(x, n), NEW s \in Seq(1..n - 1), NEW l, Listed(x, s, l),
         NEW y, Same(x, y, n)
  PROVE  Listed(y, s, l)
<1>1. \A k \in 1..n - 1 : Logical(y, k) = Logical(x, k)
  BY DEF Same
<1>2. Chain(y, s)
  BY <1>1, ChainSame DEF Listed
<1>3. \A i \in DOMAIN s : Logical(y, s[i]).list = Logical(x, s[i]).list
  BY <1>1, ShellFacts
<1>4. PairsIn(y, s) = PairsIn(x, s)
  BY <1>3, PairsSame
<1> QED BY <1>2, <1>4 DEF Listed

(* From x to y the list of block m becomes l.                              *)
Altered(x, y, m, l, n) ==
  /\ Ok(y, n) /\ Sound(y)
  /\ \A k \in 1..n - 1 :
       /\ Logical(y, k).list = IF k = m THEN l ELSE Logical(x, k).list
       /\ Logical(y, k).prevBlock = Logical(x, k).prevBlock
       /\ Logical(y, k).nextBlock = Logical(x, k).nextBlock

(* A pair is put into, or taken out of, the i-th block.                    *)
LEMMA ListedAltered ==
  ASSUME NEW n, NEW x, Ok(x, n), Sound(x), NEW s \in Seq(1..n - 1), NEW l,
         Listed(x, s, l), NEW i \in DOMAIN s, NEW y, NEW p
  PROVE  LET old == Logical(x, s[i]).list
             at  == Len(PairsIn(x, SubSeq(s, 1, i - 1))) + p
         IN /\ \A ki \in KeyItem :
                 p \in 1..Len(old) + 1 /\ Altered(x, y, s[i], InsertAt(old, p, ki), n)
                   => Listed(y, s, InsertAt(l, at, ki)) /\ at \in 1..Len(l) + 1
            /\ p \in 1..Len(old) /\ Altered(x, y, s[i], RemoveAt(old, p), n)
                 => Listed(y, s, RemoveAt(l, at)) /\ at \in 1..Len(l)
<1> DEFINE old == Logical(x, s[i]).list
           A == PairsIn(x, SubSeq(s, 1, i - 1))
<1>1. s[i] \in 1..n - 1 /\ s[i] \in 0..n - 1
  <2>1. n \in Nat /\ s[i] \in 1..n - 1
    BY ShellFacts
  <2> QED BY <2>1
<1>2. old \in Seq(Pairs)
  BY <1>1, BlockTypes DEF Items, Pairs
<1>3. Distinct(s) /\ Chain(x, s) /\ PairsIn(x, s) = l
  BY DEF Listed
<1> HIDE DEF A
<1>4. ASSUME NEW new, Altered(x, y, s[i], new, n)
      PROVE  /\ Distinct(s) /\ Chain(y, s)
             /\ \E Z \in Seq(Pairs) : /\ A \in Seq(Pairs) /\ l = (A \o old) \o Z
                                      /\ PairsIn(y, s) = (A \o new) \o Z
  <2>1. /\ Ok(y, n) /\ Sound(y)
        /\ \A j \in 1..n - 1 : j # s[i] => Logical(y, j).list = Logical(x, j).list
        /\ Logical(y, s[i]).list = new
    BY <1>1, <1>4 DEF Altered
  <2>2. PICK Z : Parts(x, y, s, i, n, A, Z)
    BY <1>3, <2>1, PairsParts DEF A
  <2>3. Chain(y, s)
    BY <1>3, <1>4, ChainSame DEF Altered
  <2> QED BY <1>3, <2>1, <2>2, <2>3 DEF Parts
<1> HIDE DEF old
<1>5. ASSUME NEW ki \in KeyItem, p \in 1..Len(old) + 1,
             Altered(x, y, s[i], InsertAt(old, p, ki), n)
      PROVE  Listed(y, s, InsertAt(l, Len(A) + p, ki)) /\ Len(A) + p \in 1..Len(l) + 1
  <2>1. PICK Z \in Seq(Pairs) : /\ A \in Seq(Pairs) /\ l = (A \o old) \o Z
                                /\ PairsIn(y, s) = (A \o InsertAt(old, p, ki)) \o Z
    BY <1>4, <1>5
  <2>2. InsertAt((A \o old) \o Z, Len(A) + p, ki) = (A \o InsertAt(old, p, ki)) \o Z
    <3>1. ki \in Pairs /\ A \in Seq(Pairs) /\ old \in Seq(Pairs) /\ Z \in Seq(Pairs)
      BY <1>2, <2>1 DEF Pairs
    <3>2. \A q \in 1..Len(old) + 1, e \in Pairs :
            InsertAt((A \o old) \o Z, Len(A) + q, e) = (A \o InsertAt(old, q, e)) \o Z
      <4>1. MiddleMade(Pairs, A, old, Z)
        BY <3>1, MiddleChanges
      <4> QED BY <4>1 DEF MiddleMade
    <3> QED BY <1>5, <3>1, <3>2
  <2>3. Len((A \o old) \o Z) = Len(A) + Len(old) + Len(Z) /\ Len(A) \in Nat
        /\ Len(Z) \in Nat
    BY <1>2, <2>1
  <2>4. Distinct(s) /\ Chain(y, s)
    BY <1>4, <1>5
  <2>5. Len(A) + p \in 1..Len(l) + 1
    <3>1. Len(l) = Len(A) + Len(old) + Len(Z) /\ Len(old) \in Nat
      BY <1>2, <2>1, <2>3
    <3> QED BY <1>5, <2>3, <3>1
  <2> QED BY <2>1, <2>2, <2>4, <2>5 DEF Listed
<1>6. ASSUME p \in 1..Len(old), Altered(x, y, s[i], RemoveAt(old, p), n)
      PROVE  Listed(y, s, RemoveAt(l, Len(A) + p)) /\ Len(A) + p \in 1..Len(l)
  <2>1. PICK Z \in Seq(Pairs) : /\ A \in Seq(Pairs) /\ l = (A \o old) \o Z
                                /\ PairsIn(y, s) = (A \o RemoveAt(old, p)) \o Z
    BY <1>4, <1>6
  <2>2. RemoveAt((A \o old) \o Z, Len(A) + p) = (A \o RemoveAt(old, p)) \o Z
    <3>1. A \in Seq(Pairs) /\ old \in Seq(Pairs) /\ Z \in Seq(Pairs)
      BY <1>2, <2>1
    <3>2. \A q \in 1..Len(old) :
            RemoveAt((A \o old) \o Z, Len(A) + q) = (A \o RemoveAt(old, q)) \o Z
      <4>1. MiddleMade(Pairs, A, old, Z)
        BY <3>1, MiddleChanges
      <4> QED BY <4>1 DEF MiddleMade
    <3> QED BY <1>6, <3>2
  <2>3. Len((A \o old) \o Z) = Len(A) + Len(old) + Len(Z) /\ Len(A) \in Nat
        /\ Len(Z) \in Nat
    BY <1>2, <2>1
  <2>4. Distinct(s) /\ Chain(y, s)
    BY <1>4, <1>6
  <2>5. Len(A) + p \in 1..Len(l)
    <3>1. Len(l) = Len(A) + Len(old) + Len(Z) /\ Len(old) \in Nat
      BY <1>2, <2>1, <2>3
    <3> QED BY <1>6, <2>3, <3>1
  <2> QED BY <2>1, <2>2, <2>4, <2>5 DEF Listed
<1> QED BY <1>5, <1>6 DEF old, A

(* A split keeps the pairs: the two halves of the list are still one       *)
(* behind the other.                                                       *)
LEMMA ListedSplit ==
  ASSUME NEW n, NEW x, Ok(x, n), Sound(x), NEW s \in Seq(1..n - 1), NEW l,
         Listed(x, s, l), NEW i \in DOMAIN s, NEW y, Divided(x, y, s[i], n)
  PROVE  Listed(y, InsertAt(s, i + 1, n), l)
<1> DEFINE old == Logical(x, s[i]).list
           A == PairsIn(x, SubSeq(s, 1, i - 1))
<1>1. /\ s[i] \in 1..n - 1 /\ s[i] \in 0..n - 1 /\ s[i] \in 1..n /\ s[i] # n
      /\ n \in 1..(n + 1) - 1 /\ n \in Nat \ {0}
      /\ \A j \in 1..n - 1 : j \in 1..n /\ j # n
  <2>1. n \in Nat \ {0} /\ s[i] \in 1..n - 1
    BY ShellFacts
  <2> QED BY <2>1
<1>2. old \in Items
  BY <1>1, BlockTypes
<1>3. Distinct(s) /\ Chain(x, s) /\ PairsIn(x, s) = l
  BY DEF Listed
<1>4. /\ Ok(y, n + 1) /\ Sound(y)
      /\ \A k \in 1..n :
           Logical(y, k).list =
             (CASE k = s[i] -> SubSeq(old, 1, Kept(old))
                [] k = n -> Moved(old)
                [] OTHER -> Logical(x, k).list)
  BY DEF Divided
<1>5. /\ \A k \in 1..n - 1 : k # s[i] => Logical(y, k).list = Logical(x, k).list
      /\ Logical(y, s[i]).list = SubSeq(old, 1, Kept(old))
      /\ Logical(y, n).list = Moved(old)
  <2> HIDE DEF old
  <2>1. n \in 1..n
    BY <1>1
  <2>2. ASSUME NEW k \in 1..n - 1, k # s[i]
        PROVE  Logical(y, k).list = Logical(x, k).list
    <3>1. k \in 1..n /\ k # n
      BY <1>1
    <3> QED BY <1>4, <2>2, <3>1
  <2>3. Logical(y, s[i]).list = SubSeq(old, 1, Kept(old))
    BY <1>1, <1>4
  <2>4. Logical(y, n).list = Moved(old)
    BY <1>1, <1>4, <2>1
  <2> QED BY <2>2, <2>3, <2>4
<1>6. s \in Seq(1..(n + 1) - 1)
  BY <1>1, ShellOfLonger
<1>7. PICK Z : Parts(x, y, s, i, n + 1, A, Z)
  BY <1>3, <1>4, <1>5, <1>6, PairsParts
<1>8. Distinct(InsertAt(s, i + 1, n)) /\ Chain(y, InsertAt(s, i + 1, n))
  BY <1>3, ChainSplit
<1>9. /\ A \in Seq(Pairs) /\ Z \in Seq(Pairs) /\ l = (A \o old) \o Z
      /\ PairsIn(y, InsertAt(s, i + 1, n)) =
           ((A \o SubSeq(old, 1, Kept(old))) \o Moved(old)) \o Z
  BY <1>1, <1>3, <1>5, <1>7 DEF Parts
<1> HIDE DEF old, A
<1>10. /\ SubSeq(old, 1, Kept(old)) \in Seq(Pairs) /\ Moved(old) \in Seq(Pairs)
       /\ old = SubSeq(old, 1, Kept(old)) \o Moved(old)
  <2>1. /\ Kept(old) \in Nat /\ Kept(old) <= Len(old) /\ Len(old) \in Nat
    BY <1>2, HalvesLengths
  <2>2. Kept(old) + 1 \in 1..Len(old) + 1 /\ (Kept(old) + 1) - 1 = Kept(old)
    BY <2>1
  <2>3. old \in Seq(Pairs)
    BY <1>2 DEF Items, Pairs
  <2>4. LET a == SubSeq(old, 1, (Kept(old) + 1) - 1)
            z == SubSeq(old, Kept(old) + 1, Len(old))
        IN a \in Seq(Pairs) /\ z \in Seq(Pairs) /\ old = a \o z
    BY <2>2, <2>3, CutFacts
  <2> QED BY <2>2, <2>4 DEF Moved
<1>11. (A \o SubSeq(old, 1, Kept(old))) \o Moved(old) = A \o old
  <2>1. \A u, v, w \in Seq(Pairs) : (u \o v) \o w = u \o (v \o w)
    OBVIOUS
  <2>2. (A \o SubSeq(old, 1, Kept(old))) \o Moved(old)
          = A \o (SubSeq(old, 1, Kept(old)) \o Moved(old))
    BY <1>9, <1>10, <2>1, Zenon
  <2> QED BY <1>10, <2>2
<1> QED BY <1>8, <1>9, <1>11 DEF Listed

(* A block without pairs leaves the shell.                                 *)
LEMMA ListedUnlinked ==
  ASSUME NEW n, NEW x, Ok(x, n), Sound(x), NEW s \in Seq(1..n - 1), NEW l,
         Listed(x, s, l), NEW i \in DOMAIN s, Logical(x, s[i]).list = <<>>,
         NEW y, Relinked(x, y, Logical(x, s[i]).prevBlock, Logical(x, s[i]).nextBlock,
               n)
  PROVE  Listed(y, RemoveAt(s, i), l)
<1> DEFINE A == PairsIn(x, SubSeq(s, 1, i - 1))
<1>1. Distinct(s) /\ Chain(x, s) /\ PairsIn(x, s) = l
  BY DEF Listed
<1>2. /\ Logical(x, s[i]).prevBlock = Before(s, i)
      /\ Logical(x, s[i]).nextBlock = Behind(s, i)
  BY <1>1 DEF Chain
<1>3. Distinct(RemoveAt(s, i)) /\ Chain(y, RemoveAt(s, i))
  BY <1>1, <1>2, ChainUnlinked
<1>4. /\ Ok(y, n) /\ Sound(y)
      /\ \A k \in 1..n - 1 : Logical(y, k).list = Logical(x, k).list
  BY DEF Relinked
<1>5. PICK Z : Parts(x, y, s, i, n, A, Z)
  BY <1>1, <1>4, PairsParts
<1>6. /\ A \in Seq(Pairs) /\ l = (A \o <<>>) \o Z /\ PairsIn(y, RemoveAt(s, i)) = A \o Z
  BY <1>1, <1>5 DEF Parts
<1> HIDE DEF A
<1>7. A \o <<>> = A
  BY <1>6
<1> QED BY <1>3, <1>6, <1>7 DEF Listed

(* An index without blocks.                                                *)
LEMMA NoneListed == ASSUME NEW x PROVE Listed(x, <<>>, <<>>)
BY PairsNone DEF Listed, Chain, Distinct

-----------------------------------------------------------------------------
(* The position in the list of its block that each buffer remembers.       *)

(* It is that of a pair, or one of the values that are not.                *)
Within(c) == c.current \in HEAD..Len(c.list)
Steady(x) == \A b \in Buffers : Within(x.buf[b])

(* A buffer c that becomes d forgets the position, or keeps it and the     *)
(* block it is in.                                                         *)
Stays(c, d) == d.current <= 0 \/ (d.current = c.current
      /\ d.blockNumber = c.blockNumber)

Keeps(c, d) == Within(d) /\ Stays(c, d)
Calm(x, y)  == \A b \in Buffers : Keeps(x.buf[b], y.buf[b])

LEMMA CalmTrans ==
  ASSUME NEW x, NEW y, NEW z, Calm(x, y), Calm(y, z)
  PROVE  Calm(x, z)
BY DEF Calm, Keeps, Stays

LEMMA CalmSteady ==
  ASSUME NEW x, NEW y, Calm(x, y)
  PROVE  Steady(y)
BY DEF Calm, Keeps, Steady

LEMMA CalmSame ==
  ASSUME NEW x, NEW y, Steady(x), y.buf = x.buf
  PROVE  Calm(x, y)
BY DEF Calm, Keeps, Stays, Steady

(* One buffer gets other contents.                                         *)
LEMMA CalmBecomes ==
  ASSUME NEW x, NEW y, NEW b, NEW d, Steady(x), Becomes(x, y, b, d), Keeps(x.buf[b], d)
  PROVE  Calm(x, y)
BY DEF Calm, Keeps, Stays, Steady, Becomes

(* The lists and positions of buffers have their types.                    *)
LEMMA BufferFacts ==
  ASSUME NEW n, NEW c \in Buffer(n)
  PROVE  /\ c.list \in Items /\ Len(c.list) \in Nat /\ c.current \in Int
         /\ c.img.prevBlock \in 0..n - 1 /\ c.img.nextBlock \in 0..n - 1
         /\ c.blockNumber \in 0..n - 1
BY LenProperties DEF Buffer, Image, Items

(* What is done to the contents of a buffer.                               *)
LEMMA KeepsSimple ==
  ASSUME NEW n, NEW c \in Buffer(n), Within(c), NEW m
  PROVE  /\ Keeps(c, ListToBlock(c)) /\ Keeps(c, Counted(c))
         /\ Keeps(c, SetPrev(c, m)) /\ Keeps(c, SetNext(c, m))
         /\ Keeps(c, [ListToBlock(c) EXCEPT !.isDirty = FALSE])
<1>1. c.img \in Image(n)
  BY DEF Buffer
<1> QED
  BY <1>1 DEF ListToBlock, Counted, SetPrev, SetNext, Keeps, Within, Stays, Buffer,
        Image

LEMMA FilledKeeps ==
  ASSUME NEW n \in Nat \ {0}, NEW c \in Buffer(n), Within(c), NEW a, NEW m,
         NEW i \in Image(n)
  PROVE  Keeps(a, Filled(c, m, i))
<1> DEFINE d == Filled(c, m, i)
<1>1. BlockToList(i) \in Items /\ Len(BlockToList(i)) \in Nat
  BY BlockToListType, LenProperties DEF Items
<1>2. d.current = (IF c.current > 0 THEN GONE ELSE c.current) /\ d.list = BlockToList(i)
  BY DEF Filled, ClearList, Buffer
<1> HIDE DEF d
<1>3. d.current <= 0 /\ d.current \in HEAD..Len(d.list)
  BY <1>1, <1>2, BufferFacts DEF GONE, HEAD, Within
<1> QED BY <1>3 DEF d, Keeps, Within, Stays

(* getIndexBlock.                                                          *)
LEMMA GetCalm ==
  ASSUME NEW n, NEW x, Ok(x, n), Sound(x), Size(x) # 0, NEW m \in 0..n - 1, Steady(x)
  PROVE  Calm(x, GetIndexBlock(x, m))
<1>1. CASE Hits(x, m) # {}
  <2>1. Max(Hits(x, m)) \in DOMAIN x.used
    BY <1>1, HitsFacts
  <2>2. Touch(x, Max(Hits(x, m))).buf = x.buf
    BY <2>1, TouchShape
  <2> QED BY <1>1, <2>2, CalmSame DEF GetIndexBlock
<1>2. CASE Hits(x, m) = {}
  <2> DEFINE y == Load(x, m)
             b == Victim(x)
             c == ListToBlock(x.buf[b])
             d == Filled(c, m, y.disk[m + 1])
  <2>1. ~Exhausted(x) /\ GetIndexBlock(x, m) = y
    BY <1>2, SizeType DEF GetIndexBlock
  <2>2. NotHeld(x, m)
    BY <1>2, HitsFacts
  <2>3. b \in Buffers /\ Becomes(x, y, b, d) /\ Ok(y, n)
    BY <2>1, <2>2, LoadShape, LoadOk DEF Got
  <2> HIDE DEF y
  <2>4. y.disk[m + 1] \in Image(n) /\ n \in Nat \ {0}
    BY <2>3 DEF Ok, BlockFile
  <2>5. x.buf[b] \in Buffer(n) /\ Within(x.buf[b])
    BY <2>3, BufferType DEF Steady
  <2> HIDE DEF b
  <2>6. c \in Buffer(n) /\ Within(c)
    BY <2>4, <2>5, ContentTypes, KeepsSimple DEF Remade, Keeps
  <2> HIDE DEF c
  <2>7. Keeps(x.buf[b], d)
    BY <2>4, <2>6, FilledKeeps
  <2> HIDE DEF d
  <2> QED BY <2>1, <2>3, <2>7, CalmBecomes
<1> QED BY <1>1, <1>2

(* splitBlock: the buffer of the new block forgets its position, and that  *)
(* of the old one a position behind what is left of the list.              *)
LEMMA SplitCalm ==
  ASSUME NEW n, NEW x, Ok(x, n), Sound(x), NEW b \in Buffers, Youngest(x, b),
         Size(x) >= 2, GetNewBlock(x).blk # NULL, Steady(x)
  PROVE  Calm(x, SplitBlock(x, b))
<1> DEFINE r == Victim(x)
<1>1. r \in Buffers /\ r # b /\ \E s : Linked(x, s, b, r, n)
  BY SplitShape, Zenon
<1> HIDE DEF r
<1>2. PICK s : Linked(x, s, b, r, n)
  BY <1>1
<1> DEFINE k == x.buf[b].img.nextBlock
           f == GetIndexBlock(s, k)
           d == SetPrev(f.buf[f.blk], n)
           g == SetBuffer(f, f.blk, d)
<1>3. Ok(s, n + 1) /\ Sound(s) /\ Size(s) # 0 /\ SplitBuffers(x, s, b, r, n)
  <2>1. Size(s) = Size(x) /\ Size(x) \in Nat
    BY <1>2, SizeType DEF Linked
  <2>2. Size(s) # 0
    BY <2>1
  <2> QED BY <1>2, <2>2 DEF Linked
<1>4. SplitBlock(x, b) = [g EXCEPT !.blk = r]
  BY <1>2 DEF Linked
<1>5. x.buf[b] \in Buffer(n) /\ x.buf[r] \in Buffer(n) /\ n \in Nat \ {0}
  BY <1>1, BufferType DEF Ok
<1>6. Within(x.buf[b]) /\ Within(x.buf[r])
  BY <1>1 DEF Steady
<1>7. Calm(x, s)
  <2>1. Keeps(x.buf[b], s.buf[b])
    <3>1. /\ s.buf[b].list = SubSeq(x.buf[b].list, 1, Kept(x.buf[b].list))
          /\ s.buf[b].current = Cut(x.buf[b].current, Kept(x.buf[b].list))
          /\ s.buf[b].blockNumber = x.buf[b].blockNumber
      BY <1>3 DEF SplitBuffers
    <3>2. x.buf[b].list \in Items /\ x.buf[b].current \in Int
      BY <1>5, BufferFacts
    <3>3. Kept(x.buf[b].list) \in Nat /\ Len(s.buf[b].list) = Kept(x.buf[b].list)
      BY <3>1, <3>2, HalvesLengths
    <3> QED BY <1>6, <3>1, <3>2, <3>3 DEF Keeps, Within, Stays, Cut, GONE, HEAD
  <2>2. Keeps(x.buf[r], s.buf[r])
    <3>1. s.buf[r].current = Cut(x.buf[r].current, 0) /\ s.buf[r] \in Buffer(n + 1)
      BY <1>1, <1>3, BufferType DEF SplitBuffers
    <3>2. x.buf[r].current \in Int /\ Len(s.buf[r].list) \in Nat
      BY <1>5, <3>1, BufferFacts
    <3> QED BY <1>6, <3>1, <3>2 DEF Keeps, Within, Stays, Cut, GONE, HEAD
  <2>3. \A a \in Buffers \ {b, r} : s.buf[a] = x.buf[a]
    BY <1>3 DEF SplitBuffers
  <2> QED BY <2>1, <2>2, <2>3 DEF Calm, Keeps, Steady, Stays
<1>8. k \in 0..(n + 1) - 1 /\ n + 1 \in Nat \ {0}
  BY <1>5, BufferFacts
<1> HIDE DEF k
<1>9. Calm(s, f) /\ Ok(f, n + 1) /\ f.blk \in Buffers
  BY <1>3, <1>7, <1>8, CalmSteady, GetCalm, GetIndexBlockOk DEF Got
<1> HIDE DEF f
<1>10. Calm(f, g)
  <2>1. Steady(f) /\ Within(f.buf[f.blk]) /\ f.buf[f.blk] \in Buffer(n + 1)
    BY <1>9, CalmSteady, BufferType DEF Steady
  <2>2. Keeps(f.buf[f.blk], d)
    BY <2>1, KeepsSimple
  <2>3. Becomes(f, g, f.blk, d)
    BY <1>9, SetShape
  <2> QED BY <2>1, <2>2, <2>3, CalmBecomes
<1>11. Ok(g, n + 1)
  BY <1>5, <1>9, SetLinkOk
<1> HIDE DEF g
<1>12. [g EXCEPT !.blk = r].buf = g.buf
  BY <1>11 DEF Ok, BlockFile
<1>13. Calm(g, SplitBlock(x, b))
  BY <1>4, <1>10, <1>12, CalmSteady, CalmSame
<1> QED BY <1>7, <1>9, <1>10, <1>13, CalmTrans

(* The first block of an index.                                            *)
LEMMA FirstCalm ==
  ASSUME NEW n, NEW x, Ok(x, n), Sound(x), NEW ki \in KeyItem,
         GetNewBlock(x).blk # NULL, Steady(x)
  PROVE  Calm(x, FirstBlock(x, ki))
<1> DEFINE b == Victim(x)
           y == FirstBlock(x, ki)
<1>1. FirstMade(x, y, b, ki, n)
  BY FirstShape
<1> HIDE DEF b, y
<1>2. /\ b \in Buffers /\ \A a \in Buffers \ {b} : y.buf[a] = x.buf[a]
      /\ Len(y.buf[b].list) = 1 /\ y.buf[b].current = Cut(x.buf[b].current, 0)
  BY <1>1 DEF FirstMade
<1>3. x.buf[b].current \in Int /\ Within(x.buf[b])
  BY <1>2, BufferType, BufferFacts DEF Steady
<1>4. Keeps(x.buf[b], y.buf[b])
  BY <1>2, <1>3 DEF Keeps, Within, Stays, Cut, GONE, HEAD
<1>5. Becomes(x, y, b, y.buf[b])
  BY <1>2 DEF Becomes
<1> QED BY <1>4, <1>5, CalmBecomes DEF y

(* An empty block is written, and its neighbours are linked.               *)
LEMMA UnlinkCalm ==
  ASSUME NEW n, NEW x, Ok(x, n), Sound(x), Size(x) # 0, NEW b \in Buffers, Steady(x),
         NEW ki, ki.item # x.buf[b].blockNumber
  PROVE  Calm(x, UnlinkBlock(x, b, ki))
<1> DEFINE o == PutFileBlock(x, b)
           p == GetIndexBlock(o, o.buf[b].img.prevBlock)
           q == GetIndexBlock(p, o.buf[b].img.nextBlock)
           c == SetNext(q.buf[p.blk], q.buf[q.blk].blockNumber)
           l == SetBuffer(q, p.blk, c)
           d == SetPrev(l.buf[q.blk], q.buf[p.blk].blockNumber)
           m == SetBuffer(l, q.blk, d)
           v == PutFileBlock(m, p.blk)
           w == PutFileBlock(v, q.blk)
<1>1. UnlinkBlock(x, b, ki) = w
  BY DEF UnlinkBlock, LinkNeighbours
<1>2. Ok(o, n) /\ Sound(o) /\ Size(o) # 0 /\ o.buf = x.buf
  BY PutFileBlockOk, SamePoolSound
<1> HIDE DEF o
<1>3. Calm(x, o) /\ Steady(o)
  BY <1>2, CalmSame, CalmSteady
<1>4. o.buf[b].img.prevBlock \in 0..n - 1 /\ o.buf[b].img.nextBlock \in 0..n - 1
  BY <1>2, BufferType, BufferFacts
<1>5. Got(o, p, n) /\ Calm(o, p)
  BY <1>2, <1>3, <1>4, GetIndexBlockOk, GetCalm
<1> HIDE DEF p
<1>6. Ok(p, n) /\ Sound(p) /\ Size(p) # 0 /\ p.blk \in Buffers /\ Steady(p)
  BY <1>2, <1>5, CalmSteady DEF Got
<1>7. Got(p, q, n) /\ Calm(p, q)
  BY <1>4, <1>6, GetIndexBlockOk, GetCalm
<1> HIDE DEF q
<1>8. Ok(q, n) /\ q.blk \in Buffers /\ Steady(q)
  BY <1>7, CalmSteady DEF Got
<1>9. /\ q.buf[p.blk] \in Buffer(n) /\ Within(q.buf[p.blk])
      /\ q.buf[p.blk].blockNumber \in 0..n - 1 /\ q.buf[q.blk].blockNumber \in 0..n - 1
  BY <1>6, <1>8, BufferType, BufferFacts DEF Steady
<1>10. Keeps(q.buf[p.blk], c) /\ Becomes(q, l, p.blk, c) /\ Ok(l, n)
  BY <1>6, <1>8, <1>9, KeepsSimple, SetShape, SetLinkOk
<1> HIDE DEF l, c
<1>11. Calm(q, l) /\ Steady(l)
  BY <1>8, <1>10, CalmBecomes, CalmSteady
<1>12. l.buf[q.blk] \in Buffer(n) /\ Within(l.buf[q.blk])
  BY <1>8, <1>10, <1>11, BufferType DEF Steady
<1>13. Keeps(l.buf[q.blk], d) /\ Becomes(l, m, q.blk, d) /\ Ok(m, n)
  BY <1>8, <1>9, <1>10, <1>12, KeepsSimple, SetShape, SetLinkOk
<1> HIDE DEF m, d
<1>14. Calm(l, m) /\ Steady(m)
  BY <1>11, <1>13, CalmBecomes, CalmSteady
<1>15. v.buf = m.buf /\ Ok(v, n)
  BY <1>6, <1>13, PutFileBlockOk
<1> HIDE DEF v
<1>16. w.buf = v.buf
  BY <1>8, <1>15, PutFileBlockOk
<1> HIDE DEF w
<1>17. Calm(m, w)
  BY <1>14, <1>15, <1>16, CalmSame
<1> QED BY <1>1, <1>3, <1>5, <1>7, <1>11, <1>14, <1>17, CalmTrans

-----------------------------------------------------------------------------
(* The cache of an open index, with the file of n blocks.                  *)
Live(x, n) ==
  /\ Ok(x, n) /\ Sound(x) /\ Size(x) = BLOCK_CACHE_SIZE /\ n = x.lastBlock + 1
  /\ Alive(x) /\ Steady(x)

LEMMA LiveFacts ==
  ASSUME NEW n, NEW x, Live(x, n)
  PROVE  /\ Size(x) # 0 /\ Size(x) >= 2 /\ Size(x) >= 3
         /\ n \in Nat \ {0} /\ FileEnd(x) = n /\ n - 1 = x.lastBlock
         /\ InUse(x) \subseteq Buffers
BY CacheSizeAssumption, ListsTypes, Numbers DEF Live

(* y is x after block m has been fetched.                                  *)
Seen(x, y, m, n) ==
  /\ Live(y, n) /\ Calm(x, y) /\ Same(x, y, n)
  /\ Youngest(y, y.blk) /\ y.blk \in InUse(y) /\ y.blk \in Buffers
  /\ y.buf[y.blk].blockNumber = m /\ Logical(y, m) = View(y.buf[y.blk])

LEMMA GetLive ==
  ASSUME NEW n, NEW x, Live(x, n), NEW m \in 0..n - 1
  PROVE  Seen(x, GetIndexBlock(x, m), m, n)
<1> DEFINE y == GetIndexBlock(x, m)
<1>1. Ok(x, n) /\ Sound(x) /\ Size(x) # 0 /\ Alive(x) /\ Steady(x)
  BY LiveFacts DEF Live
<1>2. Fetched(x, y, m, n) /\ Calm(x, y)
  BY <1>1, GetKeeps, GetCalm
<1> HIDE DEF y
<1>3. Ok(y, n) /\ Sound(y) /\ Size(y) = Size(x) /\ y.blk \in InUse(y)
  BY <1>2 DEF Fetched, Got
<1>4. Live(y, n)
  BY <1>2, <1>3, CalmSteady DEF Fetched, Live
<1>5. Logical(y, m) = View(y.buf[y.blk])
  BY <1>2, <1>3, HeldBlock DEF Fetched
<1> QED BY <1>2, <1>4, <1>5 DEF Fetched, Got, Seen, y

(* From x to y the block m of buffer b has been split: the new block n is  *)
(* in the buffer that is returned.                                         *)
Halved(x, y, m, l, n) ==
  /\ Live(y, n + 1) /\ Calm(x, y) /\ Divided(x, y, m, n)
  /\ y.blk \in Buffers /\ y.buf[y.blk].blockNumber = n /\ y.buf[y.blk].list = Moved(l)

LEMMA SplitLive ==
  ASSUME NEW n, NEW x, Live(x, n), NEW b, Youngest(x, b),
         x.buf[b].blockNumber \in 1..n - 1
  PROVE  Halved(x, SplitBlock(x, b), x.buf[b].blockNumber, x.buf[b].list, n)
<1> DEFINE y == SplitBlock(x, b)
           r == Victim(x)
<1>1. /\ Ok(x, n) /\ Sound(x) /\ Size(x) # 0 /\ Size(x) >= 2 /\ Alive(x) /\ Steady(x)
      /\ n = x.lastBlock + 1 /\ n \in Nat \ {0} /\ b \in Buffers
  BY LiveFacts, ListsTypes DEF Live
<1>2. GetNewBlock(x).blk # NULL
  BY <1>1, GetNewBlockOk, CacheNotEmpty DEF Got
<1>3. Calm(x, y) /\ Divided(x, y, x.buf[b].blockNumber, n)
  BY <1>1, <1>2, SplitCalm, SplitViews
<1>4. r \in Buffers /\ \E s : Linked(x, s, b, r, n)
  BY <1>1, <1>2, SplitShape, Zenon
<1> HIDE DEF r
<1>5. PICK s : Linked(x, s, b, r, n)
  BY <1>4
<1> DEFINE k == x.buf[b].img.nextBlock
           f == GetIndexBlock(s, k)
           d == SetPrev(f.buf[f.blk], n)
           g == SetBuffer(f, f.blk, d)
<1>6. /\ Ok(s, n + 1) /\ Sound(s) /\ Size(s) = Size(x) /\ s.lastBlock = n
      /\ Youngest(s, r) /\ y = [g EXCEPT !.blk = r]
      /\ s.buf[r].blockNumber = n /\ s.buf[r].list = Moved(x.buf[b].list)
  BY <1>5 DEF Linked, SplitBuffers
<1>7. k \in 0..(n + 1) - 1 /\ n \in 0..(n + 1) - 1
  BY <1>1, BufferType, BufferFacts
<1> HIDE DEF k, y
<1>8. /\ Got(s, f, n + 1) /\ f.lastBlock = n
      /\ f.buf[r] = s.buf[r]
  BY <1>1, <1>6, <1>7, GetIndexBlockOk, YoungestStays
<1> HIDE DEF f
<1>9. Ok(f, n + 1) /\ Sound(f) /\ Size(f) = Size(x) /\ f.blk \in Buffers
  BY <1>6, <1>8 DEF Got
<1>10. Ok(g, n + 1) /\ SamePool(f, g) /\ Becomes(f, g, f.blk, d)
  BY <1>7, <1>9, SetLinkOk, SetShape
<1>11. f.buf[f.blk] \in Buffer(n + 1)
  BY <1>9, BufferType
<1>12. d.list = f.buf[f.blk].list /\ d.blockNumber = f.buf[f.blk].blockNumber
  BY <1>1, <1>11, LinkContents
<1> HIDE DEF g, d
<1>13. g.buf[r].blockNumber = n /\ g.buf[r].list = Moved(x.buf[b].list)
  BY <1>4, <1>6, <1>8, <1>10, <1>12 DEF Becomes
<1>14. Sound(g) /\ Size(g) = Size(x) /\ g.lastBlock = n
  BY <1>8, <1>9, <1>10, SamePoolSound DEF SamePool
<1>15. /\ y.buf = g.buf /\ y.blk = r /\ y.free = g.free /\ y.used = g.used
       /\ y.lastBlock = g.lastBlock
  BY <1>6, <1>10 DEF Ok, BlockFile
<1>16. Size(y) = Size(x)
  BY <1>14, <1>15 DEF Size
<1>17. Live(y, n + 1)
  BY <1>1, <1>3, <1>14, <1>15, <1>16, CalmSteady DEF Live, Divided
<1> QED BY <1>3, <1>4, <1>13, <1>15, <1>17 DEF Halved, y

(* The first block of an index.                                            *)
LEMMA FirstLive ==
  ASSUME NEW n, NEW x, Live(x, n), NEW ki \in KeyItem
  PROVE  LET y == FirstBlock(x, ki)
         IN /\ Live(y, n + 1) /\ Calm(x, y) /\ Begun(x, y, ki, n) /\ y.blk # NULL
            /\ y.lastBlock = n
<1> DEFINE y == FirstBlock(x, ki)
<1>1. /\ Ok(x, n) /\ Sound(x) /\ Size(x) # 0 /\ Alive(x) /\ Steady(x)
      /\ n = x.lastBlock + 1 /\ n \in Nat \ {0}
  BY LiveFacts DEF Live
<1>2. GetNewBlock(x).blk # NULL
  BY <1>1, GetNewBlockOk, CacheNotEmpty DEF Got
<1>3. y.blk # NULL /\ Got(x, y, n + 1) /\ y.lastBlock = n
  <2>1. FirstMade(x, y, Victim(x), ki, n)
    BY <1>1, <1>2, FirstShape
  <2>2. y.blk # NULL
    BY <2>1, CacheNotEmpty DEF FirstMade
  <2> QED BY <1>1, <2>2, FirstBlockOk
<1>4. Calm(x, y) /\ Begun(x, y, ki, n)
  BY <1>1, <1>2, <1>3, FirstCalm, FirstViews
<1> HIDE DEF y
<1>5. Live(y, n + 1)
  BY <1>3, <1>4, CalmSteady DEF Live, Begun, Got
<1> QED BY <1>3, <1>4, <1>5 DEF y

(* The block of buffer b, which has no pairs, leaves the chain.            *)
LEMMA UnlinkLive ==
  ASSUME NEW n, NEW x, Live(x, n), NEW b \in InUse(x), NEW ki,
         ki.item # x.buf[b].blockNumber
  PROVE  LET y == UnlinkBlock(x, b, ki)
         IN /\ Live(y, n) /\ Calm(x, y) /\ y.blk \in Buffers
            /\ Relinked(x, y, x.buf[b].img.prevBlock, x.buf[b].img.nextBlock, n)
<1> DEFINE y == UnlinkBlock(x, b, ki)
           w == PutFileBlock(x, b)
<1>1. /\ Ok(x, n) /\ Sound(x) /\ Size(x) # 0 /\ Size(x) >= 2 /\ Alive(x) /\ Steady(x)
      /\ n = x.lastBlock + 1 /\ n \in Nat \ {0} /\ b \in Buffers
  BY LiveFacts DEF Live
<1>2. Ok(w, n) /\ Sound(w) /\ Size(w) # 0 /\ w.blk = x.blk
  BY <1>1, PutFileBlockOk, SamePoolSound
<1>3. y = LinkNeighbours(w, b)
  BY DEF UnlinkBlock
<1>4. y.blk \in Buffers
  BY <1>1, <1>2, <1>3, LinkNeighboursOk DEF Got
<1>5. /\ Ok(y, n) /\ Sound(y) /\ Size(y) = Size(x) /\ y.lastBlock = x.lastBlock
  BY <1>1, UnlinkBlockOk
<1>6. Calm(x, y) /\ Relinked(x, y, x.buf[b].img.prevBlock, x.buf[b].img.nextBlock, n)
  BY <1>1, UnlinkCalm, UnlinkViews
<1> HIDE DEF y
<1>7. Live(y, n)
  BY <1>1, <1>5, <1>6, CalmSteady DEF Live, Relinked
<1> QED BY <1>4, <1>6, <1>7 DEF y

-----------------------------------------------------------------------------
(* Changes of one buffer.                                                  *)

(* From x to y buffer b becomes c, which has the list of its block.        *)
Revised(x, y, b, c, n) ==
  /\ Live(y, n) /\ Altered(x, y, x.buf[b].blockNumber, c.list, n)
  /\ y.blk = x.blk /\ Becomes(x, y, b, c)
  /\ Youngest(x, b) => Youngest(y, b)
  /\ InUse(y) = InUse(x)

LEMMA ReviseLive ==
  ASSUME NEW n, NEW x, Live(x, n), NEW b \in InUse(x), NEW c \in Buffer(n), Within(c),
         c.blockNumber = x.buf[b].blockNumber,
         c.img.prevBlock = x.buf[b].img.prevBlock,
         c.img.nextBlock = x.buf[b].img.nextBlock,
         c.sized, c.isDirty
  PROVE  Revised(x, SetBuffer(x, b, c), b, c, n)
<1> DEFINE y == SetBuffer(x, b, c)
           m == x.buf[b].blockNumber
<1>1. /\ Ok(x, n) /\ Sound(x) /\ Alive(x) /\ Steady(x) /\ n \in Nat \ {0}
      /\ b \in Buffers
  BY LiveFacts DEF Live
<1>2. Reviewed(x, y, b, c, n)
  BY <1>1, SetView DEF Remade
<1>3. y.blk = x.blk /\ Becomes(x, y, b, c) /\ y.used = x.used
  BY <1>1, SetShape DEF SameLists
<1> HIDE DEF y
<1>4. Steady(y)
  BY <1>1, <1>3 DEF Steady, Becomes
<1>5. Live(y, n)
  <2>1. /\ Ok(y, n) /\ Sound(y) /\ Size(y) = Size(x) /\ Alive(y)
        /\ y.lastBlock = x.lastBlock
    BY <1>1, <1>2 DEF Reviewed, SameUse
  <2> QED BY <1>4, <2>1 DEF Live
<1>6. Logical(x, m) = View(x.buf[b])
  BY <1>1, HeldBlock
<1>7. /\ View(c).list = c.list /\ View(c).prevBlock = Logical(x, m).prevBlock
      /\ View(c).nextBlock = Logical(x, m).nextBlock
  BY <1>6 DEF View
<1>8. \A k \in 0..n - 1 : Logical(y, k) = IF k = m THEN View(c) ELSE Logical(x, k)
  BY <1>2 DEF Reviewed
<1>9. Altered(x, y, m, c.list, n)
  <2> HIDE DEF m
  <2>1. ASSUME NEW k \in 1..n - 1
        PROVE  /\ Logical(y, k).list = IF k = m THEN c.list ELSE Logical(x, k).list
               /\ Logical(y, k).prevBlock = Logical(x, k).prevBlock
               /\ Logical(y, k).nextBlock = Logical(x, k).nextBlock
    BY <1>1, <1>7, <1>8
  <2> QED BY <1>5, <2>1 DEF Altered, Live
<1> QED BY <1>3, <1>5, <1>9 DEF Revised, Youngest, InUse, y

(* insertLink; a position behind the place goes up.                        *)
LEMMA InsertLive ==
  ASSUME NEW n, NEW x, Live(x, n), NEW b \in InUse(x),
         NEW p \in 1..Len(x.buf[b].list) + 1, NEW ki \in KeyItem
  PROVE  LET y == InsertItem(x, b, p, ki)
             c == WithItem(x.buf[b], p, ki)
         IN /\ Revised(x, y, b, c, n) /\ c.list = InsertAt(x.buf[b].list, p, ki)
            /\ c.blockNumber = x.buf[b].blockNumber
            /\ c.current = IF x.buf[b].current >= p THEN x.buf[b].current + 1
                                                   ELSE x.buf[b].current
<1> DEFINE h == x.buf[b]
           c == WithItem(h, p, ki)
<1>1. /\ h \in Buffer(n) /\ n \in Nat \ {0} /\ Within(h) /\ h.sized /\ h.isDirty
  BY LiveFacts, BufferType DEF Live, Steady, Alive
<1>2. p \in 1..Len(h.list) + 1 /\ InsertItem(x, b, p, ki) = SetBuffer(x, b, c)
  BY DEF InsertItem
<1> HIDE DEF h
<1>3. /\ c.list = InsertAt(h.list, p, ki) /\ Len(c.list) = Len(h.list) + 1
      /\ c.blockNumber = h.blockNumber /\ c.img = h.img
      /\ c.sized = h.sized /\ c.isDirty = h.isDirty /\ c \in Buffer(n)
  BY <1>1, <1>2, ItemContents
<1>4. c.current = IF h.current >= p THEN h.current + 1 ELSE h.current
  BY <1>1 DEF WithItem, Buffer
<1>5. Len(h.list) \in Nat /\ h.current \in Int
  BY <1>1, BufferFacts
<1> HIDE DEF c
<1>6. Within(c)
  BY <1>1, <1>2, <1>3, <1>4, <1>5 DEF Within, HEAD
<1>7. Revised(x, SetBuffer(x, b, c), b, c, n)
  BY <1>1, <1>3, <1>6, ReviseLive DEF h
<1> QED BY <1>2, <1>3, <1>4, <1>7 DEF c, h

(* removeLink, and numKeyItems set right.                                  *)
LEMMA RemoveLive ==
  ASSUME NEW n, NEW x, Live(x, n), NEW b \in InUse(x), NEW p \in DOMAIN x.buf[b].list
  PROVE  LET y == RemoveItem(x, b, p)
             z == SetBuffer(y, b, Counted(y.buf[b]))
             c == Counted(WithoutItem(x.buf[b], p))
         IN /\ Revised(x, z, b, c, n) /\ c.list = RemoveAt(x.buf[b].list, p)
            /\ c.blockNumber = x.buf[b].blockNumber
<1> DEFINE h == x.buf[b]
           w == WithoutItem(h, p)
           c == Counted(w)
           y == RemoveItem(x, b, p)
           z == SetBuffer(y, b, Counted(y.buf[b]))
<1>1. /\ h \in Buffer(n) /\ n \in Nat \ {0} /\ Within(h) /\ h.sized /\ h.isDirty
      /\ Ok(x, n) /\ b \in Buffers
  BY LiveFacts, BufferType DEF Live, Steady, Alive
<1>2. p \in DOMAIN h.list
  OBVIOUS
<1>3. z = SetBuffer(x, b, c)
  <2>1. y = SetBuffer(x, b, w)
    BY DEF RemoveItem
  <2> HIDE DEF y, w
  <2>2. y.buf[b] = w
    BY <1>1, <2>1, SetShape DEF Becomes
  <2> HIDE DEF c
  <2>3. z = SetBuffer(SetBuffer(x, b, w), b, c)
    BY <2>1, <2>2 DEF c
  <2>4. /\ x.buf \in [Buffers -> Buffer(n)]
        /\ x = [f \in {"disk", "diskLast", "lastBlock", "buf", "free", "used",
              "blk"} |-> x[f]]
    BY <1>1 DEF Ok, BlockFile
  <2>5. [[x.buf EXCEPT ![b] = w] EXCEPT ![b] = c] = [x.buf EXCEPT ![b] = c]
    BY <1>1, <2>4
  <2> QED BY <1>1, <2>3, <2>4, <2>5 DEF SetBuffer
<1> HIDE DEF h, z
<1>4. /\ c.list = RemoveAt(h.list, p) /\ Len(c.list) = Len(h.list) - 1
      /\ c.blockNumber = h.blockNumber /\ c.sized = h.sized /\ c.isDirty
      /\ c.img.prevBlock = h.img.prevBlock /\ c.img.nextBlock = h.img.nextBlock
      /\ c \in Buffer(n)
  BY <1>1, <1>2, ItemContents
<1>5. c.current = IF p = Len(h.list) THEN TAIL ELSE p
  BY <1>1 DEF WithoutItem, Counted, Buffer
<1>6. Len(h.list) \in Nat /\ p \in 1..Len(h.list)
  BY <1>1, <1>2, BufferFacts DEF Items
<1> HIDE DEF c
<1>7. Within(c)
  BY <1>4, <1>5, <1>6 DEF Within, HEAD, TAIL
<1>8. Revised(x, SetBuffer(x, b, c), b, c, n)
  BY <1>1, <1>4, <1>7, ReviseLive DEF h
<1> QED BY <1>3, <1>4, <1>8 DEF c, h, z, y, w

(* A buffer, in use or not, gets another position.                         *)
Moves(x, y, b, p, n) ==
  /\ Live(y, n) /\ Same(x, y, n)
  /\ \A m : Logical(y, m) = Logical(x, m)
  /\ Becomes(x, y, b, [x.buf[b] EXCEPT !.current = p])
  /\ y.buf[b].current = p /\ y.buf[b].blockNumber = x.buf[b].blockNumber
  /\ y.buf[b].list = x.buf[b].list

LEMMA MoveLive ==
  ASSUME NEW n, NEW x, Live(x, n), NEW b \in Buffers, NEW p \in HEAD..Len(x.buf[b].list)
  PROVE  Moves(x, [x EXCEPT !.buf[b].current = p], b, p, n)
<1> DEFINE c == [x.buf[b] EXCEPT !.current = p]
           y == [x EXCEPT !.buf[b].current = p]
<1>1. /\ Ok(x, n) /\ Sound(x) /\ Alive(x) /\ Steady(x) /\ n \in Nat \ {0}
      /\ n = x.lastBlock + 1
  BY LiveFacts DEF Live
<1>2. x.buf[b] \in Buffer(n) /\ p \in Int
  BY <1>1, BufferType, BufferFacts DEF HEAD
<1>3. /\ c \in Buffer(n) /\ c.blockNumber = x.buf[b].blockNumber /\ c.current = p
      /\ c.list = x.buf[b].list /\ c.img = x.buf[b].img /\ c.sized = x.buf[b].sized
      /\ c.isDirty = x.buf[b].isDirty
  BY <1>2 DEF Buffer
<1>4. y = SetBuffer(x, b, c)
  BY DEF SetBuffer
<1> HIDE DEF c, y
<1>5. Ok(y, n) /\ SamePool(x, y) /\ Becomes(x, y, b, c) /\ y.disk = x.disk
  BY <1>1, <1>3, <1>4, SetRemade, SetShape DEF Remade
<1>6. Sound(y) /\ Size(y) = Size(x) /\ y.used = x.used /\ y.free = x.free
      /\ y.lastBlock = x.lastBlock
  BY <1>1, <1>5, SamePoolSound DEF SamePool
<1>7. \A a \in Buffers : /\ y.buf[a].list = x.buf[a].list /\ y.buf[a].img = x.buf[a].img
                         /\ y.buf[a].blockNumber = x.buf[a].blockNumber
                         /\ y.buf[a].sized = x.buf[a].sized
                         /\ y.buf[a].isDirty = x.buf[a].isDirty
  BY <1>3, <1>5 DEF Becomes
<1>8. InUse(x) \subseteq Buffers /\ InFree(x) \subseteq Buffers
  BY <1>1, ListsTypes
<1>9. Alive(y)
  BY <1>1, <1>6, <1>7, <1>8 DEF Alive, Blank, InUse, InFree
<1>10. Steady(y)
  BY <1>1, <1>3, <1>5 DEF Steady, Within, Becomes
<1>11. ASSUME NEW m
       PROVE  Logical(y, m) = Logical(x, m)
  <2>1. Hits(y, m) = Hits(x, m)
    BY <1>1, <1>6, <1>7, PoolTypes DEF Hits
  <2>2. CASE Hits(x, m) = {}
    BY <1>5, <2>1, <2>2 DEF Logical, GetFileBlock
  <2>3. CASE Hits(x, m) # {}
    <3>1. x.used[Max(Hits(x, m))] \in Buffers
      BY <1>1, <2>3, HitsFacts, PoolTypes
    <3> QED BY <1>6, <1>7, <2>1, <2>3, <3>1 DEF Logical
  <2> QED BY <2>2, <2>3
<1>12. Live(y, n)
  BY <1>1, <1>5, <1>6, <1>9, <1>10 DEF Live
<1> QED BY <1>3, <1>5, <1>11, <1>12 DEF Moves, Same, Becomes, y, c
=============================================================================
