-------------------------- MODULE BlockCacheProofs --------------------------
(***************************************************************************)
(* BlockCache keeps its types, the partition of its buffers and one buffer *)
(* at most for each block, for every cache size, block capacity, set of    *)
(* pairs and bound.                                                        *)
(*                                                                         *)
(* The invariant IInv adds to the three what makes them inductive.  A      *)
(* closed index has no buffers in its lists, so that openIndex can fill    *)
(* them.  The file never ends before the last block of the header, so a    *)
(* getNewBlock that once lost a buffer, because the file had grown past    *)
(* lastBlock, can never succeed later.  And the pool is whole not only     *)
(* while the file ends at lastBlock, but also whenever there is a block to *)
(* visit: every call of getIndexBlock then finds a buffer.                 *)
(*                                                                         *)
(* FInv adds the counts: no block has more pairs than fit, and the control *)
(* block is never read as pairs.  The second rests on the order of things: *)
(* the first miss after openIndex writes a buffer that was never used over *)
(* the control block before it reads it, and no call asks for block 0      *)
(* while the one block in the cache is that of a file still unwritten.     *)
(*                                                                         *)
(* LInv says where the pairs are, for module ItemList.  While the index is *)
(* open the blocks, in buffers or in the file, are linked in the order of  *)
(* the in-memory index and hold pairs; free buffers were never used and    *)
(* used ones will be written back (Alive), so that a visit changes         *)
(* nothing.  Once flushed, the file alone holds them.  And what a crash    *)
(* leaves is refused, or as it was closed: as long as block 0 still starts *)
(* with IDX_MAGIC either no block has been read since openIndex, or there  *)
(* was none in the file (Untouched).                                       *)
(***************************************************************************)
EXTENDS BlockCache, BlockContents

(* The invariant for an index x whose file has n blocks, in-memory indexes *)
(* s and t, and a mode m.                                                  *)
Holds(x, s, t, m, n) ==
  /\ Ok(x, n) /\ Sound(x)
  /\ s \in Seq(1..n - 1) /\ t \in Seq(1..n - 1)
  /\ m \in {"closed", "open", "flushed", "failed"}
  /\ m = "closed" => Unopened(x)
  /\ n >= x.diskLast + 1 /\ n >= x.lastBlock + 1
  /\ m \in {"open", "flushed"} /\ (s # <<>> \/ n = x.lastBlock + 1) =>
       Size(x) = BLOCK_CACHE_SIZE

IInv == Holds(idx, inx, inxFile, mode, FileEnd(idx))

-----------------------------------------------------------------------------
(* Any n with Holds is the length of the file.                             *)
LEMMA HoldsSuffices ==
  ASSUME NEW n, Holds(idx, inx, inxFile, mode, n)'
  PROVE  IInv'
BY DEF IInv, Holds, Ok, FileEnd

(* The buffers are whole when the in-memory index names block i.           *)
LEMMA Visitable ==
  ASSUME IInv, mode = "open", NEW i \in DOMAIN inx
  PROVE  /\ Ok(idx, FileEnd(idx)) /\ Sound(idx)
         /\ Size(idx) = BLOCK_CACHE_SIZE /\ Size(idx) # 0
         /\ inx[i] \in 0..FileEnd(idx) - 1
         /\ Got(idx, GetIndexBlock(idx, inx[i]), FileEnd(idx))
         /\ GetIndexBlock(idx, inx[i]).lastBlock = idx.lastBlock
<1> DEFINE n == FileEnd(idx)
<1>1. Ok(idx, n) /\ Sound(idx) /\ inx \in Seq(1..n - 1) /\ n \in Nat
  BY Numbers DEF IInv, Holds
<1>2. inx # <<>>
  OBVIOUS
<1>3. Size(idx) = BLOCK_CACHE_SIZE /\ Size(idx) # 0
  BY <1>2, CacheNotEmpty DEF IInv, Holds
<1>4. inx[i] \in 1..n - 1
  BY <1>1
<1> HIDE DEF n
<1>5. inx[i] \in 0..n - 1
  BY <1>1, <1>4
<1>6. /\ Got(idx, GetIndexBlock(idx, inx[i]), n)
      /\ GetIndexBlock(idx, inx[i]).lastBlock = idx.lastBlock
  BY <1>1, <1>3, <1>5, GetIndexBlockOk
<1> QED BY <1>1, <1>3, <1>5, <1>6 DEF n

-----------------------------------------------------------------------------
(* One lemma for each action.                                              *)

LEMMA InitStep == Init => IInv
<1> SUFFICES ASSUME Init PROVE IInv
  OBVIOUS
<1>1. Ok(idx, 1) /\ Unopened(idx) /\ idx.diskLast = 0
  BY NewIndexOk DEF Init
<1>2. Sound(idx) /\ FileEnd(idx) = 1 /\ idx.lastBlock = 0
  BY <1>1, UnopenedSound, Numbers DEF Unopened
<1>3. inx \in Seq(1..1 - 1) /\ inxFile \in Seq(1..1 - 1) /\ mode = "closed"
  BY DEF Init
<1> QED BY <1>1, <1>2, <1>3 DEF IInv, Holds

LEMMA OpenStep == ASSUME IInv, Open PROVE IInv'
<1> DEFINE n == FileEnd(idx)
<1>1. Ok(idx, n) /\ Unopened(idx) /\ inxFile \in Seq(1..n - 1) /\ n >= idx.diskLast + 1
  BY DEF IInv, Holds, Open
<1>2. idx' = OpenIndex(idx) /\ inx' = inxFile /\ inxFile' = inxFile /\ mode' = "open"
  BY DEF Open
<1> HIDE DEF n
<1>3. /\ Ok(idx', n) /\ Sound(idx') /\ Size(idx') = BLOCK_CACHE_SIZE
      /\ idx'.lastBlock = idx.diskLast /\ idx'.diskLast = idx.diskLast
  BY <1>1, <1>2, OpenIndexOk
<1>4. Holds(idx', inx', inxFile', mode', n)
  BY <1>1, <1>2, <1>3 DEF Holds
<1> QED BY <1>4, HoldsSuffices

LEMMA GetStep ==
  ASSUME IInv, NEW i \in DOMAIN inx, Get(i)
  PROVE  IInv'
<1> DEFINE n == FileEnd(idx)
<1>1. /\ idx' = GetIndexBlock(idx, inx[i]) /\ mode = "open"
      /\ inx' = inx /\ inxFile' = inxFile /\ mode' = mode
  BY DEF Get
<1>2. /\ Got(idx, idx', n) /\ idx'.lastBlock = idx.lastBlock
      /\ Size(idx) = BLOCK_CACHE_SIZE
  BY <1>1, Visitable
<1>3. Holds(idx', inx', inxFile', mode', n)
  BY <1>1, <1>2 DEF IInv, Holds, Got
<1> QED BY <1>3, HoldsSuffices

LEMMA FirstStep ==
  ASSUME IInv, NEW ki \in KeyItem, First(ki)
  PROVE  IInv'
<1> DEFINE n == FileEnd(idx)
<1>1. /\ Ok(idx, n) /\ Sound(idx) /\ inxFile \in Seq(1..n - 1) /\ n \in Nat \ {0}
      /\ n >= idx.diskLast + 1 /\ n >= idx.lastBlock + 1
      /\ idx.lastBlock \in Nat /\ idx.diskLast \in Nat
  BY Numbers DEF IInv, Holds
<1>2. /\ idx' = FirstBlock(idx, ki) /\ mode = "open" /\ mode' = "open"
      /\ inx' = IF idx'.blk = NULL THEN <<>> ELSE <<idx'.lastBlock>>
      /\ inxFile' = inxFile
  BY DEF First
<1>3. n = idx.lastBlock + 1 => Size(idx) = BLOCK_CACHE_SIZE
  BY <1>2 DEF IInv, Holds
<1> HIDE DEF n
<1>4. inxFile' \in Seq(1..(n + 1) - 1)
  BY <1>1, <1>2, ShellOfLonger
<1>5. CASE idx'.blk = NULL
  <2>1. /\ Sound(idx') /\ idx'.lastBlock = idx.lastBlock /\ idx'.diskLast = idx.diskLast
        /\ (Ok(idx', n) /\ Size(idx) = 0) \/ (Ok(idx', n + 1) /\ n # idx.lastBlock + 1)
    BY <1>1, <1>2, <1>5, FirstBlockOk, CacheNotEmpty DEF Got
  <2>2. inx' = <<>> /\ inx' \in Seq(1..n - 1) /\ inx' \in Seq(1..(n + 1) - 1)
    BY <1>2, <1>5, EmptySeq
  <2>3. CASE Ok(idx', n) /\ Size(idx) = 0
    <3>1. n # idx.lastBlock + 1
      BY <1>3, <2>3, CacheNotEmpty
    <3>2. Holds(idx', inx', inxFile', mode', n)
      BY <1>1, <1>2, <2>1, <2>2, <2>3, <3>1 DEF Holds
    <3> QED BY <3>2, HoldsSuffices
  <2>4. CASE Ok(idx', n + 1) /\ n # idx.lastBlock + 1
    <3>1. /\ n + 1 # idx'.lastBlock + 1
          /\ n + 1 >= idx'.lastBlock + 1 /\ n + 1 >= idx'.diskLast + 1
      BY <1>1, <2>1
    <3>2. Holds(idx', inx', inxFile', mode', n + 1)
      BY <1>2, <1>4, <2>1, <2>2, <2>4, <3>1 DEF Holds
    <3> QED BY <3>2, HoldsSuffices
  <2> QED BY <2>1, <2>3, <2>4
<1>6. CASE idx'.blk # NULL
  <2>1. Got(idx, idx', n + 1) /\ n = idx.lastBlock + 1 /\ idx'.lastBlock = n
    BY <1>1, <1>2, <1>6, FirstBlockOk
  <2>2. inx' \in Seq(1..(n + 1) - 1)
    <3>1. n \in 1..(n + 1) - 1
      BY <1>1
    <3> QED BY <3>1, <2>1, <1>2, <1>6
  <2>3. n + 1 >= idx'.lastBlock + 1 /\ n + 1 >= idx.diskLast + 1
    BY <1>1, <2>1
  <2>4. Holds(idx', inx', inxFile', mode', n + 1)
    BY <1>2, <1>3, <1>4, <2>1, <2>2, <2>3 DEF Holds, Got
  <2> QED BY <2>4, HoldsSuffices
<1> QED BY <1>5, <1>6

LEMMA InsertStep ==
  ASSUME IInv, NEW i \in DOMAIN inx, NEW p, NEW ki \in KeyItem, Insert(i, p, ki)
  PROVE  IInv'
<1> DEFINE n == FileEnd(idx)
           x == GetIndexBlock(idx, inx[i])
           y == InsertItem(x, x.blk, p, ki)
           full == Overflows(y.buf[y.blk].list)
<1>1. /\ inx \in Seq(1..n - 1) /\ inxFile \in Seq(1..n - 1) /\ n \in Nat \ {0}
      /\ n >= idx.diskLast + 1 /\ n >= idx.lastBlock + 1
      /\ idx.lastBlock \in Nat /\ idx.diskLast \in Nat
  BY Numbers DEF IInv, Holds
<1>2. /\ mode = "open" /\ p \in 1..Len(x.buf[x.blk].list) + 1
      /\ idx' = IF full THEN SplitBlock(y, y.blk) ELSE y
      /\ mode' = IF idx'.blk = NULL THEN "failed" ELSE mode
      /\ inx' = IF full /\ idx'.blk # NULL THEN InsertAt(inx, i + 1, idx'.lastBlock)
                                           ELSE inx
      /\ inxFile' = inxFile
  BY DEF Insert
<1>3. /\ Got(idx, x, n) /\ x.lastBlock = idx.lastBlock
      /\ Size(idx) = BLOCK_CACHE_SIZE /\ Size(idx) # 0
  BY <1>2, Visitable
<1> HIDE DEF n, x
<1>4. /\ Ok(y, n) /\ Sound(y) /\ Size(y) = Size(idx) /\ y.blk \in Buffers
      /\ y.lastBlock = idx.lastBlock /\ y.diskLast = idx.diskLast
  BY <1>2, <1>3, InsertItemOk DEF Got, SamePool
<1> HIDE DEF y, full
<1>5. /\ inx \in Seq(1..(n + 1) - 1) /\ inxFile \in Seq(1..(n + 1) - 1)
      /\ n + 1 >= idx.diskLast + 1 /\ n + 1 >= idx.lastBlock + 1
  BY <1>1, ShellOfLonger, SMTT(40)
<1>6. CASE ~full
  <2>1. idx' = y /\ mode' = "open" /\ inx' = inx
    BY <1>2, <1>4, <1>6, CacheNotEmpty
  <2>2. Holds(idx', inx', inxFile', mode', n)
    BY <1>1, <1>2, <1>3, <1>4, <2>1 DEF Holds
  <2> QED BY <2>2, HoldsSuffices
<1>7. CASE full /\ idx'.blk = NULL
  <2>1. /\ Sound(idx') /\ (Ok(idx', n) \/ Ok(idx', n + 1))
        /\ idx'.lastBlock = idx.lastBlock /\ idx'.diskLast = idx.diskLast
    BY <1>2, <1>3, <1>4, <1>7, SplitBlockOk, CacheNotEmpty DEF Got
  <2>2. mode' = "failed" /\ inx' = inx
    BY <1>2, <1>7
  <2>3. Holds(idx', inx', inxFile', mode', n) \/ Holds(idx', inx', inxFile', mode', n + 1)
    BY <1>1, <1>2, <1>5, <2>1, <2>2 DEF Holds
  <2> QED BY <2>3, HoldsSuffices
<1>8. CASE full /\ idx'.blk # NULL
  <2>1. Got(y, idx', n + 1) /\ idx'.lastBlock = n
    BY <1>2, <1>3, <1>4, <1>8, SplitBlockOk
  <2>2. inx' = InsertAt(inx, i + 1, n) /\ mode' = "open"
    BY <1>2, <1>8, <2>1
  <2>3. inx' \in Seq(1..(n + 1) - 1)
    <3>1. n \in 1..(n + 1) - 1 /\ i + 1 \in 1..Len(inx) + 1
      BY <1>1
    <3> QED BY <3>1, <1>5, <2>2, InsertAtFacts
  <2>4. n + 1 >= idx'.lastBlock + 1
    BY <1>1, <2>1
  <2>5. Holds(idx', inx', inxFile', mode', n + 1)
    BY <1>2, <1>3, <1>4, <1>5, <2>1, <2>2, <2>3, <2>4 DEF Holds, Got
  <2> QED BY <2>5, HoldsSuffices
<1> QED BY <1>6, <1>7, <1>8

LEMMA DeleteStep ==
  ASSUME IInv, NEW i \in DOMAIN inx, NEW p, Delete(i, p)
  PROVE  IInv'
<1> DEFINE n == FileEnd(idx)
           x == GetIndexBlock(idx, inx[i])
           b == x.blk
           y == RemoveItem(x, b, p)
           z == SetBuffer(y, b, Counted(y.buf[b]))
           ki == x.buf[b].list[p]
           empty == y.buf[b].list = <<>>
<1>1. /\ inx \in Seq(1..n - 1) /\ inxFile \in Seq(1..n - 1)
      /\ n >= idx.diskLast + 1 /\ n >= idx.lastBlock + 1
  BY DEF IInv, Holds
<1>2. /\ mode = "open" /\ p \in DOMAIN x.buf[b].list
      /\ idx' = IF empty THEN UnlinkBlock(z, b, ki) ELSE z
      /\ inx' = IF empty THEN RemoveAt(inx, i) ELSE inx
      /\ inxFile' = inxFile /\ mode' = mode
  BY DEF Delete
<1>3. /\ Got(idx, x, n) /\ x.lastBlock = idx.lastBlock
      /\ Size(idx) = BLOCK_CACHE_SIZE /\ Size(idx) # 0
  BY <1>2, Visitable
<1> HIDE DEF n, x
<1>4. b \in Buffers
  BY <1>3 DEF Got
<1> HIDE DEF b
<1>5. /\ Ok(z, n) /\ Sound(z) /\ Size(z) = Size(idx)
      /\ z.lastBlock = idx.lastBlock /\ z.diskLast = idx.diskLast
  BY <1>2, <1>3, <1>4, RemoveItemOk DEF Got, SamePool
<1> HIDE DEF y, z, ki, empty
<1>6. /\ Ok(idx', n) /\ Sound(idx') /\ Size(idx') = BLOCK_CACHE_SIZE
      /\ idx'.lastBlock = idx.lastBlock /\ idx'.diskLast = idx.diskLast
  <2>1. LET u == UnlinkBlock(z, b, ki)
        IN /\ Ok(u, n) /\ Sound(u) /\ Size(u) = Size(z)
           /\ u.lastBlock = z.lastBlock /\ u.diskLast = z.diskLast
    BY <1>3, <1>4, <1>5, UnlinkBlockOk
  <2> QED BY <2>1, <1>2, <1>3, <1>5
<1>7. inx' \in Seq(1..n - 1)
  <2>1. RemoveAt(inx, i) \in Seq(1..n - 1)
    <3>1. i \in 1..Len(inx)
      BY <1>1
    <3> QED BY <3>1, <1>1, RemoveAtFacts
  <2> QED BY <2>1, <1>1, <1>2
<1>8. Holds(idx', inx', inxFile', mode', n)
  BY <1>1, <1>2, <1>6, <1>7 DEF Holds
<1> QED BY <1>8, HoldsSuffices

LEMMA CloseFlushStep == ASSUME IInv, CloseFlush PROVE IInv'
<1> DEFINE n == FileEnd(idx)
<1>1. Ok(idx, n) /\ Sound(idx)
  BY DEF IInv, Holds
<1>2. /\ idx' = FlushIndexBlocks(idx) /\ inx' = inx /\ inxFile' = inx
      /\ mode = "open" /\ mode' = "flushed"
  BY DEF CloseFlush
<1>3. Ok(idx', n) /\ SamePool(idx, idx')
  BY <1>1, <1>2, FlushIndexBlocksOk
<1>4. Sound(idx') /\ Size(idx') = Size(idx)
  BY <1>1, <1>3, SamePoolSound
<1>5. Holds(idx', inx', inxFile', mode', n)
  BY <1>2, <1>3, <1>4 DEF IInv, Holds, SamePool
<1> QED BY <1>5, HoldsSuffices

LEMMA CloseStep == ASSUME IInv, Close PROVE IInv'
<1> DEFINE n == FileEnd(idx)
           x == CloseBlockFile(idx)
<1>1. /\ Ok(idx, n) /\ inx \in Seq(1..n - 1) /\ inxFile \in Seq(1..n - 1)
      /\ n >= idx.lastBlock + 1 /\ n \in Nat \ {0}
  BY Numbers DEF IInv, Holds
<1>2. /\ idx' = Closed(x) /\ inx' = inx /\ inxFile' = inxFile /\ mode' = "closed"
  BY DEF Close
<1>3. Ok(x, n) /\ x.diskLast = idx.lastBlock
  BY <1>1, CloseBlockFileOk
<1> HIDE DEF n, x
<1>4. Ok(idx', n) /\ Unopened(idx') /\ idx'.diskLast = idx.lastBlock
  BY <1>2, <1>3, ClosedOk
<1>5. Sound(idx') /\ idx'.lastBlock = 0 /\ n >= 0 + 1
  BY <1>1, <1>4, UnopenedSound DEF Unopened
<1>6. Holds(idx', inx', inxFile', mode', n)
  BY <1>1, <1>2, <1>4, <1>5 DEF Holds
<1> QED BY <1>6, HoldsSuffices

LEMMA CrashStep == ASSUME IInv, Crash PROVE IInv'
<1> DEFINE n == FileEnd(idx)
<1>1. /\ Ok(idx, n) /\ inxFile \in Seq(1..n - 1) /\ n >= idx.diskLast + 1
      /\ n \in Nat \ {0}
  BY Numbers DEF IInv, Holds
<1>2. /\ idx' = Closed(idx) /\ inx' = inxFile /\ inxFile' = inxFile /\ mode' = "closed"
  BY DEF Crash
<1> HIDE DEF n
<1>3. Ok(idx', n) /\ Unopened(idx') /\ idx'.diskLast = idx.diskLast
  BY <1>1, <1>2, ClosedOk
<1>4. Sound(idx') /\ idx'.lastBlock = 0 /\ n >= 0 + 1
  BY <1>1, <1>3, UnopenedSound DEF Unopened
<1>5. Holds(idx', inx', inxFile', mode', n)
  BY <1>1, <1>2, <1>3, <1>4 DEF Holds
<1> QED BY <1>5, HoldsSuffices

LEMMA NextStep == IInv /\ [Next]_vars => IInv'
<1> SUFFICES ASSUME IInv, [Next]_vars PROVE IInv'
  OBVIOUS
<1>1. CASE Open
  BY <1>1, OpenStep
<1>2. ASSUME NEW i \in DOMAIN inx, Get(i) PROVE IInv'
  BY <1>2, GetStep
<1>3. ASSUME NEW ki \in KeyItem, First(ki) PROVE IInv'
  BY <1>3, FirstStep
<1>4. ASSUME NEW i \in DOMAIN inx, NEW p, NEW ki \in KeyItem, Insert(i, p, ki) PROVE IInv'
  BY <1>4, InsertStep
<1>5. ASSUME NEW i \in DOMAIN inx, NEW p, Delete(i, p) PROVE IInv'
  BY <1>5, DeleteStep
<1>6. CASE CloseFlush
  BY <1>6, CloseFlushStep
<1>7. CASE Close
  BY <1>7, CloseStep
<1>8. CASE Crash
  BY <1>8, CrashStep
<1>9. CASE UNCHANGED vars
  BY <1>9 DEF IInv, Holds, Ok, Sound, Size, Unopened, OneBufferPerBlock, FileEnd, vars
<1> QED BY <1>1, <1>2, <1>3, <1>4, <1>5, <1>6, <1>7, <1>8, <1>9 DEF Next

(* What IInv says of the properties of BlockCache.                         *)
LEMMA IInvImplies == IInv => TypeOK /\ PoolPartition /\ NoTwin
<1> SUFFICES ASSUME IInv PROVE TypeOK /\ PoolPartition /\ NoTwin
  OBVIOUS
<1>1. TypeOK
  <2>1. Ok(idx, FileEnd(idx)) /\ FileEnd(idx) \in Nat \ {0}
    BY Numbers DEF IInv, Holds
  <2>2. idx.disk # <<>>
    BY <2>1, EmptySeq DEF Ok
  <2> QED BY <2>1, <2>2 DEF TypeOK, IInv, Holds, Ok
<1>2. PoolPartition
  BY DEF PoolPartition, IInv, Holds, Sound, Size
<1>3. NoTwin
  BY DEF NoTwin, IInv, Holds, Sound
<1> QED BY <1>1, <1>2, <1>3

-----------------------------------------------------------------------------
LEMMA Invariance == Spec => []IInv
BY InitStep, NextStep, PTL DEF Spec

(* Every block number in the cache, in the file and in the in-memory index *)
(* names a block of the file: no read is past its end.                     *)
THEOREM TypeCorrect == Spec => []TypeOK
BY Invariance, IInvImplies, PTL

(* No buffer is lost or in two places, whichever path getIndexBlock,       *)
(* getNewBlock, splitBlock or deleteIndexItem moved it on, and after any   *)
(* crash: each is free or used, exactly once.                              *)
THEOREM PoolIsPartitioned == Spec => []PoolPartition
BY Invariance, IInvImplies, PTL

(* No block is in two used buffers, so no update can be undone by writing  *)
(* back a stale copy.                                                      *)
THEOREM NoTwins == Spec => []NoTwin
BY Invariance, IInvImplies, PTL

-----------------------------------------------------------------------------
(* The counts fit, unless splitBlock has failed; and what makes block 0    *)
(* safe: the free buffers of an index that is open were never used as long *)
(* as the control block is there, and only the first block is.             *)
Fitting ==
  /\ Fit(idx, IF mode = "failed" THEN Buffers ELSE {})
  /\ mode = "closed" => \A b \in Buffers : idx.buf[b].blockNumber = 0
  /\ mode = "open" => Header(idx) /\ (Accepted(idx) /\ inx = <<>> => InUse(idx) = {})

FInv == IInv /\ Fitting

-----------------------------------------------------------------------------
LEMMA InitFits == Init => FInv
<1> SUFFICES ASSUME Init PROVE Fitting
  BY InitStep DEF FInv
<1> DEFINE f == [b \in Buffers |-> NewBuffer]
<1>1. \A b \in Buffers : f[b] = NewBuffer
  OBVIOUS
<1> HIDE DEF f
<1>2. idx.buf = f /\ idx.disk = <<ControlBlock>> /\ mode = "closed"
  BY DEF Init, CreateIndexFile, CreateBlockFile, f
<1>3. Len(idx.disk) = 1 /\ idx.disk[1] = ControlBlock
  BY <1>2
<1>4. /\ NewBuffer.img.numKeyItems \in Count /\ Len(NewBuffer.list) <= numMaxItems
      /\ NewBuffer.blockNumber = 0 /\ ControlBlock.numKeyItems = HEADER
  BY MaxItemsAssumption DEF NewBuffer, ZeroImage, ControlBlock, Count
<1>5. \A k \in 2..1 : FALSE
  OBVIOUS
<1> QED BY <1>1, <1>2, <1>3, <1>4, <1>5 DEF Fitting, Fit, Counts, Room

LEMMA OpenFits == ASSUME FInv, Open PROVE Fitting'
<1>1. /\ Ok(idx, FileEnd(idx)) /\ Unopened(idx) /\ idx' = OpenIndex(idx) /\ mode' = "open"
      /\ Fit(idx, {}) /\ \A b \in Buffers : idx.buf[b].blockNumber = 0
  BY DEF FInv, IInv, Holds, Fitting, Open
<1>2. Fit(idx', {}) /\ Header(idx') /\ InUse(idx') = {}
  BY <1>1, OpenFit
<1> QED BY <1>1, <1>2 DEF Fitting

(* As long as the control block is in the file a visit finds a free buffer. *)
LEMMA RoomToVisit ==
  ASSUME NEW n, NEW x, Ok(x, n), Sound(x), Size(x) >= 3, Header(x)
  PROVE  Accepted(x) => x.free # <<>> /\ Blank(x)
<1>1. SUFFICES ASSUME Accepted(x) PROVE x.free # <<>>
  BY DEF Header
<1>2. CASE InUse(x) = {}
  <2>1. InUse(x) \subseteq {1, 1}
    BY <1>2
  <2> QED BY <2>1, FewUsed
<1>3. CASE InUse(x) # {}
  <2>1. PICK b \in InUse(x) : TRUE
    BY <1>3
  <2>2. InUse(x) \subseteq {b, b}
    BY <1>1, <2>1 DEF Header, Sole
  <2> QED BY <2>2, FewUsed
<1> QED BY <1>2, <1>3

(* A block the in-memory index names, once it is in a buffer.              *)
LEMMA VisitFits ==
  ASSUME FInv, mode = "open", NEW i \in DOMAIN inx
  PROVE  LET x == GetIndexBlock(idx, inx[i])
         IN /\ Got(idx, x, FileEnd(idx)) /\ Size(x) >= 3 /\ Fit(x, {}) /\ Header(x)
            /\ Youngest(x, x.blk) /\ x.blk \in InUse(x)
<1> DEFINE n == FileEnd(idx)
           x == GetIndexBlock(idx, inx[i])
<1>1. /\ Ok(idx, n) /\ Sound(idx) /\ Size(idx) # 0 /\ inx[i] \in 0..n - 1
      /\ Size(idx) = BLOCK_CACHE_SIZE /\ Got(idx, x, n)
  BY Visitable DEF FInv
<1>2. Fit(idx, {}) /\ Header(idx) /\ Size(idx) >= 3
  BY <1>1, CacheSizeAssumption DEF FInv, Fitting
<1> HIDE DEF n
<1>3. Accepted(idx) => idx.free # <<>> /\ Blank(idx)
  BY <1>1, <1>2, RoomToVisit
<1>4. /\ Fit(x, {})
      /\ \/ ~Accepted(x)
         \/ /\ x.buf = idx.buf /\ x.disk = idx.disk /\ x.free = idx.free
            /\ InUse(x) = InUse(idx)
  BY <1>1, <1>2, <1>3, GetFit
<1>5. Youngest(x, x.blk)
  BY <1>1, GetShape
<1> HIDE DEF x
<1>6. Header(x)
  <2>1. CASE ~Accepted(x)
    BY <2>1 DEF Header
  <2>2. CASE /\ x.buf = idx.buf /\ x.disk = idx.disk /\ x.free = idx.free
             /\ InUse(x) = InUse(idx)
    BY <1>2, <2>2 DEF Header, Blank, Sole, InFree, Accepted, GetFileBlock
  <2> QED BY <1>4, <2>1, <2>2
<1>7. x.blk \in InUse(x) /\ Size(x) = Size(idx)
  BY <1>1, <1>5, ListsTypes DEF Got
<1> QED BY <1>1, <1>2, <1>4, <1>5, <1>6, <1>7 DEF x, n

LEMMA GetFits ==
  ASSUME FInv, NEW i \in DOMAIN inx, Get(i)
  PROVE  Fitting'
<1>1. idx' = GetIndexBlock(idx, inx[i]) /\ mode = "open" /\ mode' = "open" /\ inx' = inx
  BY DEF Get
<1>2. Fit(idx', {}) /\ Header(idx') /\ inx # <<>>
  BY <1>1, VisitFits
<1> QED BY <1>1, <1>2 DEF Fitting

LEMMA FirstFits ==
  ASSUME FInv, NEW ki \in KeyItem, First(ki)
  PROVE  Fitting'
<1>1. /\ idx' = FirstBlock(idx, ki) /\ mode = "open" /\ mode' = "open" /\ inx = <<>>
      /\ inx' = IF idx'.blk = NULL THEN <<>> ELSE <<idx'.lastBlock>>
  BY DEF First
<1>2. /\ Ok(idx, FileEnd(idx)) /\ Sound(idx) /\ Fit(idx, {}) /\ Header(idx)
      /\ Accepted(idx) => InUse(idx) = {}
  BY <1>1 DEF FInv, IInv, Holds, Fitting
<1>3. /\ Fit(idx', {}) /\ Header(idx')
      /\ idx'.blk = NULL => (Accepted(idx') => InUse(idx') = {})
  BY <1>1, <1>2, FirstFit
<1>4. idx'.blk # NULL => inx' # <<>>
  BY <1>1
<1> QED BY <1>1, <1>3, <1>4 DEF Fitting

LEMMA InsertFits ==
  ASSUME FInv, NEW i \in DOMAIN inx, NEW p, NEW ki \in KeyItem, Insert(i, p, ki)
  PROVE  Fitting'
<1> DEFINE x == GetIndexBlock(idx, inx[i])
           b == x.blk
           y == InsertItem(x, b, p, ki)
           full == Overflows(y.buf[y.blk].list)
           n == FileEnd(idx)
<1>1. /\ mode = "open" /\ p \in 1..Len(x.buf[b].list) + 1
      /\ idx' = IF full THEN SplitBlock(y, y.blk) ELSE y
      /\ mode' = IF idx'.blk = NULL THEN "failed" ELSE mode
      /\ inx' = IF full /\ idx'.blk # NULL THEN InsertAt(inx, i + 1, idx'.lastBlock)
                                           ELSE inx
  BY DEF Insert
<1>2. /\ Got(idx, x, n) /\ Size(x) >= 3 /\ Fit(x, {}) /\ Header(x)
      /\ Youngest(x, b) /\ b \in Buffers
  BY <1>1, VisitFits DEF Got
<1> HIDE DEF x, b, n
<1>3. /\ Ok(y, n) /\ Sound(y) /\ Size(y) >= 3 /\ y.blk = b
  BY <1>1, <1>2, InsertItemOk DEF Got, b
<1>4. /\ Fit(y, {b}) /\ Header(y) /\ Len(y.buf[b].list) <= numMaxItems + 1
      /\ ~Overflows(y.buf[b].list) => Fit(y, {})
      /\ Youngest(y, b)
  BY <1>1, <1>2, InsertFit DEF Got
<1> HIDE DEF y
<1>5. inx # <<>>
  OBVIOUS
<1>6. CASE ~full
  <2>1. idx' = y /\ mode' = "open" /\ inx' = inx
    BY <1>1, <1>2, <1>3, <1>6, CacheNotEmpty
  <2> QED BY <1>3, <1>4, <1>5, <1>6, <2>1 DEF Fitting
<1>7. CASE full
  <2>1. idx' = SplitBlock(y, b)
    BY <1>1, <1>3, <1>7
  <2>2. Counts(idx') /\ (idx'.blk # NULL => Fit(idx', {}) /\ ~Accepted(idx'))
    BY <1>2, <1>3, <1>4, <2>1, SplitFit
  <2>3. Room(idx', Buffers)
    BY DEF Room
  <2>4. mode' = "failed" \/ (mode' = "open" /\ idx'.blk # NULL)
    BY <1>1
  <2> QED BY <2>2, <2>3, <2>4 DEF Fitting, Fit, Header
<1> QED BY <1>6, <1>7

LEMMA DeleteFits ==
  ASSUME FInv, NEW i \in DOMAIN inx, NEW p, Delete(i, p)
  PROVE  Fitting'
<1> DEFINE x == GetIndexBlock(idx, inx[i])
           b == x.blk
           y == RemoveItem(x, b, p)
           z == SetBuffer(y, b, Counted(y.buf[b]))
           ki == x.buf[b].list[p]
           empty == y.buf[b].list = <<>>
           n == FileEnd(idx)
<1>1. /\ mode = "open" /\ p \in DOMAIN x.buf[b].list /\ mode' = mode
      /\ idx' = IF empty THEN UnlinkBlock(z, b, ki) ELSE z
      /\ inx' = IF empty THEN RemoveAt(inx, i) ELSE inx
  BY DEF Delete
<1>2. /\ Got(idx, x, n) /\ Size(x) >= 3 /\ Fit(x, {}) /\ Header(x)
      /\ b \in InUse(x) /\ b \in Buffers
  BY <1>1, VisitFits DEF Got
<1> HIDE DEF x, b, n
<1>3. Ok(z, n) /\ Sound(z) /\ Size(z) >= 3
  BY <1>1, <1>2, RemoveItemOk DEF Got
<1>4. Fit(z, {}) /\ Header(z) /\ InUse(z) = InUse(x)
  BY <1>1, <1>2, RemoveFit DEF Got
<1> HIDE DEF y, z, ki
<1>5. CASE empty
  <2>1. idx' = UnlinkBlock(z, b, ki)
    BY <1>1, <1>5
  <2>2. Fit(idx', {}) /\ ~Accepted(idx')
    BY <1>2, <1>3, <1>4, <2>1, UnlinkFit
  <2> QED BY <1>1, <2>2 DEF Fitting, Header
<1>6. CASE ~empty
  <2>1. idx' = z /\ inx' = inx /\ inx # <<>>
    BY <1>1, <1>6
  <2> QED BY <1>1, <1>4, <2>1 DEF Fitting
<1> QED BY <1>5, <1>6

LEMMA CloseFlushFits == ASSUME FInv, CloseFlush PROVE Fitting'
<1>1. /\ idx' = FlushIndexBlocks(idx) /\ mode' = "flushed" /\ Fit(idx, {})
      /\ Ok(idx, FileEnd(idx)) /\ Sound(idx)
  BY DEF FInv, IInv, Holds, Fitting, CloseFlush
<1>2. Fit(idx', {})
  BY <1>1, FlushAllFit
<1> QED BY <1>1, <1>2 DEF Fitting

LEMMA CloseFits == ASSUME FInv, Close PROVE Fitting'
<1> DEFINE n == FileEnd(idx)
           x == CloseBlockFile(idx)
<1>1. Ok(idx, n) /\ Counts(idx) /\ idx' = Closed(x) /\ mode' = "closed"
  BY DEF FInv, IInv, Holds, Fitting, Fit, Close
<1>2. Ok(x, n) /\ Counts(x)
  BY <1>1, CloseBlockFileOk, CloseFileFit
<1> HIDE DEF n, x
<1>3. Fit(idx', {}) /\ \A b \in Buffers : idx'.buf[b] = NewBuffer
  BY <1>1, <1>2, ClosedFit
<1> QED BY <1>1, <1>3 DEF Fitting, NewBuffer

LEMMA CrashFits == ASSUME FInv, Crash PROVE Fitting'
<1>1. Ok(idx, FileEnd(idx)) /\ Counts(idx) /\ idx' = Closed(idx) /\ mode' = "closed"
  BY DEF FInv, IInv, Holds, Fitting, Fit, Crash
<1>2. Fit(idx', {}) /\ \A b \in Buffers : idx'.buf[b] = NewBuffer
  BY <1>1, ClosedFit
<1> QED BY <1>1, <1>2 DEF Fitting, NewBuffer

LEMMA FittingStep == FInv /\ [Next]_vars => FInv'
<1> SUFFICES ASSUME FInv, [Next]_vars PROVE Fitting'
  BY NextStep DEF FInv
<1>1. CASE Open
  BY <1>1, OpenFits
<1>2. ASSUME NEW i \in DOMAIN inx, Get(i) PROVE Fitting'
  BY <1>2, GetFits
<1>3. ASSUME NEW ki \in KeyItem, First(ki) PROVE Fitting'
  BY <1>3, FirstFits
<1>4. ASSUME NEW i \in DOMAIN inx, NEW p, NEW ki \in KeyItem, Insert(i, p, ki) PROVE Fitting'
  BY <1>4, InsertFits
<1>5. ASSUME NEW i \in DOMAIN inx, NEW p, Delete(i, p) PROVE Fitting'
  BY <1>5, DeleteFits
<1>6. CASE CloseFlush
  BY <1>6, CloseFlushFits
<1>7. CASE Close
  BY <1>7, CloseFits
<1>8. CASE Crash
  BY <1>8, CrashFits
<1>9. CASE UNCHANGED vars
  BY <1>9 DEF FInv, Fitting, Fit, Counts, Room, Header, Blank, Sole, InUse, InFree,
              Accepted, GetFileBlock, vars
<1> QED BY <1>1, <1>2, <1>3, <1>4, <1>5, <1>6, <1>7, <1>8, <1>9 DEF Next

LEMMA FittingInvariance == Spec => []FInv
BY InitFits, FittingStep, PTL DEF Spec

LEMMA FInvImplies == FInv => BlocksFit /\ ControlBlockNotParsed
<1> SUFFICES ASSUME FInv PROVE BlocksFit /\ ControlBlockNotParsed
  OBVIOUS
<1>1. BlocksFit
  BY DEF BlocksFit, FInv, Fitting, Fit, Room
<1>2. ControlBlockNotParsed
  <2>1. \A i \in DOMAIN idx.used : idx.used[i] \in Buffers
    BY PoolTypes DEF FInv, IInv, Holds
  <2> QED BY <2>1, HeaderIsNoCount DEF ControlBlockNotParsed, FInv, Fitting, Fit, Counts
<1> QED BY <1>1, <1>2

(* A block is split before it can hold more pairs than fit in the file,    *)
(* and split into two that fit.                                            *)
THEOREM BlocksAlwaysFit == Spec => []BlocksFit
BY FittingInvariance, FInvImplies, PTL

(* getIndexBlock(0), the call made for the missing neighbour of the first  *)
(* and of the last block, never parses the control block as pairs.         *)
THEOREM ControlBlockIsSafe == Spec => []ControlBlockNotParsed
BY FittingInvariance, FInvImplies, PTL

-----------------------------------------------------------------------------
(* One list of pairs.                                                      *)

(* What the file has of each block is what the block holds.                *)
Clean(x) == \A m \in 1..FileEnd(x) - 1 : Stored(x.disk[m + 1]) = Logical(x, m)

Untouched ==
  Accepted(idx) =>
    /\ inxFile = <<>> => saved = <<>>
    /\ mode = "open" => inxFile = <<>> \/ (idx.used = <<>> /\ inx = inxFile)
    /\ mode = "failed" => inxFile = <<>>

Contents ==
  /\ FileEnd(idx) <= MaxBlocks + 1
  /\ mode = "open" => Alive(idx) /\ Listed(idx, inx, pairs)
  /\ mode = "flushed" => Clean(idx) /\ inxFile = inx /\ Listed(idx, inx, pairs)
  /\ mode = "closed" => inxFile = inx /\ (Accepted(idx) => Listed(idx, inx, pairs))
  /\ Untouched

LInv == FInv /\ Contents

-----------------------------------------------------------------------------
(* One lemma for each action.                                              *)

LEMMA InitLists == Init => LInv
<1> SUFFICES ASSUME Init PROVE Contents
  BY InitFits DEF LInv
<1>1. /\ idx.disk = <<ControlBlock>> /\ mode = "closed"
      /\ inx = <<>> /\ inxFile = <<>> /\ pairs = <<>> /\ saved = <<>>
  BY DEF Init, CreateIndexFile, CreateBlockFile
<1>2. FileEnd(idx) <= MaxBlocks + 1
  BY <1>1, BoundsAssumption DEF FileEnd
<1> QED BY <1>1, <1>2, NoneListed DEF Contents, Untouched

(* What holds of an open index.                                            *)
LEMMA OpenFacts ==
  ASSUME LInv, mode = "open"
  PROVE  LET n == FileEnd(idx)
         IN /\ Ok(idx, n) /\ Sound(idx) /\ n \in Nat \ {0} /\ n <= MaxBlocks + 1
            /\ Fit(idx, {}) /\ Header(idx) /\ Alive(idx)
            /\ inx \in Seq(1..n - 1) /\ Listed(idx, inx, pairs)
            /\ inx = <<>> \/ idx.used # <<>> =>
                 (Accepted(idx) => inxFile = <<>> /\ saved = <<>>)
<1>1. Ok(idx, FileEnd(idx)) /\ Sound(idx) /\ inx \in Seq(1..FileEnd(idx) - 1)
  BY DEF LInv, FInv, IInv, Holds
<1> QED BY <1>1, Numbers DEF LInv, FInv, Fitting, Contents, Untouched

LEMMA StaysOpen ==
  ASSUME NEW n, Ok(idx', n), n <= MaxBlocks + 1, mode' = "open", Alive(idx'),
         Listed(idx', inx', pairs'),
         Accepted(idx') => inxFile' = <<>> /\ saved' = <<>>
  PROVE  Contents'
<1>1. FileEnd(idx') = n
  BY Numbers
<1> QED BY <1>1 DEF Contents, Untouched

LEMMA OpenLists == ASSUME LInv, Open PROVE Contents'
<1> DEFINE n == FileEnd(idx)
<1>1. /\ Ok(idx, n) /\ Unopened(idx) /\ idx' = OpenIndex(idx) /\ mode' = "open"
      /\ inx' = inxFile /\ inxFile' = inxFile /\ pairs' = pairs /\ saved' = saved
      /\ Fit(idx, {}) /\ \A b \in Buffers : idx.buf[b].blockNumber = 0
      /\ n <= MaxBlocks + 1 /\ Accepted(idx) /\ inx = inxFile
      /\ Listed(idx, inx, pairs) /\ (inxFile = <<>> => saved = <<>>)
      /\ inx \in Seq(1..n - 1)
  BY DEF LInv, FInv, IInv, Holds, Fitting, Open, Contents, Untouched
<1> HIDE DEF n
<1>2. /\ Alive(idx') /\ InUse(idx') = {} /\ \A k : Logical(idx', k) = Logical(idx, k)
  BY <1>1, OpenViews
<1>3. Ok(idx', n) /\ Sound(idx')
  BY <1>1, OpenIndexOk
<1>4. idx'.used = <<>>
  BY <1>2, <1>3, ListsApart
<1>5. Listed(idx', inx', pairs')
  <2>1. Same(idx, idx', n)
    BY <1>2 DEF Same
  <2> QED BY <1>1, <2>1, ListedSame
<1>6. FileEnd(idx') = n
  BY <1>3, Numbers
<1> QED BY <1>1, <1>2, <1>4, <1>5, <1>6 DEF Contents, Untouched

(* A block the in-memory index names, once it is in a buffer.              *)
Visited(x, i, n) ==
  /\ Ok(x, n) /\ Sound(x) /\ Size(x) >= 3 /\ Fit(x, {}) /\ Header(x) /\ Alive(x)
  /\ n \in Nat \ {0} /\ n <= MaxBlocks + 1 /\ inx \in Seq(1..n - 1) /\ inx[i] \in 1..n - 1
  /\ Youngest(x, x.blk) /\ x.blk \in InUse(x) /\ x.blk \in Buffers
  /\ x.buf[x.blk].blockNumber = inx[i]
  /\ Logical(x, inx[i]) = View(x.buf[x.blk])
  /\ Listed(x, inx, pairs)
  /\ PairsIn(x, SubSeq(inx, 1, i - 1)) = PairsIn(idx, SubSeq(inx, 1, i - 1))
  /\ Accepted(x) => inxFile = <<>> /\ saved = <<>>

LEMMA VisitLists ==
  ASSUME LInv, mode = "open", NEW i \in DOMAIN inx
  PROVE  Visited(GetIndexBlock(idx, inx[i]), i, FileEnd(idx))
<1> DEFINE n == FileEnd(idx)
           x == GetIndexBlock(idx, inx[i])
           m == inx[i]
<1>0. FInv
  BY DEF LInv
<1>1. /\ Ok(idx, n) /\ Sound(idx) /\ n \in Nat \ {0} /\ n <= MaxBlocks + 1
      /\ Fit(idx, {}) /\ Header(idx) /\ Alive(idx)
      /\ inx \in Seq(1..n - 1) /\ Listed(idx, inx, pairs)
      /\ inx = <<>> \/ idx.used # <<>> =>
           (Accepted(idx) => inxFile = <<>> /\ saved = <<>>)
  BY OpenFacts
<1>2. /\ Got(idx, x, n) /\ Size(x) >= 3 /\ Fit(x, {}) /\ Header(x)
      /\ Size(idx) # 0 /\ m \in 0..n - 1
  BY <1>0, Visitable, VisitFits DEF FInv
<1> HIDE DEF n
<1>3. m \in 1..n - 1
  BY <1>1, ShellFacts
<1>4. Fetched(idx, x, m, n)
  BY <1>1, <1>2, GetKeeps
<1>5. \/ ~Accepted(x)
      \/ x.disk = idx.disk /\ InUse(x) = InUse(idx) /\ x.blk \in InUse(idx)
  <2>1. Size(idx) >= 3
    BY <1>2 DEF Got
  <2>2. Accepted(idx) => idx.free # <<>> /\ Blank(idx)
    BY <1>1, <2>1, RoomToVisit
  <2> QED BY <1>1, <1>2, <2>2, GetFit
<1> HIDE DEF x, m
<1>6. Accepted(x) => inxFile = <<>> /\ saved = <<>>
  <2>1. SUFFICES ASSUME Accepted(x) PROVE inxFile = <<>> /\ saved = <<>>
    OBVIOUS
  <2>2. Accepted(idx) /\ InUse(idx) # {}
    BY <1>5, <2>1 DEF Accepted, GetFileBlock
  <2>3. idx.used # <<>>
    BY <1>1, <2>2, ListsApart
  <2> QED BY <1>1, <2>2, <2>3
<1>7. /\ Ok(x, n) /\ Sound(x) /\ Alive(x) /\ Same(idx, x, n) /\ x.blk \in Buffers
      /\ Youngest(x, x.blk) /\ x.blk \in InUse(x) /\ x.buf[x.blk].blockNumber = m
  BY <1>4 DEF Fetched, Got
<1>8. Logical(x, m) = View(x.buf[x.blk])
  BY <1>7, HeldBlock
<1>9. Listed(x, inx, pairs)
  BY <1>1, <1>7, ListedSame
<1>10. PairsIn(x, SubSeq(inx, 1, i - 1)) = PairsIn(idx, SubSeq(inx, 1, i - 1))
  <2> DEFINE a == SubSeq(inx, 1, i - 1)
  <2>1. CutAt(1..n - 1, inx, i, a, SubSeq(inx, i + 1, Len(inx)))
    BY <1>1, CutOne
  <2> HIDE DEF a
  <2>2. a \in Seq(1..n - 1)
    BY <2>1 DEF CutAt, Around
  <2>3. \A j \in DOMAIN a : a[j] \in 1..n - 1
    BY <1>1, <2>2, ShellFacts
  <2>4. \A j \in DOMAIN a : Logical(x, a[j]).list = Logical(idx, a[j]).list
    BY <1>7, <2>3 DEF Same
  <2> QED BY <2>4, PairsSame DEF a
<1> QED BY <1>1, <1>2, <1>3, <1>6, <1>7, <1>8, <1>9, <1>10 DEF Visited, n, x, m

LEMMA GetLists ==
  ASSUME LInv, NEW i \in DOMAIN inx, Get(i)
  PROVE  Contents'
<1>1. /\ idx' = GetIndexBlock(idx, inx[i]) /\ mode = "open" /\ mode' = "open"
      /\ inx' = inx /\ inxFile' = inxFile /\ pairs' = pairs /\ saved' = saved
  BY DEF Get
<1>2. Visited(idx', i, FileEnd(idx))
  BY <1>1, VisitLists
<1> QED BY <1>1, <1>2, StaysOpen DEF Visited

LEMMA FirstLists ==
  ASSUME LInv, NEW ki \in KeyItem, First(ki)
  PROVE  Contents' /\ (pairs' = pairs \/ pairs' = <<ki>>)
<1> DEFINE n == FileEnd(idx)
<1>1. /\ idx' = FirstBlock(idx, ki) /\ mode = "open" /\ mode' = "open" /\ inx = <<>>
      /\ inx' = IF idx'.blk = NULL THEN <<>> ELSE <<idx'.lastBlock>>
      /\ pairs' = IF idx'.blk = NULL THEN <<>> ELSE <<ki>>
      /\ inxFile' = inxFile /\ saved' = saved /\ n <= MaxBlocks
  BY DEF First
<1>2. /\ Ok(idx, n) /\ Sound(idx) /\ n \in Nat \ {0} /\ n <= MaxBlocks + 1
      /\ Fit(idx, {}) /\ Header(idx) /\ Alive(idx) /\ Listed(idx, inx, pairs)
      /\ Accepted(idx) => inxFile = <<>> /\ saved = <<>>
  BY <1>1, OpenFacts
<1>3. Accepted(idx) => InUse(idx) = {}
  BY <1>1 DEF LInv, FInv, Fitting
<1> HIDE DEF n
<1>4. n + 1 <= MaxBlocks + 1
  BY <1>1, <1>2, BoundsAssumption
<1>5. /\ idx'.blk = NULL => idx' = GetNewBlock(idx)
      /\ idx'.blk = NULL <=> GetNewBlock(idx).blk = NULL
      /\ Accepted(idx') => Accepted(idx)
  BY <1>1, <1>2, <1>3, FirstFit
<1>6. CASE idx'.blk = NULL
  <2>1. Alive(idx')
    BY <1>2, <1>5, <1>6, NewLost
  <2>2. Ok(idx', n) \/ Ok(idx', n + 1)
    BY <1>1, <1>2, <1>6, FirstBlockOk, CacheNotEmpty DEF Got
  <2>3. pairs = <<>>
    BY <1>1, <1>2, PairsNone DEF Listed
  <2>4. Listed(idx', inx', pairs')
    BY <1>1, <1>6, NoneListed
  <2>5. Contents'
    BY <1>1, <1>2, <1>4, <1>5, <2>1, <2>2, <2>4, StaysOpen
  <2> QED BY <1>1, <1>6, <2>3, <2>5
<1>7. CASE idx'.blk # NULL
  <2>1. Begun(idx, idx', ki, n)
    BY <1>1, <1>2, <1>7, FirstViews
  <2>2. /\ Ok(idx', n + 1) /\ Sound(idx') /\ Alive(idx') /\ idx'.lastBlock = n
        /\ Logical(idx', n).list = <<ki>>
        /\ Logical(idx', n).prevBlock = 0 /\ Logical(idx', n).nextBlock = 0
    BY <2>1 DEF Begun
  <2>3. n \in 1..(n + 1) - 1
    BY <1>2
  <2>4. PairsIn(idx', <<n>>) = <<ki>>
    BY <2>2, <2>3, PairsOne
  <2>5. Distinct(<<n>>) /\ Chain(idx', <<n>>)
    <3> DEFINE s == <<n>>
    <3>1. DOMAIN s = {1} /\ s[1] = n /\ Len(s) = 1
      OBVIOUS
    <3> HIDE DEF s
    <3>2. Distinct(s) /\ Chain(idx', s)
      BY <2>2, <3>1 DEF Distinct, Chain, Before, Behind
    <3> QED BY <3>2 DEF s
  <2>6. Listed(idx', inx', pairs')
    BY <1>1, <1>7, <2>2, <2>4, <2>5 DEF Listed
  <2>7. Contents'
    BY <1>1, <1>2, <1>4, <1>5, <2>2, <2>6, StaysOpen
  <2> QED BY <1>1, <1>7, <2>7
<1> QED BY <1>6, <1>7

(* A change of the list of the visited block, in its buffer.               *)
LEMMA VisitedAltered ==
  ASSUME NEW n, NEW x, NEW i, Visited(x, i, n), NEW c, NEW y, SameUse(x, y, n),
         y.disk = x.disk, Becomes(x, y, x.blk, c),
         c.blockNumber = x.buf[x.blk].blockNumber,
         c.img.prevBlock = x.buf[x.blk].img.prevBlock,
         c.img.nextBlock = x.buf[x.blk].img.nextBlock,
         c.sized, c.isDirty
  PROVE  Altered(x, y, inx[i], c.list, n) /\ Alive(y) /\ (Accepted(y) => Accepted(x))
<1> DEFINE b == x.blk
           m == inx[i]
<1>1. /\ Ok(x, n) /\ Sound(x) /\ Alive(x) /\ n \in Nat \ {0} /\ m \in 1..n - 1
      /\ b \in InUse(x) /\ x.buf[b].blockNumber = m /\ Logical(x, m) = View(x.buf[b])
  BY DEF Visited
<1>3. /\ \A k \in 0..n - 1 :
           Logical(y, k) = IF k = m THEN View(c) ELSE Logical(x, k)
      /\ Alive(y)
  <2>1. Becomes(x, y, b, c) /\ c.blockNumber = x.buf[b].blockNumber
    OBVIOUS
  <2> HIDE DEF b, m
  <2>2. \A k \in 0..n - 1 :
          Logical(y, k) = IF k = x.buf[b].blockNumber THEN View(c) ELSE Logical(x, k)
    BY <1>1, <2>1, ChangeView
  <2>3. Alive(x) /\ c.sized /\ c.isDirty => Alive(y)
    BY <1>1, <2>1, ChangeView
  <2> QED BY <1>1, <2>2, <2>3
<1>4. /\ View(c).list = c.list /\ View(c).prevBlock = Logical(x, m).prevBlock
      /\ View(c).nextBlock = Logical(x, m).nextBlock
  BY <1>1 DEF View
<1> HIDE DEF b, m
<1>5. ASSUME NEW k \in 1..n - 1
      PROVE  /\ Logical(y, k).list = IF k = m THEN c.list ELSE Logical(x, k).list
             /\ Logical(y, k).prevBlock = Logical(x, k).prevBlock
             /\ Logical(y, k).nextBlock = Logical(x, k).nextBlock
  <2>1. k \in 0..n - 1
    BY <1>1
  <2> QED BY <1>3, <1>4, <2>1
<1>6. Ok(y, n) /\ Sound(y)
  BY DEF SameUse
<1> QED BY <1>3, <1>5, <1>6 DEF Altered, Accepted, GetFileBlock, m

LEMMA InsertLists ==
  ASSUME LInv, NEW i \in DOMAIN inx, NEW p, NEW ki \in KeyItem, Insert(i, p, ki)
  PROVE  Contents' /\ Position(i, p) \in 1..Len(pairs) + 1
<1> DEFINE x == GetIndexBlock(idx, inx[i])
           b == x.blk
           y == InsertItem(x, b, p, ki)
           full == Overflows(y.buf[y.blk].list)
           n == FileEnd(idx)
           m == inx[i]
           old == x.buf[b].list
           c == WithItem(x.buf[b], p, ki)
<1>1. /\ mode = "open" /\ p \in 1..Len(old) + 1 /\ n <= MaxBlocks
      /\ idx' = IF full THEN SplitBlock(y, y.blk) ELSE y
      /\ mode' = IF idx'.blk = NULL THEN "failed" ELSE mode
      /\ inx' = IF full /\ idx'.blk # NULL THEN InsertAt(inx, i + 1, idx'.lastBlock)
                                           ELSE inx
      /\ pairs' = InsertAt(pairs, Position(i, p), ki)
      /\ inxFile' = inxFile /\ saved' = saved
  BY DEF Insert
<1>2. Visited(x, i, n)
  BY <1>1, VisitLists
<1> HIDE DEF x, n
<1>3. /\ Ok(x, n) /\ Sound(x) /\ Size(x) >= 3 /\ Fit(x, {}) /\ Header(x) /\ Alive(x)
      /\ n \in Nat \ {0} /\ inx \in Seq(1..n - 1) /\ m \in 1..n - 1
      /\ Youngest(x, b) /\ b \in InUse(x) /\ b \in Buffers
      /\ x.buf[b].blockNumber = m /\ Logical(x, m).list = old
      /\ Listed(x, inx, pairs)
      /\ Accepted(x) => inxFile = <<>> /\ saved = <<>>
  <2>1. View(x.buf[b]).list = old
    BY DEF View
  <2> QED BY <1>2, <2>1 DEF Visited
<1>4. n + 1 <= MaxBlocks + 1 /\ n <= MaxBlocks + 1
  BY <1>1, <1>3, BoundsAssumption
<1>5. /\ c.list = InsertAt(old, p, ki)
      /\ c.blockNumber = m /\ c.img = x.buf[b].img
      /\ c.sized /\ c.isDirty
  <2>1. x.buf[b] \in Buffer(n)
    BY <1>3, BufferType
  <2>2. x.buf[b].sized /\ x.buf[b].isDirty
    BY <1>3 DEF Alive
  <2> DEFINE h == x.buf[b]
  <2>3. \A q \in 1..Len(h.list) + 1, k \in KeyItem :
          LET d == WithItem(h, q, k)
          IN /\ d.list = InsertAt(h.list, q, k)
             /\ d.blockNumber = h.blockNumber /\ d.img = h.img
             /\ d.sized = h.sized /\ d.isDirty = h.isDirty
    <3>1. h \in Buffer(n) /\ n \in Nat \ {0}
      BY <1>3, <2>1
    <3> HIDE DEF h, b, y, full, m, old, c
    <3> QED BY <3>1, ItemContents
  <2> QED BY <1>1, <1>3, <2>2, <2>3
<1>6. Becomes(x, y, b, c) /\ y.disk = x.disk
  BY <1>3, SetShape DEF InsertItem
<1>7. Ok(y, n) /\ Sound(y) /\ Size(y) >= 3 /\ SamePool(x, y) /\ y.blk = b
  BY <1>1, <1>3, InsertItemOk
<1>8. /\ Fit(y, {b}) /\ Header(y) /\ Len(y.buf[b].list) <= numMaxItems + 1
      /\ Youngest(y, b)
  BY <1>1, <1>3, InsertFit
<1> HIDE DEF y, c
<1>9. SameUse(x, y, n)
  BY <1>3, <1>7, SamePoolUse
<1>10. Altered(x, y, m, InsertAt(old, p, ki), n) /\ Alive(y) /\ (Accepted(y) => Accepted(x))
  <2>1. y.disk = x.disk /\ Becomes(x, y, x.blk, c)
    BY <1>6
  <2>2. Altered(x, y, m, c.list, n) /\ Alive(y) /\ (Accepted(y) => Accepted(x))
    BY <1>2, <1>3, <1>5, <1>9, <2>1, VisitedAltered
  <2> QED BY <1>5, <2>2
<1> HIDE DEF b, m, old
<1>11. Listed(y, inx, pairs') /\ Position(i, p) \in 1..Len(pairs) + 1
  <2> DEFINE at == Len(PairsIn(x, SubSeq(inx, 1, i - 1))) + p
  <2>1. at = Position(i, p)
    BY <1>2 DEF Position, Visited
  <2>2. Listed(y, inx, InsertAt(pairs, at, ki)) /\ at \in 1..Len(pairs) + 1
    BY <1>1, <1>3, <1>10, ListedAltered DEF m
  <2> QED BY <1>1, <2>1, <2>2
<1>12. CASE ~full
  <2>1. idx' = y /\ mode' = "open" /\ inx' = inx
    BY <1>1, <1>3, <1>7, <1>12, CacheNotEmpty
  <2> QED BY <1>1, <1>3, <1>4, <1>7, <1>10, <1>11, <2>1, StaysOpen
<1>13. CASE full
  <2>1. idx' = SplitBlock(y, b)
    BY <1>1, <1>7, <1>13
  <2>2. /\ idx'.blk = NULL <=> GetNewBlock(y).blk = NULL
        /\ idx'.blk = NULL => (Accepted(idx') => Accepted(y))
        /\ idx'.blk # NULL => ~Accepted(idx')
    BY <1>3, <1>7, <1>8, <2>1, SplitFit
  <2>3. CASE idx'.blk = NULL
    <3>1. mode' = "failed"
      BY <1>1, <2>3
    <3>2. Size(y) # 0
      BY <1>7, SizeType
    <3>3. Ok(idx', n) \/ Ok(idx', n + 1)
      BY <1>3, <1>7, <2>1, <2>3, <3>2, SplitBlockOk, CacheNotEmpty DEF Got
    <3>4. FileEnd(idx') <= MaxBlocks + 1
      BY <1>4, <3>3, Numbers
    <3>5. Contents'
      BY <1>1, <1>3, <1>10, <2>2, <2>3, <3>1, <3>4 DEF Contents, Untouched
    <3> QED BY <1>11, <3>5
  <2>4. CASE idx'.blk # NULL
    <3>1. Size(y) # 0 /\ Size(y) >= 2
      BY <1>7, SizeType
    <3>2. Got(y, idx', n + 1) /\ idx'.lastBlock = n
      BY <1>3, <1>7, <2>1, <2>4, <3>1, SplitBlockOk
    <3>3. inx' = InsertAt(inx, i + 1, n) /\ mode' = "open"
      BY <1>1, <1>13, <2>4, <3>2
    <3>4. y.buf[b].blockNumber = m /\ m \in 1..n - 1
      BY <1>3, <1>7 DEF SamePool
    <3>5. Divided(y, idx', m, n)
      BY <1>7, <1>8, <1>10, <2>1, <2>2, <2>4, <3>1, <3>4, SplitViews
    <3>6. Listed(idx', inx', pairs')
      BY <1>3, <1>7, <1>11, <3>3, <3>5, ListedSplit DEF m
    <3>7. Ok(idx', n + 1) /\ Alive(idx')
      BY <3>5 DEF Divided
    <3>8. Contents'
      BY <1>4, <2>2, <2>4, <3>3, <3>6, <3>7, StaysOpen
    <3> QED BY <1>11, <3>8
  <2> QED BY <2>3, <2>4
<1> QED BY <1>12, <1>13

LEMMA ItemNoBlock ==
  ASSUME ItemsAreNoBlocks, NEW ki \in Pairs, NEW n \in Nat, n <= MaxBlocks + 1,
         NEW m \in 1..n - 1
  PROVE  ki.item # m
<1>1. m \in 1..MaxBlocks /\ m # 0
  BY BoundsAssumption
<1>2. CASE ki \in KeyItem
  BY <1>1, <1>2 DEF ItemsAreNoBlocks
<1>3. CASE ki = Zeros
  BY <1>1, <1>3 DEF Zeros
<1> QED BY <1>2, <1>3 DEF Pairs

LEMMA DeleteLists ==
  ASSUME ItemsAreNoBlocks, LInv, NEW i \in DOMAIN inx, NEW p, Delete(i, p)
  PROVE  Contents' /\ Position(i, p) \in 1..Len(pairs)
<1> DEFINE x == GetIndexBlock(idx, inx[i])
           b == x.blk
           y == RemoveItem(x, b, p)
           z == SetBuffer(y, b, Counted(y.buf[b]))
           n == FileEnd(idx)
           m == inx[i]
           old == x.buf[b].list
           ki == old[p]
           c == Counted(WithoutItem(x.buf[b], p))
           empty == y.buf[b].list = <<>>
<1>1. /\ mode = "open" /\ p \in DOMAIN old /\ mode' = mode
      /\ idx' = IF empty THEN UnlinkBlock(z, b, ki) ELSE z
      /\ inx' = IF empty THEN RemoveAt(inx, i) ELSE inx
      /\ pairs' = RemoveAt(pairs, Position(i, p))
      /\ inxFile' = inxFile /\ saved' = saved
  BY DEF Delete
<1>2. Visited(x, i, n)
  BY <1>1, VisitLists
<1> HIDE DEF x, n
<1>3. /\ Ok(x, n) /\ Sound(x) /\ Size(x) >= 3 /\ Fit(x, {}) /\ Header(x) /\ Alive(x)
      /\ n \in Nat \ {0} /\ n <= MaxBlocks + 1 /\ inx \in Seq(1..n - 1) /\ m \in 1..n - 1
      /\ Youngest(x, b) /\ b \in InUse(x) /\ b \in Buffers
      /\ x.buf[b].blockNumber = m /\ Logical(x, m).list = old
      /\ Listed(x, inx, pairs)
      /\ Accepted(x) => inxFile = <<>> /\ saved = <<>>
  <2>1. View(x.buf[b]).list = old
    BY DEF View
  <2> QED BY <1>2, <2>1 DEF Visited
<1>4. x.buf[b] \in Buffer(n) /\ x.buf[b].sized
  BY <1>3, BufferType DEF Alive
<1>5. old \in Seq(Pairs) /\ DOMAIN old = 1..Len(old)
  <2>1. old \in Seq(Pairs)
    BY <1>4 DEF Buffer, Items, Pairs
  <2> HIDE DEF old
  <2> QED BY <2>1, LenProperties
<1>6. /\ c.list = RemoveAt(old, p) /\ c.blockNumber = m
      /\ c.img.prevBlock = x.buf[b].img.prevBlock
      /\ c.img.nextBlock = x.buf[b].img.nextBlock
      /\ c.sized /\ c.isDirty
  <2> DEFINE h == x.buf[b]
  <2>1. \A q \in DOMAIN h.list :
          LET d == Counted(WithoutItem(h, q))
          IN /\ d.list = RemoveAt(h.list, q) /\ d.blockNumber = h.blockNumber
             /\ d.img.prevBlock = h.img.prevBlock /\ d.img.nextBlock = h.img.nextBlock
             /\ d.sized = h.sized /\ d.isDirty
    <3> HIDE DEF h
    <3>1. h \in Buffer(n)
      BY <1>4 DEF h
    <3> QED BY <1>3, <3>1, ItemContents
  <2> QED BY <1>1, <1>3, <1>4, <2>1
<1>7. Ok(z, n) /\ Sound(z) /\ Size(z) >= 3 /\ SamePool(x, z)
  BY <1>1, <1>3, RemoveItemOk
<1>8. /\ Fit(z, {}) /\ Header(z) /\ InUse(z) = InUse(x)
      /\ Becomes(x, z, b, c) /\ z.disk = x.disk /\ y.buf[b].list = z.buf[b].list
  BY <1>1, <1>3, RemoveFit
<1> HIDE DEF y, z, c
<1>9. SameUse(x, z, n)
  BY <1>3, <1>7, SamePoolUse
<1>10. Altered(x, z, m, RemoveAt(old, p), n) /\ Alive(z) /\ (Accepted(z) => Accepted(x))
  <2>1. z.disk = x.disk /\ Becomes(x, z, x.blk, c)
    BY <1>8
  <2>2. Altered(x, z, m, c.list, n) /\ Alive(z) /\ (Accepted(z) => Accepted(x))
    BY <1>2, <1>3, <1>6, <1>9, <2>1, VisitedAltered
  <2> QED BY <1>6, <2>2
<1>11. ki.item # m
  <2>1. ki \in Pairs /\ n \in Nat
    BY <1>1, <1>3, <1>5, ElementOfSeq
  <2> QED BY <1>3, <2>1, ItemNoBlock
<1>12. z.buf[b] = c
  BY <1>8 DEF Becomes
<1> HIDE DEF b, m, old, ki
<1>13. Listed(z, inx, pairs') /\ Position(i, p) \in 1..Len(pairs)
  <2> DEFINE at == Len(PairsIn(x, SubSeq(inx, 1, i - 1))) + p
  <2>1. at = Position(i, p)
    BY <1>2 DEF Position, Visited
  <2>2. p \in 1..Len(old)
    BY <1>1, <1>5
  <2>3. Listed(z, inx, RemoveAt(pairs, at)) /\ at \in 1..Len(pairs)
    BY <1>3, <1>10, <2>2, ListedAltered DEF m
  <2> QED BY <1>1, <2>1, <2>3
<1>14. CASE ~empty
  <2>1. idx' = z /\ mode' = "open" /\ inx' = inx
    BY <1>1, <1>14
  <2> QED BY <1>1, <1>3, <1>7, <1>10, <1>13, <2>1, StaysOpen
<1>15. CASE empty
  <2>1. idx' = UnlinkBlock(z, b, ki) /\ mode' = "open" /\ inx' = RemoveAt(inx, i)
    BY <1>1, <1>15
  <2>2. /\ b \in InUse(z) /\ z.buf[b].blockNumber = m
        /\ z.buf[b].list = <<>>
    BY <1>3, <1>6, <1>8, <1>12, <1>15
  <2>3. Logical(z, m) = View(z.buf[b])
    BY <1>7, <2>2, HeldBlock
  <2>4. /\ Logical(z, m).list = <<>>
        /\ Logical(z, m).prevBlock = z.buf[b].img.prevBlock
        /\ Logical(z, m).nextBlock = z.buf[b].img.nextBlock
    BY <2>2, <2>3 DEF View
  <2>5. ~Accepted(idx')
    BY <1>7, <1>8, <2>1, <2>2, UnlinkFit
  <2>6. Relinked(z, idx', Logical(z, m).prevBlock, Logical(z, m).nextBlock, n)
    <3>1. Size(z) >= 2
      BY <1>7, SizeType
    <3> QED BY <1>7, <1>10, <1>11, <2>1, <2>2, <2>4, <3>1, UnlinkViews
  <2>7. Listed(idx', inx', pairs')
    BY <1>3, <1>7, <1>13, <2>1, <2>4, <2>6, ListedUnlinked DEF m
  <2>8. Ok(idx', n) /\ Alive(idx')
    BY <2>6 DEF Relinked
  <2>9. Contents'
    BY <1>3, <2>1, <2>5, <2>7, <2>8, StaysOpen
  <2> QED BY <1>13, <2>9
<1> QED BY <1>14, <1>15

LEMMA CloseFlushLists == ASSUME LInv, CloseFlush PROVE Contents'
<1> DEFINE n == FileEnd(idx)
<1>1. /\ idx' = FlushIndexBlocks(idx) /\ mode = "open" /\ mode' = "flushed"
      /\ inx' = inx /\ inxFile' = inx /\ pairs' = pairs /\ saved' = saved
  BY DEF CloseFlush
<1>2. /\ Ok(idx, n) /\ Sound(idx) /\ n \in Nat \ {0} /\ n <= MaxBlocks + 1
      /\ Fit(idx, {}) /\ Alive(idx) /\ inx \in Seq(1..n - 1) /\ Listed(idx, inx, pairs)
      /\ inx = <<>> => (Accepted(idx) => saved = <<>>)
  BY <1>1, OpenFacts
<1> HIDE DEF n
<1>3. WrittenAll(idx, idx', n)
  BY <1>1, <1>2, FlushViews
<1>4. Ok(idx', n)
  BY <1>1, <1>2, FlushIndexBlocksOk
<1>5. FileEnd(idx') = n
  BY <1>4, Numbers
<1>6. Listed(idx', inx', pairs')
  <2>1. Same(idx, idx', n)
    BY <1>3 DEF WrittenAll
  <2> QED BY <1>1, <1>2, <2>1, ListedSame
<1>7. Clean(idx')
  BY <1>3, <1>5 DEF WrittenAll, Clean
<1>8. Accepted(idx') => Accepted(idx)
  BY <1>1, <1>2, FlushAccepts
<1> QED BY <1>1, <1>2, <1>5, <1>6, <1>7, <1>8 DEF Contents, Untouched

LEMMA CloseLists == ASSUME LInv, Close PROVE Contents'
<1> DEFINE n == FileEnd(idx)
           x == CloseBlockFile(idx)
<1>1. /\ idx' = Closed(x) /\ mode = "flushed" /\ mode' = "closed" /\ saved' = pairs
      /\ inx' = inx /\ inxFile' = inxFile /\ pairs' = pairs
  BY DEF Close
<1>2. /\ Ok(idx, n) /\ Sound(idx) /\ Counts(idx) /\ inx \in Seq(1..n - 1)
      /\ n <= MaxBlocks + 1 /\ Clean(idx) /\ inxFile = inx /\ Listed(idx, inx, pairs)
  BY <1>1 DEF LInv, FInv, IInv, Holds, Fitting, Fit, Contents
<1>3. \A k \in 1..n - 1 : Stored(idx.disk[k + 1]) = Logical(idx, k)
  BY <1>2 DEF Clean
<1> HIDE DEF n
<1>4. \A k \in 1..n - 1 : Logical(Closed(x), k) = Logical(idx, k)
  BY <1>2, <1>3, CloseViews
<1>5. Ok(x, n)
  BY <1>2, CloseBlockFileOk
<1> HIDE DEF x
<1>6. Ok(idx', n)
  BY <1>1, <1>5, ClosedOk
<1>7. FileEnd(idx') = n
  BY <1>6, Numbers
<1>8. Listed(idx', inx', pairs')
  <2>1. Same(idx, idx', n)
    BY <1>1, <1>4 DEF Same
  <2> QED BY <1>1, <1>2, <2>1, ListedSame
<1>9. inx = <<>> => pairs = <<>>
  BY <1>2, PairsNone DEF Listed
<1> QED BY <1>1, <1>2, <1>7, <1>8, <1>9 DEF Contents, Untouched

(* A file that openIndex will accept holds the list last closed, or the    *)
(* one that closeIndexFile has just written.                               *)
LEMMA CrashLists ==
  ASSUME LInv, Crash
  PROVE  Contents' /\ pairs' \in {saved, pairs}
<1> DEFINE n == FileEnd(idx)
<1>1. /\ idx' = Closed(idx) /\ mode # "closed" /\ mode' = "closed" /\ inx' = inxFile
      /\ pairs' = IF Accepted(idx') THEN PairsIn(idx', inx') ELSE saved
      /\ inxFile' = inxFile /\ saved' = saved
  BY DEF Crash
<1>2. /\ Ok(idx, n) /\ Sound(idx) /\ Counts(idx) /\ n <= MaxBlocks + 1 /\ Untouched
      /\ mode \in {"open", "flushed", "failed"}
  BY <1>1 DEF LInv, FInv, IInv, Holds, Fitting, Fit, Contents
<1> HIDE DEF n
<1>3. Ok(idx', n)
  BY <1>1, <1>2, ClosedOk
<1>4. FileEnd(idx') = n /\ (Accepted(idx') <=> Accepted(idx))
  BY <1>1, <1>2, <1>3, Numbers, ClosedFit
<1>5. \A k : Logical(idx', k) = Stored(idx.disk[k + 1])
  BY <1>1, <1>2, ClosedViews
<1>6. ASSUME Accepted(idx)
      PROVE  /\ Listed(idx', inx', PairsIn(idx', inx'))
             /\ PairsIn(idx', inx') \in {saved, pairs}
             /\ inxFile = <<>> => saved = <<>>
  <2>1. inxFile = <<>> => saved = <<>>
    BY <1>2, <1>6 DEF Untouched
  <2>2. CASE inxFile = <<>>
    <3>1. Listed(idx', <<>>, <<>>) /\ PairsIn(idx', <<>>) = <<>>
      BY NoneListed, PairsNone
    <3> QED BY <1>1, <2>1, <2>2, <3>1
  <2>3. CASE inxFile # <<>> /\ mode = "open"
    <3>1. idx.used = <<>> /\ inx = inxFile
      BY <1>2, <1>6, <2>3 DEF Untouched
    <3>2. Listed(idx, inx, pairs) /\ inx \in Seq(1..n - 1)
      BY <2>3, OpenFacts DEF n
    <3>3. \A k : Absent(idx, k)
      <4>1. InUse(idx) = {}
        BY <1>2, <3>1, ListsApart
      <4> QED BY <4>1 DEF Absent
    <3>4. \A k : Logical(idx, k) = Stored(idx.disk[k + 1])
      BY <3>3, FileBlock
    <3>5. Listed(idx', inx, pairs)
      <4>1. Same(idx, idx', n)
        BY <1>5, <3>4 DEF Same
      <4> QED BY <1>2, <3>2, <4>1, ListedSame
    <3> QED BY <1>1, <2>1, <3>1, <3>5 DEF Listed
  <2>4. CASE inxFile # <<>> /\ mode = "flushed"
    <3>1. Clean(idx) /\ inxFile = inx /\ Listed(idx, inx, pairs) /\ inx \in Seq(1..n - 1)
      BY <2>4 DEF LInv, FInv, IInv, Holds, Contents, n
    <3>2. Same(idx, idx', n)
      BY <1>5, <3>1 DEF Clean, Same, n
    <3>3. Listed(idx', inx, pairs)
      BY <1>2, <3>1, <3>2, ListedSame
    <3> QED BY <1>1, <2>1, <3>1, <3>3 DEF Listed
  <2>5. inxFile = <<>> \/ mode # "failed"
    BY <1>2, <1>6 DEF Untouched
  <2> QED BY <1>2, <2>2, <2>3, <2>4, <2>5
<1>7. Contents'
  BY <1>1, <1>2, <1>4, <1>6 DEF Contents, Untouched
<1> QED BY <1>1, <1>4, <1>6, <1>7

LEMMA ListStep == ItemsAreNoBlocks /\ LInv /\ [Next]_vars => LInv'
<1> SUFFICES ASSUME ItemsAreNoBlocks, LInv, [Next]_vars PROVE Contents'
  BY FittingStep DEF LInv
<1>1. CASE Open
  BY <1>1, OpenLists
<1>2. ASSUME NEW i \in DOMAIN inx, Get(i) PROVE Contents'
  BY <1>2, GetLists
<1>3. ASSUME NEW ki \in KeyItem, First(ki) PROVE Contents'
  BY <1>3, FirstLists
<1>4. ASSUME NEW i \in DOMAIN inx, NEW p, NEW ki \in KeyItem, Insert(i, p, ki) PROVE Contents'
  BY <1>4, InsertLists
<1>5. ASSUME NEW i \in DOMAIN inx, NEW p, Delete(i, p) PROVE Contents'
  BY <1>5, DeleteLists
<1>6. CASE CloseFlush
  BY <1>6, CloseFlushLists
<1>7. CASE Close
  BY <1>7, CloseLists
<1>8. CASE Crash
  BY <1>8, CrashLists
<1>9. CASE UNCHANGED vars
  BY <1>9 DEF LInv, Contents, Untouched, vars
<1> QED BY <1>1, <1>2, <1>3, <1>4, <1>5, <1>6, <1>7, <1>8, <1>9 DEF Next

LEMMA ListInvariance == ASSUME ItemsAreNoBlocks PROVE Spec => []LInv
<1>1. LInv /\ [Next]_vars => LInv'
  BY ListStep
<1> QED BY <1>1, InitLists, PTL DEF Spec

LEMMA LInvImplies == LInv => CacheIsInvisible /\ ChainLinked
<1> SUFFICES ASSUME LInv PROVE CacheIsInvisible /\ ChainLinked
  OBVIOUS
<1>1. mode \in {"closed", "open", "flushed", "failed"}
  BY DEF LInv, FInv, IInv, Holds
<1>2. CacheIsInvisible
  BY <1>1 DEF CacheIsInvisible, LInv, Contents, Listed
<1>3. ChainLinked
  BY <1>1 DEF ChainLinked, LInv, Contents, Listed, Chain, Before, Behind
<1> QED BY <1>2, <1>3

-----------------------------------------------------------------------------
(* Reads, evictions, splits, closing and opening lose no pair, double none *)
(* and move none: the blocks hold what the calls have asked for.           *)
THEOREM CacheInvisible == ASSUME ItemsAreNoBlocks PROVE Spec => []CacheIsInvisible
BY ListInvariance, LInvImplies, PTL

(* splitBlock and the unlinking of an empty block keep the blocks linked   *)
(* in the order of the in-memory index, both ways.                         *)
THEOREM ChainStaysLinked == ASSUME ItemsAreNoBlocks PROVE Spec => []ChainLinked
BY ListInvariance, LInvImplies, PTL

-----------------------------------------------------------------------------
(* Every step of BlockCache is one of the list, or leaves it alone.        *)

(* The list changes by the same operators.                                 *)
LEMMA SameChanges ==
  /\ \A s, p, e : List!InsertAt(s, p, e) = InsertAt(s, p, e)
  /\ \A s, p : List!RemoveAt(s, p) = RemoveAt(s, p)
BY DEF InsertAt, List!InsertAt, RemoveAt, List!RemoveAt

LEMMA ListInit == Init => List!Init
BY DEF Init, List!Init

LEMMA ListNext == ItemsAreNoBlocks /\ LInv /\ [Next]_vars => [List!Next]_(List!vars)
<1> SUFFICES ASSUME ItemsAreNoBlocks, LInv, [Next]_vars PROVE [List!Next]_(List!vars)
  OBVIOUS
<1>1. CASE Open
  <2>1. List!Open
    BY <1>1 DEF Open, List!Open
  <2> QED BY <2>1 DEF List!Next
<1>2. ASSUME NEW i \in DOMAIN inx, Get(i) PROVE UNCHANGED List!vars
  BY <1>2 DEF Get, List!vars
<1>3. ASSUME NEW ki \in KeyItem, First(ki) PROVE List!InsertPair \/ UNCHANGED List!vars
  <2>1. /\ mode = "open" /\ mode' = "open" /\ saved' = saved /\ inx = <<>>
        /\ pairs' = pairs \/ pairs' = <<ki>>
    BY <1>3, FirstLists DEF First
  <2>2. CASE pairs' = pairs
    BY <2>1, <2>2 DEF List!vars
  <2>3. CASE pairs' = <<ki>>
    <3>1. pairs = <<>>
      BY <2>1, OpenFacts, PairsNone DEF Listed
    <3>2. pairs' = InsertAt(pairs, 1, ki) /\ 1 \in 1..Len(pairs) + 1
      BY <2>3, <3>1, InsertFirst
    <3>3. pairs' \in List!Longer(pairs)
      BY <3>2, SameChanges DEF List!Longer
    <3> QED BY <2>1, <3>3 DEF List!InsertPair
  <2> QED BY <2>1, <2>2, <2>3
<1>4. ASSUME NEW i \in DOMAIN inx, NEW p, NEW ki \in KeyItem, Insert(i, p, ki)
      PROVE  List!InsertPair
  <2>1. /\ mode = "open" /\ mode' \in {"open", "failed"} /\ saved' = saved
        /\ pairs' = InsertAt(pairs, Position(i, p), ki)
    BY <1>4 DEF Insert
  <2>2. Position(i, p) \in 1..Len(pairs) + 1
    BY <1>4, InsertLists
  <2>3. pairs' \in List!Longer(pairs)
    BY <2>1, <2>2, SameChanges DEF List!Longer
  <2> QED BY <2>1, <2>3 DEF List!InsertPair
<1>5. ASSUME NEW i \in DOMAIN inx, NEW p, Delete(i, p) PROVE List!RemovePair
  <2>1. /\ mode = "open" /\ mode' = "open" /\ saved' = saved
        /\ pairs' = RemoveAt(pairs, Position(i, p))
    BY <1>5 DEF Delete
  <2>2. Position(i, p) \in 1..Len(pairs)
    BY <1>5, DeleteLists
  <2>3. pairs' \in List!Shorter(pairs)
    BY <2>1, <2>2, SameChanges DEF List!Shorter
  <2> QED BY <2>1, <2>3 DEF List!RemovePair
<1>6. CASE CloseFlush
  <2>1. UNCHANGED List!vars
    BY <1>6 DEF CloseFlush, List!vars
  <2> QED BY <2>1
<1>7. CASE Close
  <2>1. List!Close
    BY <1>7 DEF Close, List!Close
  <2> QED BY <2>1 DEF List!Next
<1>8. CASE Crash
  <2>1. pairs' \in {saved, pairs}
    BY <1>8, CrashLists
  <2>2. List!Crash
    BY <1>8, <2>1 DEF Crash, List!Crash
  <2> QED BY <2>2 DEF List!Next
<1>9. CASE UNCHANGED vars
  BY <1>9 DEF vars, List!vars
<1> QED BY <1>1, <1>2, <1>3, <1>4, <1>5, <1>6, <1>7, <1>8, <1>9 DEF Next, List!Next

(* The block file and its cache are one list of pairs to index.c: it       *)
(* changes only where addIndexItem and deleteIndexItem ask for it, and a   *)
(* crash leaves the list last closed, the one being closed, or a file that *)
(* openIndex refuses.                                                      *)
THEOREM ImplementsItemList == ASSUME ItemsAreNoBlocks PROVE Spec => IsItemList
<1>1. LInv /\ [Next]_vars => [List!Next]_(List!vars)
  BY ListNext
<1> QED BY <1>1, ListInit, ListInvariance, PTL DEF Spec, IsItemList, List!Spec
=============================================================================
