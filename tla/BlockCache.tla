----------------------------- MODULE BlockCache -----------------------------
(***************************************************************************)
(* One index file in use: the calls index.c makes on idxblk.c, for any     *)
(* block the in-memory index may name and any position in it, together     *)
(* with openIndex, closeIndexFile and a crash of the process between any   *)
(* two of them.  Which block a key belongs to is left to module Index.     *)
(***************************************************************************)
EXTENDS IdxBlk, FiniteSets

CONSTANTS MaxBlocks, (* bound on the blocks appended to the file           *)
          MaxPairs   (* bound on how often each key/item pair is stored    *)

ASSUME BoundsAssumption == MaxBlocks \in Nat

(* deleteIndexItem frees a buffer only if the item of the last pair is the *)
(* number of its block, and frees the youngest one then, which may be that *)
(* of another block (index.c:1113).  What BlockCache promises, it promises *)
(* for items that are not block numbers.                                   *)
ItemsAreNoBlocks == \A ki \in KeyItem : ki.item \notin 1..MaxBlocks

VARIABLES idx,     (* the open dbIndex and its file, see IdxBlk            *)
          inx,     (* idx->inx, the in-memory index: the blocks in order   *)
          inxFile, (* the in-memory index as last stored in the .inx file  *)
          mode,    (* "closed", "open", "flushed" inside closeIndexFile,   *)
                   (* or "failed" once splitBlock has returned NULL        *)
          pairs,   (* history: the pairs as the calls have asked for them  *)
          saved    (* history: the pairs when the file was last closed     *)

vars == <<idx, inx, inxFile, mode, pairs, saved>>

(* The position in pairs of position p of the i-th block.                  *)
Position(i, p) == Len(PairsIn(idx, SubSeq(inx, 1, i - 1))) + p

-----------------------------------------------------------------------------
Init ==
  /\ idx = CreateIndexFile
  /\ inx = <<>> /\ inxFile = <<>>
  /\ mode = "closed"
  /\ pairs = <<>> /\ saved = <<>>

Open ==
  /\ mode = "closed"
  /\ Accepted(idx)
  /\ idx' = OpenIndex(idx)
  /\ inx' = inxFile
  /\ mode' = "open"
  /\ UNCHANGED <<inxFile, pairs, saved>>

(* A search, or a step of a scan, that visits the i-th block.              *)
Get(i) ==
  /\ mode = "open"
  /\ idx' = GetIndexBlock(idx, inx[i])
  /\ UNCHANGED <<inx, inxFile, mode, pairs, saved>>

(* addIndexItem into an empty index.                                       *)
First(ki) ==
  /\ mode = "open"
  /\ inx = <<>>
  /\ FileEnd(idx) <= MaxBlocks
  /\ idx' = FirstBlock(idx, ki)
  /\ inx' = IF idx'.blk = NULL THEN <<>> ELSE <<idx'.lastBlock>>
  /\ pairs' = IF idx'.blk = NULL THEN <<>> ELSE <<ki>>
  /\ UNCHANGED <<inxFile, mode, saved>>

(* addIndexItem into the i-th block, before position p of its list.        *)
Insert(i, p, ki) ==
  LET x == GetIndexBlock(idx, inx[i])
      y == InsertItem(x, x.blk, p, ki)
      full == Overflows(y.buf[y.blk].list)
  IN /\ mode = "open"
     /\ FileEnd(idx) <= MaxBlocks
     /\ p \in 1..Len(x.buf[x.blk].list) + 1
     /\ idx' = IF full THEN SplitBlock(y, y.blk) ELSE y
     /\ mode' = IF idx'.blk = NULL THEN "failed" ELSE mode
     /\ inx' = IF full /\ idx'.blk # NULL THEN InsertAt(inx, i + 1, idx'.lastBlock)
                                          ELSE inx
     /\ pairs' = InsertAt(pairs, Position(i, p), ki)
     /\ UNCHANGED <<inxFile, saved>>

(* deleteIndexItem of position p of the i-th block.                        *)
Delete(i, p) ==
  LET x == GetIndexBlock(idx, inx[i])
      b == x.blk
      y == RemoveItem(x, b, p)
      z == SetBuffer(y, b, Counted(y.buf[b]))
      empty == y.buf[b].list = <<>>
  IN /\ mode = "open"
     /\ p \in DOMAIN x.buf[b].list
     /\ idx' = IF empty THEN UnlinkBlock(z, b, x.buf[b].list[p]) ELSE z
     /\ inx' = IF empty THEN RemoveAt(inx, i) ELSE inx
     /\ pairs' = RemoveAt(pairs, Position(i, p))
     /\ UNCHANGED <<inxFile, mode, saved>>

(* closeIndexFile: flush and store the shell, then closeBlockFile writes   *)
(* the control block.                                                      *)
CloseFlush ==
  /\ mode = "open"
  /\ idx' = FlushIndexBlocks(idx)
  /\ inxFile' = inx
  /\ mode' = "flushed"
  /\ UNCHANGED <<inx, pairs, saved>>

Close ==
  /\ mode = "flushed"
  /\ idx' = Closed(CloseBlockFile(idx))
  /\ mode' = "closed"
  /\ saved' = pairs
  /\ UNCHANGED <<inx, inxFile, pairs>>

(* The process dies; the files stay as the last write left them.  If the   *)
(* next openIndex will refuse them, the list last closed is all there is   *)
(* to fall back on.                                                        *)
Crash ==
  /\ mode # "closed"
  /\ idx' = Closed(idx)
  /\ inx' = inxFile
  /\ mode' = "closed"
  /\ pairs' = IF Accepted(idx') THEN PairsIn(idx', inx') ELSE saved
  /\ UNCHANGED <<inxFile, saved>>

Next ==
  \/ Open
  \/ \E i \in DOMAIN inx : Get(i)
  \/ \E ki \in KeyItem : First(ki)
  \/ \E i \in DOMAIN inx, p \in 1..numMaxItems + 1, ki \in KeyItem :
       /\ Cardinality({n \in DOMAIN pairs : pairs[n] = ki}) < MaxPairs[ki]
       /\ Insert(i, p, ki)
  \/ \E i \in DOMAIN inx, p \in 1..numMaxItems : Delete(i, p)
  \/ CloseFlush
  \/ Close
  \/ Crash

Spec == Init /\ [][Next]_vars

-----------------------------------------------------------------------------
(* Every block number in the cache, in the file and in the in-memory index *)
(* names a block of the file, so no read is past its end (getFileBlock     *)
(* would fail and the buffer be lost).                                     *)
TypeOK ==
  /\ idx \in BlockFile(FileEnd(idx)) /\ idx.disk # <<>>
  /\ inx \in Seq(1..FileEnd(idx) - 1) /\ inxFile \in Seq(1..FileEnd(idx) - 1)
  /\ mode \in {"closed", "open", "flushed", "failed"}

(* removeLink and insertLink move a buffer between the free and the used   *)
(* list on every path: none is in them twice, and together they hold the   *)
(* whole cache, the Assert of the test driver, as long as the file ends    *)
(* where hdr->lastBlock says.                                              *)
PoolPartition ==
  /\ Distinct(idx.free) /\ Distinct(idx.used) /\ Disjoint(idx.free, idx.used)
  /\ mode \in {"open", "flushed"} /\ FileEnd(idx) = idx.lastBlock + 1 =>
       Len(idx.free) + Len(idx.used) = BLOCK_CACHE_SIZE

(* Two used buffers never hold the same block: an update of one copy would *)
(* be undone when the other is written back later.                         *)
NoTwin == OneBufferPerBlock(idx)

(* The control block is never parsed as key/items, though getIndexBlock(0) *)
(* is called for the neighbours of the first and the last block: the free  *)
(* buffer such a miss takes has overwritten it first.                      *)
ControlBlockNotParsed ==
  \A i \in DOMAIN idx.used : idx.buf[idx.used[i]].img.numKeyItems # HEADER

(* The blocks are linked in the order the in-memory index names them, both *)
(* ways and with 0 at the ends: nextIndexItem and prevIndexItem walk the   *)
(* same blocks as the searches.                                            *)
ChainLinked ==
  mode \in {"open", "flushed"} =>
    \A i \in DOMAIN inx :
      LET b == Logical(idx, inx[i])
      IN /\ b.prevBlock = (IF i = 1 THEN 0 ELSE inx[i - 1])
         /\ b.nextBlock = (IF i = Len(inx) THEN 0 ELSE inx[i + 1])

(* A block is split before it can hold more pairs than fit in the file.    *)
BlocksFit ==
  mode # "failed" => \A b \in Buffers : Len(idx.buf[b].list) <= numMaxItems

(* The cache is invisible: reads, evictions, splits, closing and opening   *)
(* lose no pair, double none and move none; the blocks hold what the calls *)
(* have asked for, wherever each block happens to be.                      *)
CacheIsInvisible ==
  mode # "failed" /\ (mode = "closed" => Accepted(idx)) => PairsIn(idx, inx) = pairs

(* Module ItemList is what index.c can rely on, after a crash too: files   *)
(* from different moments are refused, or hold a list there has been.      *)
List == INSTANCE ItemList WITH isOpen <- mode # "closed"
IsItemList == List!Spec
=============================================================================
