------------------------------- MODULE IdxBlk -------------------------------
(***************************************************************************)
(* The block file of an index (block.c) and the LRU cache of its blocks    *)
(* (idxblk.c).                                                             *)
(*                                                                         *)
(* Every operator takes a record x, the part of a dbIndex that the two     *)
(* files work on, and returns what the call leaves of it:                  *)
(*   disk       the block file; block n is its entry n+1, and block 0 the  *)
(*              control block                                              *)
(*   diskLast   hdr->lastBlock as stored in the control block              *)
(*   lastBlock  hdr->lastBlock in memory                                   *)
(*   buf        the idxBlock structures of the cache                       *)
(*   free,used  the two QUEUED lists of buffers, oldest first              *)
(*   blk        the buffer the call returned, NULL if it failed            *)
(***************************************************************************)
EXTENDS Integers, Sequences, SequencesExt

CONSTANTS
  BLOCK_CACHE_SIZE, (* buffers in the cache of an open index              *)
  numMaxItems,      (* key/item pairs a block holds before it is split    *)
  KeyItem           (* the key/item pairs, records with fields key, item  *)

(* splitBlock and deleteIndexItem hold three buffers at a time.            *)
ASSUME CacheSizeAssumption == BLOCK_CACHE_SIZE \in Nat /\ BLOCK_CACHE_SIZE >= 3
ASSUME MaxItemsAssumption  == numMaxItems \in Nat \ {0, 1}

Buffers == 1..BLOCK_CACHE_SIZE
NULL    == 0

(***************************************************************************)
(* Values of idxBlock.current that are not the position of a link of       *)
(* keyItemList: never set, the sentinels at the list's ends, and a link    *)
(* that has been freed or handed to another block since.                   *)
(***************************************************************************)
UNSET == 0
TAIL  == -1
GONE  == -2
HEAD  == -3

(***************************************************************************)
(* An image is a block as a sequence of bytes: the blockHeader and as many *)
(* key/items as were last copied into it.  HEADER, the first word of       *)
(* IDX_MAGIC read as numKeyItems, marks the control block.  Zeros is what  *)
(* the bytes behind the copied key/items read as.                          *)
(***************************************************************************)
HEADER == -1
Zeros  == [key |-> 0, item |-> 0]

ZeroImage    == [numKeyItems |-> 0, items |-> <<>>, prevBlock |-> 0, nextBlock |-> 0]
ControlBlock == [ZeroImage EXCEPT !.numKeyItems = HEADER]

NewBuffer ==
  [blockNumber |-> 0, img |-> ZeroImage, list |-> <<>>, sized |-> FALSE,
   isDirty |-> FALSE, current |-> UNSET]

(* The image blockToList finds in the block: numKeyItems pairs.            *)
BlockToList(img) ==
  [i \in 1..img.numKeyItems |->
     IF i \in DOMAIN img.items THEN img.items[i] ELSE Zeros]

(* Mutant: numKeyItems is not set first.                                   *)
ListUncounted(c) == [c EXCEPT !.img.items = IF c.sized THEN c.list ELSE @]

(* listToBlock after numKeyItems is set: itemSize is 0 until the buffer    *)
(* has been used once, and nothing is copied then.                         *)
ListToBlock(c) ==
  [c EXCEPT !.img.numKeyItems = Len(c.list),
            !.img.items = IF c.sized THEN c.list ELSE @]

(* clearList frees every link of the list.                                 *)
ClearList(c) ==
  [c EXCEPT !.list = <<>>,
            !.current = IF c.current > 0 THEN GONE ELSE @]

(* Buffer b becomes c.                                                     *)
SetBuffer(x, b, c) == [x EXCEPT !.buf[b] = c]

(***************************************************************************)
(* What the fields of x can hold when the file has n blocks: every block   *)
(* number in them names a block of the file.                               *)
(***************************************************************************)
Items    == Seq(KeyItem \cup {Zeros})
Image(n) ==
  [numKeyItems : Int, items : Items, prevBlock : 0..n - 1, nextBlock : 0..n - 1]
Buffer(n) ==
  [blockNumber : 0..n - 1, img : Image(n), list : Items, sized : BOOLEAN,
   isDirty : BOOLEAN, current : Int]
BlockFile(n) ==
  [disk : Seq(Image(n)), diskLast : Nat, lastBlock : Nat,
   buf : [Buffers -> Buffer(n)], free : Seq(Buffers), used : Seq(Buffers),
   blk : Buffers \cup {NULL}]

-----------------------------------------------------------------------------
(* block.c                                                                 *)

FileEnd(x) == Len(x.disk)

GetFileBlock(x, n) == x.disk[n + 1]

PutFileBlock(x, b) ==
  [x EXCEPT !.disk[x.buf[b].blockNumber + 1] = x.buf[b].img]

(* Mutant: the file is not positioned at its end.                          *)
AppendInPlace(x, b) == PutFileBlock(x, b)

AppendFileBlock(x, b) == [x EXCEPT !.disk = Append(@, x.buf[b].img)]

CreateBlockFile == <<ControlBlock>>

(* The control block, with the header in it, is written last.              *)
CloseBlockFile(x) == [x EXCEPT !.disk[1] = ControlBlock, !.diskLast = x.lastBlock]

-----------------------------------------------------------------------------
(* idxblk.c                                                                *)

(* A dbIndex that is not open, and the one createIndexFile leaves.         *)
Closed(x) ==
  [x EXCEPT !.buf = [b \in Buffers |-> NewBuffer], !.free = <<>>, !.used = <<>>,
            !.lastBlock = 0, !.blk = NULL]

CreateIndexFile ==
  [disk |-> CreateBlockFile, diskLast |-> 0, lastBlock |-> 0,
   buf |-> [b \in Buffers |-> NewBuffer],
   free |-> <<>>, used |-> <<>>, blk |-> NULL]

(* Mutant: the magic number is not tested.                                 *)
AcceptedAlways(x) == TRUE

(* openIndex refuses a file whose block 0 does not start with IDX_MAGIC.   *)
Accepted(x) == GetFileBlock(x, 0).numKeyItems = HEADER

OpenIndex(x) == [x EXCEPT !.free = [b \in Buffers |-> b], !.lastBlock = x.diskLast]

(* insertLink into used: the buffer is its youngest.                       *)
Use(x, b) == [x EXCEPT !.used = Append(@, b), !.blk = b]

(* Mutant: the search ends one buffer too early.                           *)
HitsButYoungest(x, n) ==
  {i \in 1..Len(x.used) - 1 : x.buf[x.used[i]].blockNumber = n}

(* The positions in used of the buffers that hold block n.                 *)
Hits(x, n) == {i \in DOMAIN x.used : x.buf[x.used[i]].blockNumber = n}

(* Mutant: the buffer is not removed from its old place.                   *)
TouchTwice(x, i) == Use(x, x.used[i])

(* A hit moves the buffer to the young end of used.                        *)
Touch(x, i) == Use([x EXCEPT !.used = RemoveAt(@, i)], x.used[i])

Exhausted(x) == x.free = <<>> /\ x.used = <<>>

(* The buffer a miss reuses: the first free one, or else the oldest used.  *)
Victim(x) == IF x.free # <<>> THEN Head(x.free) ELSE Head(x.used)

TakeVictim(x) == IF x.free # <<>> THEN [x EXCEPT !.free = Tail(@)]
                                  ELSE [x EXCEPT !.used = Tail(@)]

Flush(x, b) == PutFileBlock(SetBuffer(x, b, ListToBlock(x.buf[b])), b)

(* A buffer after block n, with contents img, has been read into it.       *)
Filled(c, n, img) ==
  [ClearList(c) EXCEPT !.blockNumber = n, !.img = img, !.list = BlockToList(img),
                       !.isDirty = TRUE, !.sized = TRUE]

(* Mutant: a free victim is not written back, as in getNewBlock.           *)
LoadOverFree(x, n) ==
  LET b == Victim(x)
      t == TakeVictim(x)
      y == IF x.free # <<>> THEN t ELSE Flush(t, b)
  IN Use(SetBuffer(y, b, Filled(y.buf[b], n, GetFileBlock(y, n))), b)

(* The second half of getIndexBlock: the victim is written back whether it *)
(* was used or free, then filled from the file.                            *)
Load(x, n) ==
  LET b == Victim(x)
      y == Flush(TakeVictim(x), b)
  IN Use(SetBuffer(y, b, Filled(y.buf[b], n, GetFileBlock(y, n))), b)

GetIndexBlock(x, n) ==
  IF Hits(x, n) # {} THEN Touch(x, Max(Hits(x, n)))
  ELSE IF Exhausted(x) THEN [x EXCEPT !.blk = NULL]
  ELSE Load(x, n)

(* getNewBlock(idx, idx->hdr->lastBlock + 1): a used victim is written     *)
(* back, a free one is not.  The buffer is lost when the file does not end *)
(* where lastBlock says.                                                   *)
GetNewBlock(x) ==
  LET b == Victim(x)
      t == TakeVictim(x)
      y == IF x.free # <<>> THEN t ELSE Flush(t, b)
      z == AppendFileBlock(SetBuffer(y, b, ClearList(y.buf[b])), b)
  IN IF Exhausted(x) THEN [x EXCEPT !.blk = NULL]
     ELSE IF FileEnd(x) # x.lastBlock + 1 THEN [z EXCEPT !.blk = NULL]
     ELSE Use(SetBuffer(z, b, [z.buf[b] EXCEPT !.blockNumber = FileEnd(x)]), b)

(* Mutant: the test is off by one.                                         *)
OverflowsLate(l) == Len(l) > numMaxItems + 1

(* A list that is longer than its block has room for has to be split.      *)
Overflows(l) == Len(l) > numMaxItems

(* Moving the top half of l to a list of its own.                          *)
Kept(l)  == Len(l) - (Len(l) \div 2)
Moved(l) == SubSeq(l, Kept(l) + 1, Len(l))

BottomHalf(c) ==
  ListToBlock([c EXCEPT !.list = SubSeq(c.list, 1, Kept(c.list)),
                        !.current = IF @ > Kept(c.list) THEN GONE ELSE @])

TopHalf(c, l) ==
  [ListToBlock([c EXCEPT !.list = Moved(l)]) EXCEPT !.isDirty = TRUE]

(* blk->itemSize is set.                                                   *)
Sized(c) == [c EXCEPT !.sized = TRUE]

SetPrev(c, n) == [c EXCEPT !.img.prevBlock = n]
SetNext(c, n) == [c EXCEPT !.img.nextBlock = n]

(* Mutant: the new block does not point back.                              *)
LinkForward(x, b, r, n) ==
  LET y == SetBuffer(x, r, SetNext(x.buf[r], x.buf[b].img.nextBlock))
  IN SetBuffer(y, b, SetNext(y.buf[b], n))

(* The block of buffer r, number n, is linked in behind that of buffer b.  *)
LinkAfter(x, b, r, n) ==
  LET y == SetBuffer(x, r, SetPrev(SetNext(x.buf[r], x.buf[b].img.nextBlock),
                                   x.buf[b].blockNumber))
  IN SetBuffer(y, b, SetNext(y.buf[b], n))

(* splitBlock: the block of buffer b gives its top half to a new block     *)
(* that follows it.  Both are written to the file before their prevBlock   *)
(* and nextBlock are set.  The block that followed, or block 0 if none     *)
(* did, is fetched to point back at the new one.                           *)
SplitBlock(x, b) ==
  LET g == GetNewBlock(x)
      r == g.blk
      n == x.lastBlock + 1
      h == SetBuffer(SetBuffer([g EXCEPT !.lastBlock = n], b, BottomHalf(g.buf[b])),
                     r, TopHalf(g.buf[r], x.buf[b].list))
      w == PutFileBlock(PutFileBlock(h, b), r)
      s == LinkAfter(SetBuffer(w, r, Sized(w.buf[r])), b, r, n)
      f == GetIndexBlock(s, x.buf[b].img.nextBlock)
  IN IF r = NULL THEN g
     ELSE [SetBuffer(f, f.blk, SetPrev(f.buf[f.blk], n)) EXCEPT !.blk = r]

(* flushIndexBlocks: every dirty used buffer, oldest first, to the file.   *)
FlushIndexBlocks(x) ==
  LET Dirty == {b \in Range(x.used) : x.buf[b].isDirty}
      Held(k) == {b \in Dirty : x.buf[b].blockNumber + 1 = k}
      Img(b) == ListToBlock(x.buf[b]).img
  IN [x EXCEPT
        !.disk = [k \in DOMAIN x.disk |->
                    IF Held(k) # {} THEN Img(CHOOSE b \in Held(k) : TRUE)
                                    ELSE x.disk[k]],
        !.buf = [b \in Buffers |->
                    IF b \in Dirty
                      THEN [ListToBlock(x.buf[b]) EXCEPT !.isDirty = FALSE]
                      ELSE x.buf[b]]]

-----------------------------------------------------------------------------
(* What index.c does to the block it has just been given.                  *)

(* insertLink of ki before position p of the list.                         *)
WithItem(c, p, ki) ==
  [c EXCEPT !.list = InsertAt(@, p, ki),
            !.current = IF @ >= p THEN @ + 1 ELSE @]

InsertItem(x, b, p, ki) == SetBuffer(x, b, WithItem(x.buf[b], p, ki))

(* removeLink of position p.  blk->current becomes the link behind it, and *)
(* numKeyItems, which insertLink left alone, is counted down.              *)
WithoutItem(c, p) ==
  [c EXCEPT !.list = RemoveAt(@, p),
            !.current = IF p = Len(c.list) THEN TAIL ELSE p,
            !.img.numKeyItems = @ - 1,
            !.isDirty = TRUE]

RemoveItem(x, b, p) == SetBuffer(x, b, WithoutItem(x.buf[b], p))

(* numKeyItems is set to what the list has.                                *)
Counted(c) == [c EXCEPT !.img.numKeyItems = Len(c.list)]

(* The block of the very first key/item pair.                              *)
FirstBlock(x, ki) ==
  LET g == GetNewBlock(x)
      b == g.blk
      c == Counted(WithItem(g.buf[b], 1, ki))
  IN IF b = NULL THEN g
     ELSE [SetBuffer(g, b, Sized([SetPrev(SetNext(c, 0), 0) EXCEPT !.isDirty = TRUE]))
             EXCEPT !.lastBlock = @ + 1]

(* The neighbours of the block of buffer b are linked to each other and    *)
(* written; blk is the buffer of the following one.                        *)
LinkNeighbours(x, b) ==
  LET p == GetIndexBlock(x, x.buf[b].img.prevBlock)
      q == GetIndexBlock(p, x.buf[b].img.nextBlock)
      l == SetBuffer(q, p.blk, SetNext(q.buf[p.blk], q.buf[q.blk].blockNumber))
      m == SetBuffer(l, q.blk, SetPrev(l.buf[q.blk], q.buf[p.blk].blockNumber))
  IN PutFileBlock(PutFileBlock(m, p.blk), q.blk)

FreeYoungest(x) == [x EXCEPT !.free = Append(@, Last(x.used)), !.used = Front(@)]

(* deleteIndexItem once the block of buffer b is empty: it is written and  *)
(* unlinked, and its buffer is meant to go to the free list.  The test     *)
(* that looks for the buffer compares the block number with ki->item       *)
(* instead, and the buffer it then moves is the youngest one.              *)
UnlinkBlock(x, b, ki) ==
  LET w == LinkNeighbours(PutFileBlock(x, b), b)
  IN IF ki.item = x.buf[b].blockNumber THEN FreeYoungest(w) ELSE w

-----------------------------------------------------------------------------
(* What block n holds, whether it is in the cache or only in the file.     *)
Logical(x, n) ==
  IF Hits(x, n) # {}
    THEN LET b == x.buf[x.used[Max(Hits(x, n))]]
         IN [list |-> b.list, prevBlock |-> b.img.prevBlock, nextBlock |-> b.img.nextBlock]
    ELSE LET i == GetFileBlock(x, n)
         IN [list |-> BlockToList(i), prevBlock |-> i.prevBlock, nextBlock |-> i.nextBlock]

(* The pairs of the blocks of a shell, in its order.                      *)
PairsIn(x, blocks) == FlattenSeq([i \in DOMAIN blocks |-> Logical(x, blocks[i]).list])

(* No buffer twice in a list, nor in both; no block in two used buffers.   *)
Distinct(s)    == \A i, j \in DOMAIN s : s[i] = s[j] => i = j
Disjoint(s, t) == \A i \in DOMAIN s, j \in DOMAIN t : s[i] # t[j]

OneBufferPerBlock(x) ==
  \A i, j \in DOMAIN x.used :
    x.buf[x.used[i]].blockNumber = x.buf[x.used[j]].blockNumber => i = j
=============================================================================
