------------------------------ MODULE IndexFile ------------------------------
(***************************************************************************)
(* index.c: the ordered index.  The blocks of module IdxBlk are named, in  *)
(* order, by an in-memory index (a shell, sort.c) that holds the first key *)
(* and the number of each.                                                 *)
(*                                                                         *)
(* An operator takes the record s of an open index, which has the fields   *)
(*   cache        the record of IdxBlk: the block file and its buffers     *)
(*   isUnique     hdr->isUnique, the argument of createIndexFile           *)
(*   shell        idx->inx: a sequence of treeKeys, key and block number   *)
(*   hasShell     idx->inx has been made by initShell or retrieveShell     *)
(*   numItems     hdr->numItems                                            *)
(*   idxError     the global error variable, never reset by a call         *)
(*   shlError     shl->shlError is set                                     *)
(*   current      idx->current, the buffer a sequential read continues in  *)
(*   isSequential, bof, eof                                                *)
(*   ret          the pair the call returned (addIndexItem: the pair it    *)
(*                stored), Zeros for NULL and _ERROR_                      *)
(* and returns it as the call leaves it.                                   *)
(***************************************************************************)
EXTENDS IdxBlk, FiniteSets

CONSTANT
  SUFFIXES   (* a key is prefix * SUFFIXES + suffix, the suffix standing   *)
             (* for its last bytes; keys are ordered as these numbers      *)

ASSUME SuffixAssumption == SUFFIXES \in Nat \ {0}

(* The bytes before the suffix of key k, and the suffix of key old.        *)
ShortCopy(k, old) == (k \div SUFFIXES) * SUFFIXES + (old % SUFFIXES)

(* The positions in a block's list: of the first pair with key k, and of   *)
(* the pair ki; 0 if there is none.                                        *)
KeyPos(l, k)   == SelectInSeq(l, LAMBDA e : e.key = k)
PairPos(l, ki) == SelectInSeq(l, LAMBDA e : e = ki)

ItemsOf(s) == s.cache.buf[s.cache.blk].list

NoPair(s)   == [s EXCEPT !.ret = Zeros]
Fail(s, e)  == [s EXCEPT !.ret = Zeros, !.idxError = e]

-----------------------------------------------------------------------------
(* queryShellItem for key k: the first equal treeKey, or else the one      *)
(* before the first greater one.                                           *)
Query(s, k) ==
  LET NotBelow == {i \in DOMAIN s.shell : k <= s.shell[i].key}
      i == Min(NotBelow)
  IN IF NotBelow = {} THEN Len(s.shell)
     ELSE IF k = s.shell[i].key \/ i = 1 THEN i
     ELSE i - 1

(* The block that treeKey i names is brought into the cache.               *)
Visit(s, i) == [s EXCEPT !.cache = GetIndexBlock(@, s.shell[i].item)]

(* Mutant: the block before is never looked at.                            *)
NeverBefore(s, i, k) == FALSE

(* With duplicates, the block before the one found may end with the key.   *)
BlockBefore(s, i, k) == ~s.isUnique /\ i > 1 /\ s.shell[i].key = k

(* The cursor is put on position p of the block just visited.              *)
Seek(s, p) ==
  [s EXCEPT !.isSequential = TRUE, !.bof = FALSE, !.eof = FALSE,
            !.current = s.cache.blk, !.cache.buf[s.cache.blk].current = p,
            !.ret = ItemsOf(s)[p]]

EmptyShell(s) == [Fail(s, "IDX_UNSTABLE") EXCEPT !.shlError = TRUE]

(* The block found is looked at, after the one before it if that may have  *)
(* the key too.                                                            *)
SearchExactIndexItem(s, k) ==
  LET i == Query(s, k)
      Found(b, OrElse(_)) ==
        IF KeyPos(ItemsOf(b), k) # 0 THEN Seek(b, KeyPos(ItemsOf(b), k)) ELSE OrElse(b)
      Look(b) == Found(Visit(b, i), NoPair)
  IN IF s.shell = <<>> THEN EmptyShell(s)
     ELSE IF BlockBefore(s, i, k) THEN Found(Visit(s, i - 1), Look)
     ELSE Look(s)

SearchIndexItem(s, k) ==
  LET i == Query(s, k)
      Found(b, OrElse(_)) ==
        IF ItemsOf(b) = <<>> THEN NoPair(b)
        ELSE IF KeyPos(ItemsOf(b), k) # 0 THEN Seek(b, KeyPos(ItemsOf(b), k))
        ELSE OrElse(b)
      Best(b) == Seek(b, Max({1} \cup {p \in DOMAIN ItemsOf(b) : ItemsOf(b)[p].key < k}))
      Look(b) == Found(Visit(b, i), Best)
  IN IF s.shell = <<>> THEN EmptyShell(s)
     ELSE IF BlockBefore(s, i, k) THEN Found(Visit(s, i - 1), Look)
     ELSE Look(s)

FirstIndexItem(s) ==
  LET a == Visit(s, 1)
  IN IF s.shell = <<>> THEN NoPair(s)
     ELSE IF ItemsOf(a) = <<>> THEN Fail(a, "IDX_UNSTABLE")
     ELSE [Seek(a, 1) EXCEPT !.bof = TRUE]

LastIndexItem(s) ==
  LET a == Visit(s, Len(s.shell))
  IN IF s.shell = <<>> THEN NoPair(s)
     ELSE IF ItemsOf(a) = <<>> THEN Fail(a, "IDX_UNSTABLE")
     ELSE [Seek(a, Len(ItemsOf(a))) EXCEPT !.eof = TRUE]

(* The links at the two ends of a list, which may be its sentinels.        *)
FirstLink(l) == IF l = <<>> THEN TAIL ELSE 1
LastLink(l)  == IF l = <<>> THEN HEAD ELSE Len(l)

(* nextIndexItem and prevIndexItem return at once without a cursor.        *)
NoCursor(s) ==
  s.shell = <<>> \/ s.current = NULL \/ s.cache.buf[s.current].current = UNSET

Dangling(s) == ~NoCursor(s) /\ s.cache.buf[s.current].current = GONE

(* Mutant: idx->current stays with the block that was left.                *)
EnterBehind(s, p) ==
  IF ItemsOf(s) = <<>> THEN Fail(s, "IDX_UNSTABLE")
  ELSE [s EXCEPT !.cache.buf[s.cache.blk].current = p, !.ret = ItemsOf(s)[p]]

(* The cursor moves to link p of the block just visited, if it has one.    *)
Enter(s, p) ==
  LET t == [s EXCEPT !.current = s.cache.blk]
  IN IF ItemsOf(t) = <<>> THEN Fail(t, "IDX_UNSTABLE")
     ELSE [t EXCEPT !.cache.buf[s.cache.blk].current = p, !.ret = ItemsOf(t)[p]]

NextIndexItem(s) ==
  LET b == s.current
      l == s.cache.buf[b].list
      c == s.cache.buf[b].current
      p == IF c = HEAD THEN FirstLink(l)
           ELSE IF c = TAIL \/ c = Len(l) THEN TAIL
           ELSE c + 1
      n == s.cache.buf[b].img.nextBlock
      a == [s EXCEPT !.cache = GetIndexBlock(@, n)]
  IN IF ~s.isSequential THEN Fail(s, "IDX_SEQUENCE")
     ELSE IF NoCursor(s) THEN NoPair(s)
     ELSE IF p # TAIL THEN [s EXCEPT !.cache.buf[b].current = p, !.ret = l[p]]
     ELSE IF n = 0
       THEN [NoPair(s) EXCEPT !.cache.buf[b].current = LastLink(l), !.eof = TRUE]
     ELSE Enter(a, 1)

(* As the code has it: at the beginning, eof is set and not bof.           *)
PrevIndexItem(s) ==
  LET b == s.current
      l == s.cache.buf[b].list
      c == s.cache.buf[b].current
      p == IF c = TAIL THEN LastLink(l)
           ELSE IF c = HEAD \/ c = 1 THEN HEAD
           ELSE c - 1
      n == s.cache.buf[b].img.prevBlock
      a == [s EXCEPT !.cache = GetIndexBlock(@, n)]
  IN IF ~s.isSequential THEN Fail(s, "IDX_SEQUENCE")
     ELSE IF NoCursor(s) THEN NoPair(s)
     ELSE IF p # HEAD THEN [s EXCEPT !.cache.buf[b].current = p, !.ret = l[p]]
     ELSE IF n = 0
       THEN [NoPair(s) EXCEPT !.cache.buf[b].current = FirstLink(l), !.eof = TRUE]
     ELSE Enter(a, Len(ItemsOf(a)))

-----------------------------------------------------------------------------
(* After splitBlock: the new block gets a treeKey behind treeKey i.        *)
NameNewBlock(s, i) ==
  IF s.cache.blk = NULL THEN Fail(s, "IDX_UNSTABLE")
  ELSE [s EXCEPT !.shell = InsertAt(@, i + 1,
          [key |-> ItemsOf(s)[1].key, item |-> s.cache.buf[s.cache.blk].blockNumber])]

SplitIfLong(s, i, b) ==
  IF Overflows(s.cache.buf[b].list)
    THEN NameNewBlock([s EXCEPT !.cache = SplitBlock(@, b)], i) ELSE s

(* insertLink of ki, after its equals, into the block just visited, that   *)
(* treeKey i names; a block that overflows gives its top half to a new     *)
(* one, whose treeKey follows.                                             *)
Place(s, i, ki) ==
  LET p == 1 + Cardinality({q \in DOMAIN ItemsOf(s) : ItemsOf(s)[q].key <= ki.key})
      b == s.cache.blk
  IN SplitIfLong([s EXCEPT !.cache = InsertItem(@, b, p, ki),
                           !.numItems = @ + 1, !.ret = ki], i, b)

AddFirst(s, ki) ==
  LET a == [s EXCEPT !.cache = FirstBlock(@, ki)]
  IN IF a.cache.blk = NULL THEN [Fail(a, "IDX_UNSTABLE") EXCEPT !.hasShell = TRUE]
     ELSE [a EXCEPT !.hasShell = TRUE, !.numItems = @ + 1, !.ret = ki,
                    !.shell = <<[key |-> ki.key, item |-> a.cache.lastBlock]>>]

(* The first block is visited for a key below all others, which replaces   *)
(* the first treeKey, but for the last bytes: itemSize - sizeof (keyItem)  *)
(* of them are copied.                                                     *)
LowerFirst(s, k) == [Visit(s, 1) EXCEPT !.shell[1].key = ShortCopy(k, @)]

(* A pair below all others goes into the first block without a look at     *)
(* uniqueness.                                                             *)
AddIndexItem(s, ki) ==
  LET k == ki.key
      below == k < s.shell[1].key
      i == IF below THEN 1 ELSE Query(s, k)
      searched == s.isUnique /\ ~below
      Searched(u) ==
        IF searched /\ u.ret # Zeros THEN Fail(u, "IDX_UNIQUE")
        ELSE IF searched /\ u.idxError # "IDX_NOERR" THEN NoPair(u)
        ELSE Place(IF below THEN LowerFirst(u, k) ELSE Visit(u, i), i, ki)
  IN IF s.shell = <<>> THEN AddFirst(s, ki)
     ELSE Searched(IF searched THEN SearchExactIndexItem(s, k) ELSE s)

-----------------------------------------------------------------------------
(* treeKey i, of the block just unlinked, is removed.                      *)
Forget(u, i) == [u EXCEPT !.shell = RemoveAt(@, i), !.current = u.cache.blk]

(* Mutant: hdr->numItems is not counted down.                              *)
AfterRemoveUncounted(s, i, ki) ==
  LET b == s.cache.blk
      u == [s EXCEPT !.cache = UnlinkBlock(@, b, ki)]
      t == IF ItemsOf(s) = <<>> THEN Forget(u, i) ELSE [s EXCEPT !.current = b]
  IN [t EXCEPT !.ret = ki]

(* The pair at position p of the block just visited has been removed,      *)
(* which leaves s.  If the block is empty it is unlinked and treeKey i     *)
(* goes; otherwise the cursor stays in it.                                 *)
AfterRemove(s, i, ki) ==
  LET b == s.cache.blk
      u == [s EXCEPT !.cache = UnlinkBlock(@, b, ki)]
      t == IF ItemsOf(s) = <<>> THEN Forget(u, i) ELSE [s EXCEPT !.current = b]
  IN [t EXCEPT !.numItems = @ - 1, !.ret = ki]

(* removeLink of position p of the block just visited, and the setting of  *)
(* its numKeyItems.                                                        *)
Without(s, p) == [s EXCEPT !.cache = RemoveItem(@, s.cache.blk, p)]
Recounted(s)  == [s EXCEPT !.cache.buf[s.cache.blk] = Counted(@)]

(* Position p of the block before treeKey i: a numKeyItems that is not     *)
(* that of the list, as insertLink leaves it, is an error, and it is       *)
(* treeKey i that goes if the block is empty.                              *)
RemoveBefore(s, i, p) ==
  LET y == Without(s, p)
      n == y.cache.buf[y.cache.blk].img.numKeyItems
  IN IF n # Len(ItemsOf(y)) THEN Fail(y, "IDX_UNSTABLE")
     ELSE AfterRemove(y, i, ItemsOf(s)[p])

(* Mutant: the treeKey keeps the key of the pair that is gone.             *)
RemoveHereOnly(s, i, p) ==
  AfterRemove(Recounted(Without(s, p)), i, ItemsOf(s)[p])

(* Position p of the block of treeKey i: numKeyItems is set right, and the *)
(* treeKey follows the first pair.                                         *)
RemoveHere(s, i, p) ==
  LET y == Recounted(Without(s, p))
      l == ItemsOf(y)
      z == [y EXCEPT !.shell[i].key = IF p = 1 /\ l # <<>> THEN l[1].key ELSE @]
  IN AfterRemove(z, i, ItemsOf(s)[p])

(* The loop over treeKeys ends at i if the block has the pair, or a        *)
(* greater key after those equal to ki.key, or is the last to look at.     *)
LoopEnds(s, i, ki) ==
  LET l == Logical(s.cache, s.shell[i].item).list
      isLast == i = Len(s.shell)
  IN \/ isLast
     \/ PairPos(l, ki) # 0
     \/ KeyPos(l, ki.key) # 0 /\ Last(l).key # ki.key
     \/ l # <<>> /\ s.shell[i + 1].key # ki.key

DeleteIndexItem(s, ki) ==
  LET k == ki.key
      queried == k # s.shell[1].key
      f == IF queried THEN Query(s, k) ELSE 1
      before == queried /\ BlockBefore(s, f, k)
      a == Visit(s, f - 1)
      (* once the key is met, only items are compared *)
      q == SelectInSubSeq(ItemsOf(a), KeyPos(ItemsOf(a), k), Len(ItemsOf(a)),
                          LAMBDA e : e.item = ki.item)
      t == IF before THEN a ELSE s
      j == Min({i \in f..Len(s.shell) : LoopEnds(t, i, ki)})
      v == FoldLeft(Visit, t, [n \in 1..(j - f + 1) |-> f + n - 1])
      p == PairPos(ItemsOf(v), ki)
  IN IF queried /\ s.shlError THEN [Fail(s, "IDX_SHELL") EXCEPT !.shlError = FALSE]
     ELSE IF before /\ KeyPos(ItemsOf(a), k) # 0 /\ q # 0 THEN RemoveBefore(a, f, q)
     ELSE IF p # 0 THEN RemoveHere(v, j, p)
     ELSE Fail(v, "IDX_NEXISTS")

(* closeIndexFile; the dbIndex is gone, the error variable is not.         *)
CloseIndexFile(s) ==
  [s EXCEPT
     !.cache = Closed(CloseBlockFile(FlushIndexBlocks(@))),
     !.shlError = FALSE, !.current = NULL,
     !.isSequential = FALSE, !.bof = FALSE, !.eof = FALSE]

-----------------------------------------------------------------------------
(* The blocks in the order of their treeKeys, and the pairs in them.       *)
BlocksOf(s) == [i \in DOMAIN s.shell |-> s.shell[i].item]
PairsOf(s)  == PairsIn(s.cache, BlocksOf(s))

(* The position in PairsOf(s) of the pair a scan stands on: 0 before a     *)
(* search has begun one, and -1 if it is not on a pair of a block that the *)
(* in-memory index names.                                                  *)
CursorOf(s) ==
  LET b == s.cache.buf[s.current]
      i == SelectInSeq(BlocksOf(s), LAMBDA n : n = b.blockNumber)
      before == SubSeq(BlocksOf(s), 1, i - 1)
  IN IF ~s.isSequential THEN 0
     ELSE IF NoCursor(s) THEN -1
     ELSE IF b.current <= 0 \/ i = 0 THEN -1
     ELSE Len(PairsIn(s.cache, before)) + b.current

(* The index createIndexFile makes, before it is opened.                   *)
NewIndex(isUnique) ==
  [cache |-> CreateIndexFile, isUnique |-> isUnique, shell |-> <<>>, hasShell |-> FALSE,
   numItems |-> 0, idxError |-> "IDX_NOERR", shlError |-> FALSE, current |-> NULL,
   isSequential |-> FALSE, bof |-> FALSE, eof |-> FALSE, ret |-> Zeros]
=============================================================================
