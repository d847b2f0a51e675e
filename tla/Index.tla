------------------------------- MODULE Index -------------------------------
(***************************************************************************)
(* One index and a program that makes any calls of index.c on it, opens it *)
(* and closes it.                                                          *)
(***************************************************************************)
EXTENDS IndexFile

CONSTANTS
  Uses,      (* the pairs and the calls used with an index that is unique  *)
             (* and with one that is not: a function of isUnique           *)
  MaxBlocks, (* bound on the blocks appended to the file                   *)
  MaxPairs   (* bound on the key/item pairs stored                         *)

(* No pair is what NULL is taken for.                                      *)
ASSUME UsesAssumption ==
  /\ \A ki \in KeyItem : ki.key \in Nat
  /\ Zeros \notin KeyItem
  /\ DOMAIN Uses \subseteq BOOLEAN
  /\ \A u \in DOMAIN Uses : Uses[u].pairs \subseteq KeyItem
  /\ MaxBlocks \in Nat

(* Where index.c does not keep what it promises, and with it what is       *)
(* promised of the uses that stay clear of that:                           *)
(* the test for the buffer to free compares an item with a block number    *)
(* (index.c:1113), so items that are block numbers free the wrong buffer;  *)
(* in an index with duplicates deleteIndexItem takes a pair from the block *)
(* before without counting (index.c:880);                                  *)
(* a key below all others is copied into the first treeKey but for its     *)
(* last bytes (index.c:631).                                               *)
ItemsAreNoBlocks ==
  \A u \in DOMAIN Uses : "delete" \in Uses[u].calls =>
    \A ki \in Uses[u].pairs : ki.item \notin 1..MaxBlocks
DeletesAreUnique == \A u \in DOMAIN Uses : "delete" \in Uses[u].calls => u
OneSuffix ==
  \A u \in DOMAIN Uses : \A a, b \in Uses[u].pairs :
    a.key % SUFFIXES = b.key % SUFFIXES
WellUsed == ItemsAreNoBlocks /\ DeletesAreUnique /\ OneSuffix

VARIABLES db,     (* the record of module IndexFile; while the index is closed *)
                  (* shell and numItems are what the files hold            *)
          isOpen,
          pairs,  (* the pairs of the blocks the shell names, in order     *)
          cursor  (* where in pairs a scan stands                          *)

vars == <<db, isOpen, pairs, cursor>>

(* The pairs, the keys and the calls this index is used with.              *)
UsedPairs == Uses[db.isUnique].pairs
Keys == {ki.key : ki \in UsedPairs}
Calls == Uses[db.isUnique].calls

-----------------------------------------------------------------------------
Init ==
  /\ \E isUnique \in DOMAIN Uses : db = NewIndex(isUnique)
  /\ isOpen = FALSE
  /\ pairs = <<>> /\ cursor = 0

Open ==
  /\ ~isOpen
  /\ isOpen' = TRUE
  /\ db' = [db EXCEPT !.cache = OpenIndex(@)]
  /\ UNCHANGED <<pairs, cursor>>

Close ==
  /\ isOpen
  /\ isOpen' = FALSE
  /\ db' = CloseIndexFile(db)
  /\ cursor' = 0
  /\ UNCHANGED pairs

Do(call, s) ==
  /\ isOpen /\ call \in Calls
  /\ db' = s
  /\ pairs' = PairsOf(s)
  /\ cursor' = CursorOf(s)
  /\ UNCHANGED isOpen

Add(ki) ==
  /\ Len(pairs) < MaxPairs /\ FileEnd(db.cache) <= MaxBlocks
  /\ Do("add", AddIndexItem(db, ki))

(* deleteIndexItem looks at the first treeKey before anything else.        *)
Delete(ki)     == db.shell # <<>> /\ Do("delete", DeleteIndexItem(db, ki))
SearchExact(k) == db.hasShell /\ Do("searchExact", SearchExactIndexItem(db, k))
Search(k)      == db.hasShell /\ Do("search", SearchIndexItem(db, k))
FirstItem      == db.hasShell /\ Do("first", FirstIndexItem(db))
LastItem       == db.hasShell /\ Do("last", LastIndexItem(db))
NextItem       == db.hasShell /\ ~Dangling(db) /\ Do("next", NextIndexItem(db))
PrevItem       == db.hasShell /\ ~Dangling(db) /\ Do("prev", PrevIndexItem(db))

(* A cursor whose link was freed: the call returns what it finds there.    *)
WildItem ==
  /\ db.hasShell /\ Dangling(db) /\ db.isSequential
  /\ \E ki \in UsedPairs \cup {Zeros} : Do("next", [db EXCEPT !.ret = ki])

(* The program clears the error variable.                                  *)
ClearError ==
  /\ isOpen
  /\ db' = [db EXCEPT !.idxError = "IDX_NOERR"]
  /\ UNCHANGED <<isOpen, pairs, cursor>>

Next ==
  \/ Open \/ Close \/ ClearError
  \/ \E ki \in UsedPairs : Add(ki) \/ Delete(ki)
  \/ \E k \in Keys : SearchExact(k) \/ Search(k)
  \/ FirstItem \/ LastItem \/ NextItem \/ PrevItem \/ WildItem

Spec == Init /\ [][Next]_vars

-----------------------------------------------------------------------------
(* The index is the sorted list its callers take it for, and every call    *)
(* returns what that list holds: whatever is in the cache, wherever a      *)
(* block has been split or unlinked, and across a close and an open.       *)
Sorted == INSTANCE SortedIndex WITH idxError <- db.idxError, ret <- db.ret,
                                    isUnique <- db.isUnique
IsSortedIndex == Sorted!Spec

(* hdr->numItems, counted up and down by the calls and never recomputed,   *)
(* is the number of pairs a scan of the blocks finds ("numItems is the     *)
(* number of items stored in the index", index.h).                         *)
NumItemsExact == db.numItems = Len(pairs)

(* What the shell says of the blocks is so: each treeKey has the key of    *)
(* the first pair of its block, no block is empty, and the blocks are      *)
(* linked in the order of their treeKeys, so that a scan along nextBlock   *)
(* or prevBlock and the searches agree.                                    *)
ShellNamesFirstKeys ==
  \A i \in DOMAIN db.shell :
    LET b == Logical(db.cache, db.shell[i].item)
    IN /\ b.list # <<>> /\ b.list[1].key = db.shell[i].key
       /\ b.prevBlock = (IF i = 1 THEN 0 ELSE db.shell[i - 1].item)
       /\ b.nextBlock = (IF i = Len(db.shell) THEN 0 ELSE db.shell[i + 1].item)

(* The pair at position p, or nothing past the ends.                       *)
PairAt(p) == IF p \in DOMAIN pairs THEN pairs[p] ELSE Zeros

(* A scan is exact wherever it has got to: a nextIndexItem would return    *)
(* the successor of the cursor's pair and a prevIndexItem the predecessor, *)
(* and the cursor would go with them, though they read over the buffers of *)
(* other blocks; only at the ends do they return nothing, and there the    *)
(* cursor stays, and the end is flagged.                                   *)
ScanIsExact ==
  LET next == NextIndexItem(db)
      prev == PrevIndexItem(db)
  IN cursor > 0 =>
       /\ next.ret = PairAt(cursor + 1) /\ CursorOf(next) = Min({cursor + 1, Len(pairs)})
       /\ prev.ret = PairAt(cursor - 1) /\ CursorOf(prev) = Max({cursor - 1, 1})
       /\ next.ret = Zeros => next.eof
=============================================================================
