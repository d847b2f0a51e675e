------------------------------- MODULE Sorting -------------------------------
(***************************************************************************)
(* The calls of sort.c that sort by means of shells, and the ones between  *)
(* lists and shells (modules LinkList and Shell).  bqsort (qsort.c) is     *)
(* taken to order what it is given.                                        *)
(* A record is a link without its list: its key is what the program's      *)
(* compare function looks at.                                              *)
(***************************************************************************)
EXTENDS Shell

CONSTANT SUFFIXES (* shsort takes the first bytes of a record for a number *)
                  (* of its own: the others make SUFFIXES keys out of it   *)

(* this_val.                                                               *)
Prefix(r) == r.key \div SUFFIXES

Ordered(rs)  == \A i, j \in DOMAIN rs : i < j => rs[i].key <= rs[j].key
Bqsorted(rs) == SortSeq(rs, LAMBDA a, b : a.key < b.key)

(* A shell of a list as it is: not unique, whatever the list came from.    *)
ShellOf(l) == restructureShellNodes([initShell(FALSE) EXCEPT !.lh = l])

(* list2Shell takes the compare function of the list, and needs one.       *)
list2Shell(l) == ShellOf(l)

(* shl2List: the nodes are freed.                                          *)
shl2List(s) == [s.lh EXCEPT !.type = "SLOWSORTED", !.sorter = TRUE]

(* mergeShells, a macro.                                                   *)
mergeShells(s, t) == list2Shell(mergeSorted(shl2List(s), shl2List(t)))

(* shlListQsort: the data are moved from link to link.                     *)
shlListQsort(l) == ShellOf([l EXCEPT !.links = Bqsorted(@)])

(* shlQsort of an array, each record of which gets a link.                 *)
shlQsort(p) == ShellOf([InitList("UNSORTED", FALSE) EXCEPT !.links = Bqsorted(p),
                                                         !.cur = Len(p)])

(* Without nodes, a third link equal to two equal ones is compared with    *)
(* the NULL data of lh->tail (sort.c:2943).                                *)
ReadsTail(s, k) ==
  /\ s.nodes = <<>>
  /\ ~s.isUnique
  /\ Len(Links(s)) > 1
  /\ \A l \in ToSet(Links(s)) : l.key = k

(* sort_min and sort_max, which 0 stands for not yet set.                  *)
SortMin(p) == FoldLeft(LAMBDA m, r : IF m = 0 THEN Prefix(r) ELSE Min({m, Prefix(r)}), 0, p)
SortMax(p) == FoldLeft(LAMBDA m, r : Max({m, Prefix(r)}), 0, p)

(* The records in the order shsort adds them to its shell: the youngest of *)
(* each prefix first, from sort_min to sort_max.                           *)
Buckets(p) ==
  FlattenSeq([i \in 1 .. SortMax(p) - SortMin(p) + 1 |->
    Reverse(SelectSeq(p, LAMBDA r : Prefix(r) = SortMin(p) + i - 1))])

ShellOfAll(rs) == FoldLeft(LAMBDA s, r : addShellItem(s, r, FALSE), initShell(FALSE), rs)

(* The records of an array, each with the link plnk has for it, and the    *)
(* data of links.                                                          *)
Linked(p)   == [i \in DOMAIN p |-> [key |-> p[i].key, id |-> i]]
Data(links) == [i \in DOMAIN links |-> [key |-> links[i].key]]

(* The order shsort gives to the links.                                    *)
ShsortOrder(p) == Links(ShellOfAll(Buckets(Linked(p))))

(* shsort: the places behind the links of the shell keep what they held.   *)
shsort(p) ==
  LET links == ShsortOrder(p)
  IN Data(links) \o SubSeq(p, Len(links) + 1, Len(p))

(* shsort never compares with the data of a list's tail.                   *)
Sortable(p) ==
  LET b == Buckets(Linked(p))
  IN \A n \in DOMAIN b : ~ReadsTail(ShellOfAll(SubSeq(b, 1, n - 1)), b[n].key)

-----------------------------------------------------------------------------
(* A hash is an array of unique shells, one for each value of its hash     *)
(* function; number counts its items, and ret and error are what the last  *)
(* call returned, and the global shlError it left.                         *)
initHash(buckets) ==
  [number |-> 0, shls |-> [b \in buckets |-> initShell(TRUE)],
   ret |-> OK, error |-> "NOERROR"]

(* An error of the shell becomes the one of the call, and is cleared.      *)
WithShell(h, b, s) ==
  [h EXCEPT !.shls[b] = [s EXCEPT !.error = "NOERROR"], !.ret = s.ret,
            !.error = IF s.error # "NOERROR" THEN s.error ELSE @]

(* Mutant: a refused item is counted.                                      *)
addHashItemAlways(h, b, lnk, heavy) ==
  [WithShell(h, b, addShellItem(h.shls[b], lnk, heavy)) EXCEPT !.number = @ + 1]

addHashItem(h, b, lnk, heavy) ==
  LET t == WithShell(h, b, addShellItem(h.shls[b], lnk, heavy))
  IN IF t.ret = NONE THEN t ELSE [t EXCEPT !.number = @ + 1]

findHashItem(h, b, k, heavy) ==
  WithShell(h, b, findShellItem(h.shls[b], k, heavy))
=============================================================================
