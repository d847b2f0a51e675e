------------------------------ MODULE LinkList ------------------------------
(***************************************************************************)
(* The doubly linked lists of sort.c.  A list is a record with             *)
(*   type     lh->type                                                     *)
(*   links    the links between lh->head and lh->tail, each a record with  *)
(*            a field key, which is what lh->compare looks at              *)
(*   cur      lh->current: the number of a link, 0 for lh->head,           *)
(*            Len(links) + 1 for lh->tail, DANGLING for NULL               *)
(*   sorter   lh->compare is not NULL                                      *)
(* An operator takes a list and returns it as the call leaves it.          *)
(***************************************************************************)
EXTENDS Integers, Sequences, SequencesExt, FiniteSetsExt

CONSTANT LINEAR (* a SORTED list of no more links is walked by insertLink: *)
                (* 16 in the source                                        *)

ListTypes   == {"UNSORTED", "SORTED", "SLOWSORTED", "STACKED", "QUEUED"}
SortedTypes == {"SORTED", "SLOWSORTED"}
DANGLING    == -1

(* initList: the type and the compare function are not looked at.          *)
InitList(type, sorter) ==
  [type |-> type, links |-> <<>>, cur |-> 0, sorter |-> sorter]

isEmptyList(l) == l.links = <<>>

(* The first position of a greater (of an equal or greater) key.           *)
Above(links, k)    == Min({p \in DOMAIN links : k < links[p].key} \cup {Len(links) + 1})
NotBelow(links, k) == Min({p \in DOMAIN links : k <= links[p].key} \cup {Len(links) + 1})

(* The link goes behind lh->current, or before the tail if that is it.     *)
insertLinkHere(l, lnk) ==
  LET at == Min({l.cur, Len(l.links)})
  IN [l EXCEPT !.links = InsertAt(@, at + 1, lnk), !.cur = at + 1]

(* As the code has it: number is set to 1, so the list is walked, and a    *)
(* link equal to the first goes behind the first one only.                 *)
findSortedInsert(links, k) ==
  IF k = Last(links).key THEN Len(links)
  ELSE IF k = Head(links).key THEN 1
  ELSE Above(links, k) - 1

(* Mutant: behind the first greater link.                                  *)
insertAfterTooFar(l, k) == Min({Above(l.links, k), Len(l.links)})

(* Where insertLink puts lh->current in a sorted list.                     *)
insertAfter(l, k) ==
  IF l.links = <<>> THEN 0
  ELSE IF l.type = "SORTED" /\ Len(l.links) > LINEAR /\ k < Last(l.links).key
    THEN findSortedInsert(l.links, k)
  ELSE Above(l.links, k) - 1

insertLink(l, lnk) ==
  IF l.type = "UNSORTED" THEN insertLinkHere(l, lnk)
  ELSE IF l.type \in {"STACKED", "QUEUED"}
    THEN insertLinkHere([l EXCEPT !.cur = Len(l.links)], lnk)
  ELSE IF l.sorter THEN insertLinkHere([l EXCEPT !.cur = insertAfter(l, lnk.key)], lnk)
  ELSE l

(* The position of the link removeLink takes from a list with links.       *)
taken(l) ==
  IF l.type = "QUEUED" THEN 1
  ELSE IF l.type = "STACKED" THEN Len(l.links)
  ELSE IF l.cur \in DOMAIN l.links THEN l.cur ELSE 1

removeLink(l) ==
  LET n == Len(l.links)
  IN IF n = 0 THEN l
     ELSE [l EXCEPT !.links = RemoveAt(@, taken(l)),
                    !.cur = IF n = 1 THEN 0
                            ELSE IF l.type = "STACKED" THEN n - 1
                            ELSE taken(l)]

(* lh->tail->next and lh->head->prev are NULL: behind the tail, and before *)
(* the head, there is no link.                                             *)
nextLink(l) ==
  [l EXCEPT !.cur = IF @ > Len(l.links) THEN DANGLING
                    ELSE Min({@ + 1, Len(l.links)})]

prevLink(l) ==
  [l EXCEPT !.cur = IF @ = 0 THEN DANGLING ELSE Max({@ - 1, 1})]

firstLink(l) == [l EXCEPT !.cur = 1]
lastLink(l)  == [l EXCEPT !.cur = Len(l.links)]

(* Every link is removed and freed.                                        *)
clearList(l) ==
  IF isEmptyList(l) THEN l ELSE [l EXCEPT !.links = <<>>, !.cur = 0]

(* Mutant: the rest of the longer list is not taken over.                  *)
mergedShort(a, b) ==
  SubSeq(SortSeq(a \o b, LAMBDA x, y : x.key < y.key),
         1, 2 * Min({Len(a), Len(b)}))

(* l1 first of two equal links: a link of l1 goes behind the links of l2   *)
(* with smaller keys, and one of l2 behind those of l1 not greater.        *)
merged(a, b) ==
  LET Place == [side : {1}, at : DOMAIN a] \cup [side : {2}, at : DOMAIN b]
      Lnk(p) == IF p.side = 1 THEN a[p.at] ELSE b[p.at]
      Rank(p) == IF p.side = 1
        THEN p.at + Cardinality({q \in DOMAIN b : b[q].key < Lnk(p).key})
        ELSE p.at + Cardinality({q \in DOMAIN a : a[q].key <= Lnk(p).key})
  IN [i \in 1 .. Len(a) + Len(b) |-> Lnk(CHOOSE p \in Place : Rank(p) = i)]

(* mergeSorted: both lists are destroyed; of an empty list and another the *)
(* other is the result, as it is.                                          *)
mergeSorted(l1, l2) ==
  IF isEmptyList(l1) THEN l2
  ELSE IF isEmptyList(l2) THEN l1
  ELSE LET m == merged(l1.links, l2.links)
       IN [type |-> "SLOWSORTED", links |-> m, cur |-> Len(m),
           sorter |-> l1.sorter]

(* fileWriteBlock: the records in the order of the list.                   *)
fileWriteBlock(l) == l.links

(* fileReadBlock makes an UNSORTED list without compare, and adds each     *)
(* record at its end.                                                      *)
fileReadBlock(recs) ==
  FoldLeft(LAMBDA l, r : insertLink(lastLink(l), r), InitList("UNSORTED", FALSE), recs)

(* storeList, and retrieveList of what it has stored.                      *)
stored(l)       == fileWriteBlock(l)
retrieved(file) == fileReadBlock(file)
=============================================================================
