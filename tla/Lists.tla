------------------------------- MODULE Lists -------------------------------
(***************************************************************************)
(* A program that uses the linked lists of sort.c (module LinkList): a few *)
(* lists of any type, a file that saveList writes and getList reads, and   *)
(* the shells it makes of a list or of an array (module Sorting); the      *)
(* array is the records the file holds.                                    *)
(***************************************************************************)
EXTENDS Sorting

CONSTANTS
  Handles,  (* the lists a program has at a time                           *)
  Programs, (* the programs: each with the keys of its links, as the       *)
            (* compare function orders them, the types of list it makes,   *)
            (* and the calls it makes beside initList and insertLink       *)
  MaxLinks  (* bound on the links ever made                                *)

VARIABLES
  prog,     (* the element of Programs                                     *)
  lists,    (* the lists, NoList for a handle that has none                *)
  shells,   (* the shells, NoShell for a handle that has none              *)
  file,     (* what saveList has stored; <<>> at first                     *)
  made,     (* the number of links made: a link's id is its number         *)
  gone      (* the ids of the links removed, or freed by clearList         *)

vars == <<prog, lists, shells, file, made, gone>>

NoList  == InitList("NONE", FALSE)
IsList(h) == lists[h] # NoList
Usable(h) == IsList(h) /\ lists[h].cur # DANGLING
NoShell  == [lh |-> NoList]
IsShell(h) == shells[h] # NoShell
Free(h)  == ~IsList(h) /\ ~IsShell(h)
Ids(l)  == {l.links[i].id : i \in DOMAIN l.links}

Init ==
  /\ prog \in Programs
  /\ shells = [h \in Handles |-> NoShell]
  /\ lists = [h \in Handles |-> NoList]
  /\ file = <<>>
  /\ made = 0
  /\ gone = {}

(* initList, with a compare function for the types that need one.          *)
Create(h, type) ==
  /\ Free(h)
  /\ lists' = [lists EXCEPT ![h] = InitList(type, type \in SortedTypes)]
  /\ UNCHANGED <<prog, shells, file, made, gone>>

(* delList refuses a list that has links.                                  *)
Delete(h) ==
  /\ IsList(h)
  /\ isEmptyList(lists[h])
  /\ lists' = [lists EXCEPT ![h] = NoList]
  /\ UNCHANGED <<prog, shells, file, made, gone>>

Insert(h, k) ==
  /\ Usable(h)
  /\ made < MaxLinks
  /\ made' = made + 1
  /\ lists' = [lists EXCEPT ![h] = insertLink(@, [key |-> k, id |-> made + 1])]
  /\ UNCHANGED <<prog, shells, file, gone>>

(* insertLinkHere, which may be called for a list of any type; a program   *)
(* that wants its order kept calls it for an UNSORTED one.                 *)
InsertHere(h, k) ==
  /\ Usable(h)
  /\ lists[h].type = "UNSORTED"
  /\ made < MaxLinks
  /\ made' = made + 1
  /\ lists' = [lists EXCEPT ![h] = insertLinkHere(@, [key |-> k, id |-> made + 1])]
  /\ UNCHANGED <<prog, shells, file, gone>>

RemoveFrom(h) ==
  /\ "remove" \in prog.moves
  /\ Usable(h)
  /\ ~isEmptyList(lists[h])
  /\ lists' = [lists EXCEPT ![h] = removeLink(@)]
  /\ gone' = gone \cup {lists[h].links[taken(lists[h])].id}
  /\ UNCHANGED <<prog, shells, file, made>>

Move(h) ==
  /\ Usable(h)
  /\ \/ "next" \in prog.moves  /\ lists' = [lists EXCEPT ![h] = nextLink(@)]
     \/ "prev" \in prog.moves  /\ lists' = [lists EXCEPT ![h] = prevLink(@)]
     \/ "first" \in prog.moves /\ ~isEmptyList(lists[h])
                          /\ lists' = [lists EXCEPT ![h] = firstLink(@)]
     \/ "last" \in prog.moves  /\ ~isEmptyList(lists[h])
                          /\ lists' = [lists EXCEPT ![h] = lastLink(@)]
  /\ UNCHANGED <<prog, shells, file, made, gone>>

Clear(h) ==
  /\ "clear" \in prog.moves
  /\ Usable(h)
  /\ lists' = [lists EXCEPT ![h] = clearList(@)]
  /\ gone' = gone \cup Ids(lists[h])
  /\ UNCHANGED <<prog, shells, file, made>>

(* mergeSorted of two sorted lists, the first of which is replaced; not of *)
(* two empty ones, for which it returns an error.                          *)
Merge(g, h) ==
  /\ "merge" \in prog.moves
  /\ g # h /\ Usable(g) /\ Usable(h)
  /\ {lists[g].type, lists[h].type} \subseteq SortedTypes
  /\ ~(isEmptyList(lists[g]) /\ isEmptyList(lists[h]))
  /\ lists' = [lists EXCEPT ![g] = mergeSorted(lists[g], lists[h]), ![h] = NoList]
  /\ UNCHANGED <<prog, shells, file, made, gone>>

Save(h) ==
  /\ "save" \in prog.moves
  /\ Usable(h)
  /\ file' = Data(stored(lists[h]))
  /\ UNCHANGED <<prog, shells, lists, made, gone>>

(* getList: new links, with the data of those stored.                      *)
Get(h) ==
  /\ "save" \in prog.moves
  /\ Free(h)
  /\ made + Len(file) <= MaxLinks
  /\ lists' = [lists EXCEPT ![h] =
       retrieved([i \in DOMAIN file |-> [key |-> file[i].key, id |-> made + i]])]
  /\ made' = made + Len(file)
  /\ UNCHANGED <<prog, shells, file, gone>>

-----------------------------------------------------------------------------
(* list2Shell of a list that is in order and has a compare function.       *)
ToShell(h) ==
  /\ "shell" \in prog.moves
  /\ Usable(h)
  /\ lists[h].type \in SortedTypes
  /\ shells' = [shells EXCEPT ![h] = list2Shell(lists[h])]
  /\ lists' = [lists EXCEPT ![h] = NoList]
  /\ UNCHANGED <<prog, file, made, gone>>

(* shlListQsort of a list in any order.                                    *)
QsortList(h) ==
  /\ "shell" \in prog.moves
  /\ Usable(h)
  /\ shells' = [shells EXCEPT ![h] = shlListQsort(lists[h])]
  /\ lists' = [lists EXCEPT ![h] = NoList]
  /\ UNCHANGED <<prog, file, made, gone>>

(* shlQsort of the array.                                                  *)
QsortArray(h) ==
  /\ "shell" \in prog.moves
  /\ Free(h)
  /\ made + Len(file) <= MaxLinks
  /\ shells' = [shells EXCEPT ![h] =
       shlQsort([i \in DOMAIN file |-> [key |-> file[i].key, id |-> made + i]])]
  /\ made' = made + Len(file)
  /\ UNCHANGED <<prog, lists, file, gone>>

ToList(h) ==
  /\ IsShell(h)
  /\ lists' = [lists EXCEPT ![h] = shl2List(shells[h])]
  /\ shells' = [shells EXCEPT ![h] = NoShell]
  /\ UNCHANGED <<prog, file, made, gone>>

(* Of two empty shells mergeSorted makes no list, which list2Shell reads.  *)
MergeShells(g, h) ==
  /\ g # h /\ IsShell(g) /\ IsShell(h)
  /\ ~(isEmptyList(shells[g].lh) /\ isEmptyList(shells[h].lh))
  /\ shells' = [shells EXCEPT ![g] = mergeShells(shells[g], shells[h]), ![h] = NoShell]
  /\ UNCHANGED <<prog, lists, file, made, gone>>

AddToShell(h, k) ==
  /\ IsShell(h)
  /\ made < MaxLinks
  /\ ~ReadsTail(shells[h], k)
  /\ made' = made + 1
  /\ shells' = [shells EXCEPT ![h] =
       addShellItem(@, [key |-> k, id |-> made + 1], FALSE)]
  /\ UNCHANGED <<prog, lists, file, gone>>

DelShell(h) ==
  /\ IsShell(h)
  /\ gone' = gone \cup Ids(shells[h].lh)
  /\ shells' = [shells EXCEPT ![h] = NoShell]
  /\ UNCHANGED <<prog, lists, file, made>>

(* The array sorted in its place; not one that shsort cannot sort.         *)
SortArray ==
  /\ "shell" \in prog.moves
  /\ Sortable(file)
  /\ file' = shsort(file)
  /\ UNCHANGED <<prog, lists, shells, made, gone>>

Next ==
  \/ \E h \in Handles :
       \/ \E t \in prog.types : Create(h, t)
       \/ \E k \in prog.keys : Insert(h, k) \/ InsertHere(h, k) \/ AddToShell(h, k)
       \/ Delete(h) \/ RemoveFrom(h) \/ Move(h) \/ Clear(h) \/ Save(h) \/ Get(h)
       \/ ToShell(h) \/ ToList(h) \/ QsortList(h) \/ QsortArray(h) \/ DelShell(h)
  \/ \E g, h \in Handles : Merge(g, h) \/ MergeShells(g, h)
  \/ SortArray

Spec == Init /\ [][Next]_vars

-----------------------------------------------------------------------------
(* Every link a program has made is in one list or shell, once, or was     *)
(* handed back by removeLink or freed by clearList and delShell: no        *)
(* splice, merge or conversion loses one or leaves it in two lists; and    *)
(* shsort keeps the records of an array, unless the first bytes of one are *)
(* zero, which sort_min and sort_max take for not set (sort.c:4532).       *)
NoLinkLost ==
  LET Held(h) == IF IsShell(h) THEN shells[h].lh ELSE lists[h]
      Places == {<<h, i>> \in Handles \X (1..MaxLinks) : i \in DOMAIN Held(h).links}
      IdAt(p) == Held(p[1]).links[p[2]].id
  IN /\ gone \cup {IdAt(p) : p \in Places} = 1..made
     /\ \A p \in Places : IdAt(p) \notin gone
     /\ Cardinality(Places) + Cardinality(gone) = made
     /\ Sortable(file) /\ (\A r \in ToSet(file) : Prefix(r) # 0) =>
          ToSet(ShsortOrder(file)) = ToSet(Linked(file))

(* A sorted list is in order, whichever branch of insertLink and           *)
(* findSortedInsert chose the place, and after mergeSorted; the list of a  *)
(* shell is, however the shell was made and whatever was added to it; and  *)
(* shsort, which adds the youngest record of each prefix first, leaves an  *)
(* array in order.                                                         *)
SortedListsSorted ==
  /\ \A h \in Handles :
       /\ IsList(h) /\ lists[h].type \in SortedTypes => Ordered(lists[h].links)
       /\ Ordered(shells[h].lh.links)
  /\ Sortable(file) /\ (\A r \in ToSet(file) : Prefix(r) # 0) => Ordered(shsort(file))
=============================================================================
