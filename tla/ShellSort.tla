------------------------------ MODULE ShellSort ------------------------------
(***************************************************************************)
(* A program that keeps one shell (module Shell): it adds, finds, queries  *)
(* and removes items, and stores the shell and retrieves it; or one that   *)
(* keeps a hash (module Sorting), to which it adds strings that it later   *)
(* looks for.  Before a call every number of comparisons may have been     *)
(* made by the last one.                                                   *)
(***************************************************************************)
EXTENDS Sorting

CONSTANT
  Shapes (* what a program makes: a shell, or a hash with buckets, with    *)
         (* isUnique, the keys of its items, the bucket of each, and       *)
         (* bounds on the links with one key and on all links              *)

(* The compare function orders the keys as numbers, and the hash function  *)
(* has a bucket for each of them.                                          *)
ASSUME ShapesAssumption ==
  \A s \in Shapes : /\ s.keys \subseteq Int /\ s.copies \in Nat
                    /\ s.hash # <<>> => DOMAIN s.hash = s.keys

(* NULL is no link, and _ERROR_ is not _OK_.                               *)
ASSUME NoneAssumption == NONE # OK /\ NONE \notin [key : Int, id : Int]

VARIABLES
  shl,   (* the record of the shell                                        *)
  hsh,   (* the record of the hash                                         *)
  words, (* the strings addHashItem has been called with                   *)
  shape  (* its element of Shapes                                          *)

shellVars == <<shl, hsh, words, shape>>

Present == ToSet(Links(shl))

(* The links a program may add with key k: one that is not in the shell.   *)
Fresh(k) ==
  LET free == {i \in 1..shape.copies : [key |-> k, id |-> i] \notin Present}
  IN IF free = {} THEN {} ELSE {[key |-> k, id |-> Min(free)]}

(* Every node points at a link of the list.  When one does not, a call     *)
(* that reads it has no defined result, and the program makes none.        *)
Intact(s) == ToSet(s.nodes) \subseteq ToSet(Links(s))

(* The program has taken the result of a call, and the error.  No call of  *)
(* the shell reads them, and each sets lh->current before it reads it.     *)
Taken(s) == [s EXCEPT !.ret = OK, !.error = "NOERROR", !.lh.cur = 0]

TakenOf(h) == [h EXCEPT !.ret = OK, !.error = "NOERROR",
                        !.shls = [b \in DOMAIN @ |-> Taken(@[b])]]

IsHash   == shape.hash # <<>>
Bucket(k) == shape.hash[k]

ShellInit == /\ shape \in Shapes
        /\ hsh = initHash(Range(shape.hash))
        /\ words = {}
        /\ shl = initShell(shape.isUnique)

Add(k, heavy) ==
  /\ ~IsHash
  /\ k \in shape.keys
  /\ Intact(shl)
  /\ ~ReadsTail(Balance(shl, heavy), k)
  /\ Len(Links(shl)) < shape.links
  /\ \E lnk \in Fresh(k) : shl' = Taken(addShellItem(shl, lnk, heavy))
  /\ UNCHANGED <<hsh, words, shape>>

Find(k, heavy) ==
  /\ ~IsHash
  /\ k \in shape.keys
  /\ Intact(shl)
  /\ shl' = Taken(findShellItem(shl, k, heavy))
  /\ UNCHANGED <<hsh, words, shape>>

QueryFor(k, heavy) ==
  /\ ~IsHash
  /\ k \in shape.keys
  /\ Intact(shl)
  /\ shl' = Taken(queryShellItem(shl, k, heavy))
  /\ UNCHANGED <<hsh, words, shape>>

RemoveItem ==
  /\ ~IsHash
  /\ Intact(shl)
  /\ \E lnk \in Present : shl' = Taken(removeShellItem(shl, lnk))
  /\ UNCHANGED <<hsh, words, shape>>

(* storeShell, delShell and, later, retrieveShell.                         *)
Reload ==
  /\ ~IsHash
  /\ shl' = Taken(retrieveShell(storeShell(shl)))
  /\ UNCHANGED <<hsh, words, shape>>

(* The hash makes the link and a copy of the string.                       *)
AddWord(k, heavy) ==
  /\ IsHash /\ k \in shape.keys
  /\ hsh.number < shape.links
  /\ LET b   == Bucket(k)
         lnk == [key |-> k, id |-> 1 + Cardinality({l \in ToSet(Links(hsh.shls[b])) : l.key = k})]
     IN hsh' = TakenOf(addHashItem(hsh, b, lnk, heavy))
  /\ words' = words \cup {k}
  /\ UNCHANGED <<shl, shape>>

FindWord(k, heavy) ==
  /\ IsHash /\ k \in shape.keys
  /\ hsh' = TakenOf(findHashItem(hsh, Bucket(k), k, heavy))
  /\ UNCHANGED <<shl, words, shape>>

ShellNext ==
  \/ \E k \in UNION {s.keys : s \in Shapes}, heavy \in BOOLEAN :
       \/ Add(k, heavy) \/ Find(k, heavy) \/ QueryFor(k, heavy)
       \/ AddWord(k, heavy) \/ FindWord(k, heavy)
  \/ RemoveItem
  \/ Reload

ShellSpec == ShellInit /\ [][ShellNext]_shellVars

-----------------------------------------------------------------------------
(* The list is in order after every way through addShellItem, from a node  *)
(* found through any levels.                                               *)
LinksInOrder ==
  \A i, j \in DOMAIN Links(shl) : i < j => Links(shl)[i].key <= Links(shl)[j].key

(* The nodes point at links of the list, one after the other, and every    *)
(* level leads on: a walk ends, and a search never goes past its key.      *)
(* Only a shell that admits equal keys can lose the link of a node, and    *)
(* then no more is promised.                                               *)
NodesLeadOn ==
  LET at(n) == Pos(shl, n)
  IN /\ shl.isUnique => Intact(shl)
     /\ Intact(shl) =>
          /\ \A i, j \in DOMAIN shl.nodes : i < j => at(shl.nodes[i]) < at(shl.nodes[j])
          /\ \A n \in DOMAIN shl.level : \A i \in Levels :
               shl.level[n][i] # TAIL => at(n) < at(shl.level[n][i])

(* The first link is found although all searches start at a node: when the *)
(* first node is behind it, the walk starts at the head of the list, but   *)
(* not if it is the last one too (sort.c:3471).                            *)
Blind(s, k) ==
  /\ Len(s.nodes) = 1
  /\ k > First(s).key
  /\ k < LastOf(s).key
  /\ FirstEqual(s, k) < Pos(s, Head(s.nodes))

(* findShellItem finds a link with every key the list holds, and           *)
(* queryShellItem the first such link, or the last below a key that it     *)
(* does not hold; but for the keys a sole node hides.                      *)
SearchesExact ==
  Intact(shl) /\ Links(shl) # <<>> =>
    \A k \in shape.keys :
      LET held == k \in {l.key : l \in Present}
          p == FirstEqual(shl, k)
      IN ~Blind(shl, k) =>
           /\ held <=> findShellItem(shl, k, FALSE).ret # NONE
           /\ held => findShellItem(shl, k, FALSE).ret.key = k
           /\ held => queryShellItem(shl, k, FALSE).ret \in
                        {l \in Present : l.key = k}
           /\ held /\ ~shl.isUnique => queryShellItem(shl, k, FALSE).ret = Links(shl)[p]
           /\ ~held => queryShellItem(shl, k, FALSE).ret = Links(shl)[Max({p - 1, 1})]

(* The places in the buckets of a hash that hold a link.                   *)
Filled(h) == UNION {{b} \X DOMAIN Links(h.shls[b]) : b \in DOMAIN h.shls}

(* findHashItem finds a string if and only if it has been added, whatever  *)
(* the other strings of its bucket and the searches before did to the      *)
(* nodes, and number is the number of links in all buckets.                *)
HashExact ==
  /\ hsh.number = Cardinality(Filled(hsh))
  /\ \A k \in DOMAIN shape.hash :
       ~Blind(hsh.shls[Bucket(k)], k) =>
         (k \in words <=> findHashItem(hsh, Bucket(k), k, FALSE).ret # NONE)
=============================================================================
