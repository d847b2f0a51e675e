-------------------------------- MODULE Shell --------------------------------
(***************************************************************************)
(* The shell sort of sort.c: a sorted list with shellNodes that point at   *)
(* some of its links, and levels of pointers from node to node.            *)
(*                                                                         *)
(* An operator takes the record s of a shell and returns it as the call    *)
(* leaves it.  Its fields are                                              *)
(*   lh        the list, a record of module LinkList; a link is a record   *)
(*             [key, id], and its id tells it from the links equal to it   *)
(*   nodes     the nodes from shl->head to shl->tail, each named by its    *)
(*             link, node->here                                            *)
(*   level     node->level for each node: for 0..NODE_LEVEL-1 the link of  *)
(*             another node, or TAIL                                       *)
(*   node      shl->current: the link of a node, or HEAD                   *)
(*   thresh    shl->thresh                                                 *)
(*   isUnique                                                              *)
(*   error     shl->shlError, which no call resets                         *)
(*   ret       the link the call returned, or OK; NONE for NULL and        *)
(*             _ERROR_                                                     *)
(* The comparisons a call makes are not counted: the caller says by heavy  *)
(* whether the last call made more than OUTPOINT_THRESH of them.           *)
(***************************************************************************)
EXTENDS LinkList

CONSTANTS
  MIDPOINT,       (* 5: the offset of the new node among the links passed  *)
  OUTPOINT,       (* 9: so many links, or nodes, are passed without a node *)
                  (* (without a level) before one is made                  *)
  RESTRUCT,       (* 9: the links between two nodes after a restructure    *)
  NODE_LEVEL,     (* 10: the levels of a node                              *)
  RSTRUCT_THRESH, (* 10: so many heavy calls are left without restructure  *)
  HEAD, TAIL,     (* shl->head and shl->tail                               *)
  OK, NONE        (* the results _OK_, and NULL or _ERROR_                 *)

ASSUME ShellAssumption ==
  /\ {MIDPOINT, OUTPOINT, RESTRUCT, NODE_LEVEL} \subseteq Nat \ {0}
  /\ MIDPOINT < OUTPOINT
  /\ RSTRUCT_THRESH \in Nat

Levels  == 0 .. NODE_LEVEL - 1
NoLevel == [i \in Levels |-> TAIL]

(* initShell.                                                              *)
initShell(unique) ==
  [lh |-> InitList("UNSORTED", FALSE), nodes |-> <<>>, level |-> <<>>,
   node |-> HEAD, thresh |-> 0, isUnique |-> unique, error |-> "NOERROR",
   ret |-> OK]

Refuse(s, e) == [s EXCEPT !.error = e, !.ret = NONE]

Links(s)   == s.lh.links
First(s)   == Head(Links(s))
LastOf(s)  == Last(Links(s))
Pos(s, l)  == SelectInSeq(Links(s), LAMBDA m : m = l)

(* The links of the nodes a restructure makes: every RESTRUCT-th one.      *)
NodesEvery(s) ==
  [j \in 1 .. 1 + (Len(Links(s)) - 1) \div RESTRUCT |->
     Links(s)[1 + (j - 1) * RESTRUCT]]

(* From node to node of a level, counted in nodes, it is RESTRUCT times as *)
(* far as one level below; i = 0 for the nodes, i + 1 for level i.         *)
Stride[i \in 0 .. NODE_LEVEL] == IF i = 0 THEN 1 ELSE RESTRUCT * Stride[i - 1]

(* The pointer of node j at level i, of n nodes: level i is made if the    *)
(* one below has more than RESTRUCT pointers (level 0: if there are more   *)
(* than RESTRUCT nodes), and joins every Stride[i + 1]-th node.            *)
LevelOf(nodes, j, i) ==
  LET step  == Stride[i + 1]
      below == IF i = 0 THEN Len(nodes) ELSE (Len(nodes) - 1) \div Stride[i]
      made  == Len(nodes) > RESTRUCT /\ below > RESTRUCT
  IN IF made /\ (j - 1) % step = 0 /\ j + step <= Len(nodes)
     THEN nodes[j + step] ELSE TAIL

(* restructureShellNodes.                                                  *)
restructureShellNodes(s) ==
  LET nodes == IF Len(Links(s)) < RESTRUCT THEN <<>> ELSE NodesEvery(s)
  IN [s EXCEPT
       !.nodes = nodes,
       !.level = [l \in ToSet(nodes) |-> [i \in Levels |->
                    LevelOf(nodes, SelectInSeq(nodes, LAMBDA m : m = l), i)]],
       !.node  = IF nodes = <<>> THEN HEAD ELSE Last(nodes)]

(* What addShellItem, findShellItem and queryShellItem begin with.         *)
Balance(s, heavy) ==
  IF ~heavy THEN s
  ELSE IF s.thresh + 1 > RSTRUCT_THRESH
    THEN restructureShellNodes([s EXCEPT !.thresh = 0])
  ELSE [s EXCEPT !.thresh = @ + 1]

(* Mutant: a level is followed up to the node that is not below the key.   *)
AheadTooFar(s, i, n, k) == s.level[n][i] # TAIL /\ k > n.key

(* The node a level leads to from node n, for a key k: as long as the node *)
(* the pointer names is below k, the walk goes on.  path[j] is the node    *)
(* after j steps, the last one if there are less.                          *)
Ahead(s, i, n, k) == s.level[n][i] # TAIL /\ k > s.level[n][i].key

Path(s, i, n, k) ==
  LET path[j \in 0 .. Len(s.nodes)] ==
        IF j = 0 THEN n
        ELSE LET p == path[j - 1]
             IN IF Ahead(s, i, p, k) THEN s.level[p][i] ELSE p
  IN path

(* The node on which findShellItem and queryShellItem leave level 0.       *)
Descend(s, k) ==
  LET at[i \in 0 .. NODE_LEVEL] ==
        IF i = NODE_LEVEL THEN Head(s.nodes)
        ELSE Path(s, i, at[i + 1], k)[Len(s.nodes)]
  IN at[0]

NodeAt(s, n) == SelectInSeq(s.nodes, LAMBDA m : m = n)

-----------------------------------------------------------------------------
(* A link is put behind position p, and the current node is n.             *)
InsertBehind(s, p, lnk, n) ==
  [s EXCEPT !.lh = insertLinkHere([@ EXCEPT !.cur = p], lnk), !.node = n,
            !.ret = OK]

(* Mutant: the node is made at the link reached, not at the midpoint.      *)
newNodeAtEnd(s, before, mids) ==
  LET new == [m \in 1 .. mids.number |->
                Links(s)[Min({mids.start + m * OUTPOINT, Len(Links(s))})]]
      cut == before - 1
  IN IF new = <<>> THEN s ELSE
     [s EXCEPT !.nodes = SubSeq(@, 1, cut) \o new \o SubSeq(@, cut + 1, Len(@)),
               !.level = [l \in DOMAIN @ \cup ToSet(new) |->
                            IF l \in ToSet(new) THEN NoLevel ELSE @[l]],
               !.node = Last(new)]

(* newShellNode, for each time OUTPOINT links were passed from the start   *)
(* of the walk: the nodes go before node number `before'.                  *)
newShellNodes(s, before, mids) ==
  LET new == [m \in 1 .. mids.number |->
                Links(s)[mids.start + (m - 1) * OUTPOINT + MIDPOINT]]
      cut == before - 1
  IN IF new = <<>> THEN s ELSE
     [s EXCEPT !.nodes = SubSeq(@, 1, cut) \o new \o SubSeq(@, cut + 1, Len(@)),
               !.level = [l \in DOMAIN @ \cup ToSet(new) |->
                            IF l \in ToSet(new) THEN NoLevel ELSE @[l]],
               !.node = Last(new)]

(* Node mid is put into level i behind node n.                             *)
Splice(s, i, n, mid) ==
  [s EXCEPT !.level[mid][i] = s.level[n][i], !.level[n][i] = mid]

(* addShellItem without nodes.  The unique constraint is tested for the    *)
(* first link only.  With several links, all equal to the new one, the     *)
(* walk would compare with the tail's NULL data: not modelled (CanAdd).    *)
AddWithoutNodes(s, lnk) ==
  LET k == lnk.key
      stop == Above(Links(s), k)
      t == newShellNodes(s, 1, [start |-> 0, number |-> 1])
  IN IF isEmptyList(s.lh) \/ k < First(s).key THEN InsertBehind(s, 0, lnk, s.node)
     ELSE IF k = First(s).key /\ s.isUnique THEN Refuse(s, "UNIQUE")
     ELSE IF k = First(s).key \/ k >= LastOf(s).key
       THEN InsertBehind(s, stop - 1, lnk, s.node)
     ELSE IF stop >= OUTPOINT THEN InsertBehind(t, stop - 1, lnk, t.node)
     ELSE InsertBehind(s, stop - 1, lnk, s.node)


(* The way down the levels, with a splice into level i + 1 whenever        *)
(* OUTPOINT nodes of level i were passed; it ends early at a node equal to *)
(* the link, in a unique shell.                                            *)
AddDescent(s, k) ==
  LET n == Len(s.nodes)
      at[i \in 0 .. NODE_LEVEL] ==
        IF i = NODE_LEVEL THEN [s |-> s, node |-> Head(s.nodes), refused |-> FALSE]
        ELSE LET b == at[i + 1]
                 path == Path(b.s, i, b.node, k)
                 next == b.s.level[path[n]][i]
                 far  == i < NODE_LEVEL - 1
                           /\ Cardinality({path[j] : j \in 0..n}) > OUTPOINT
             IN IF b.refused THEN b
                ELSE [s |-> IF far THEN Splice(b.s, i + 1, b.node, path[MIDPOINT]) ELSE b.s,
                      node |-> path[n],
                      refused |-> s.isUnique /\ next # TAIL /\ next.key = k]
  IN at[0]

(* The nodes are walked from the one the levels led to, to the first that  *)
(* is not below the link; its links from the node before it, to the first  *)
(* that is not below.                                                      *)
AddBelow(s, from, lnk) ==
  LET k == lnk.key
      a == NodeAt(s, from)
      n == Len(s.nodes)
      j == Min({i \in a..n : k <= s.nodes[i].key} \cup {n + 1})
      t == IF j - a >= OUTPOINT THEN Splice(s, 0, from, s.nodes[a + MIDPOINT]) ELSE s
      start == IF j = 1 THEN 1 ELSE Pos(s, s.nodes[j - 1])
      stop  == Min({p \in start..Len(Links(s)) : k <= Links(s)[p].key})
      u == newShellNodes(t, j, [start |-> start, number |-> (stop - start) \div OUTPOINT])
      last  == IF stop - start >= OUTPOINT THEN u.node
               ELSE IF j = 1 THEN HEAD ELSE s.nodes[j - 1]
  IN IF s.isUnique /\ j <= n /\ s.nodes[j].key = k THEN Refuse(t, "UNIQUE")
     ELSE IF s.isUnique /\ Links(s)[stop].key = k THEN Refuse(u, "UNIQUE")
     ELSE InsertBehind(u, stop - 1, lnk, last)

AddWithNodes(s, lnk) ==
  LET k == lnk.key
      d == AddDescent(s, k)
  IN IF k < First(s).key THEN InsertBehind(s, 0, lnk, Head(s.nodes))
     ELSE IF s.isUnique /\ k \in {First(s).key, LastOf(s).key} THEN Refuse(s, "UNIQUE")
     ELSE IF k = First(s).key THEN InsertBehind(s, 1, lnk, Head(s.nodes))
     ELSE IF k >= LastOf(s).key
       THEN InsertBehind(s, Len(Links(s)), lnk, Last(s.nodes))
     ELSE IF d.refused THEN Refuse(d.s, "UNIQUE")
     ELSE AddBelow(d.s, d.node, lnk)

addShellItem(s, lnk, heavy) ==
  LET t == Balance(s, heavy)
  IN IF t.nodes = <<>> THEN AddWithoutNodes(t, lnk) ELSE AddWithNodes(t, lnk)

-----------------------------------------------------------------------------
(* Where the walk of findShellItem and queryShellItem ends for a key that  *)
(* lies between the first and the last: the first position that is not     *)
(* below it, and the node it is looked for from.  Nothing before the last  *)
(* node is looked at when that is reached, not even if it is the only one. *)
Reached(s, j, p) ==
  [pos |-> p,
   node |-> IF j <= Len(s.nodes) /\ p >= Pos(s, s.nodes[j]) THEN s.nodes[j]
            ELSE s.nodes[j - 1]]

LocateBefore(s, k, j) ==
  LET start == IF j = 2 /\ Len(s.nodes) > 1 THEN 1 ELSE Pos(s, s.nodes[j - 1])
  IN Reached(s, j, Min({i \in start..Len(Links(s)) : k <= Links(s)[i].key}))

Locate(s, k) ==
  LET n == Len(s.nodes)
      a == NodeAt(s, Descend(s, k))
  IN LocateBefore(s, k, Min({i \in a + 1 .. n : k <= s.nodes[i].key} \cup {n + 1}))

FirstEqual(s, k) == NotBelow(Links(s), k)

Found(s, p, n) == [s EXCEPT !.lh.cur = p, !.node = n, !.ret = Links(s)[p]]
Answer(s, p)   == [s EXCEPT !.ret = Links(s)[p]]
Nothing(s)     == [s EXCEPT !.ret = NONE]

FindAt(s, k, p, n) ==
  IF p <= Len(Links(s)) /\ Links(s)[p].key = k THEN Found(s, p, n) ELSE Nothing(s)

FindIn(s, k) ==
  IF s.nodes = <<>> THEN FindAt(s, k, FirstEqual(s, k), s.node)
  ELSE IF k = First(s).key THEN Answer([s EXCEPT !.node = Head(s.nodes)], 1)
  ELSE IF k = LastOf(s).key
    THEN Answer([s EXCEPT !.node = Last(s.nodes)], FirstEqual(s, k))
  ELSE IF k < First(s).key \/ k > LastOf(s).key THEN Nothing(s)
  ELSE LET w == Locate(s, k) IN FindAt(s, k, w.pos, w.node)

findShellItem(s, k, heavy) == FindIn(Balance(s, heavy), k)

(* The link returned is the first one equal, or else the one before the    *)
(* place of the key, the first one if there is none before.                *)
QueryAt(s, k, p, n) ==
  Found(s, IF Links(s)[p].key = k THEN p ELSE Max({p - 1, 1}), n)

QueryWithoutNodes(s, k, p) ==
  IF p > Len(Links(s)) THEN Answer(s, Len(Links(s)))
  ELSE IF Links(s)[p].key = k THEN Found(s, p, s.node)
  ELSE Answer(s, Max({p - 1, 1}))

QueryIn(s, k) ==
  IF Links(s) = <<>> THEN Refuse(s, "PARAM")
  ELSE IF s.nodes = <<>> THEN QueryWithoutNodes(s, k, FirstEqual(s, k))
  ELSE IF k = First(s).key THEN Answer([s EXCEPT !.node = Head(s.nodes)], 1)
  ELSE IF k < First(s).key THEN Answer(s, 1)
  ELSE IF k = LastOf(s).key /\ s.isUnique THEN Answer(s, Len(Links(s)))
  ELSE IF k = LastOf(s).key
    THEN Answer([s EXCEPT !.node = Last(s.nodes)], FirstEqual(s, k))
  ELSE IF k > LastOf(s).key
    THEN Answer([s EXCEPT !.node = Last(s.nodes)], Len(Links(s)))
  ELSE LET w == Locate(s, k) IN QueryAt(s, k, w.pos, w.node)

queryShellItem(s, k, heavy) == QueryIn(Balance(s, heavy), k)

-----------------------------------------------------------------------------
TakeOut(s, lnk) ==
  [s EXCEPT !.lh = removeLink([@ EXCEPT !.cur = Pos(s, lnk)]), !.ret = lnk]

(* A shell that is not unique looks for a node at the link among shl-      *)
(* current, as queryShellItem has left it, and the nodes directly behind   *)
(* it that are equal to the link.                                          *)
NodeSeen(s, lnk) ==
  LET a == IF s.node = HEAD THEN 0 ELSE NodeAt(s, s.node)
  IN \E j \in DOMAIN s.nodes :
       /\ s.nodes[j] = lnk
       /\ j >= a
       /\ \A i \in a + 1 .. j : s.nodes[i].key = lnk.key

RemoveFound(s, lnk) ==
  IF s.ret = NONE THEN Refuse(s, "CORRUPT") ELSE restructureShellNodes(TakeOut(s, lnk))

RemoveQueried(s, lnk) ==
  IF NodeSeen(s, lnk) THEN restructureShellNodes(TakeOut(s, lnk)) ELSE TakeOut(s, lnk)

removeShellItem(s, lnk) ==
  IF s.isUnique THEN RemoveFound(findShellItem(s, lnk.key, FALSE), lnk)
  ELSE RemoveQueried(queryShellItem(s, lnk.key, FALSE), lnk)

(* retrieveShell: the list of the file, with nodes and levels as           *)
(* restructureShellNodes makes them.  The compare function is the caller's.*)
retrieveShell(saved) ==
  restructureShellNodes(
    [initShell(saved.isUnique) EXCEPT !.lh = retrieved(saved.links)])

storeShell(s) == [links |-> stored(s.lh), isUnique |-> s.isUnique]
=============================================================================
