---------------------------- MODULE SortedIndex ----------------------------
(***************************************************************************)
(* What index.c promises to its callers: a list of key/item pairs in the   *)
(* order of their keys, a cursor in it, the calls that change the list and *)
(* the calls that read it, with what each one returns.  There are no       *)
(* blocks, no cache and no file here, and opening and closing the index    *)
(* only ends a scan.                                                       *)
(***************************************************************************)
EXTENDS Integers, Sequences, SequencesExt

CONSTANT KeyItem    (* the key/item pairs                                  *)

VARIABLES pairs,    (* the list                                            *)
          cursor,   (* the position of a scan in it, or NOSCAN or LOST     *)
          idxError, (* the global error variable, never reset by a call    *)
          ret,      (* what the last call returned                         *)
          isUnique  (* no two pairs may have the same key, ever            *)

vars == <<pairs, cursor, idxError, ret, isUnique>>

Nothing == [key |-> 0, item |-> 0]
Keys    == {ki.key : ki \in KeyItem}

(* No search has begun a scan; or it has, and the pair it stood on is no   *)
(* longer known.                                                           *)
NOSCAN == 0
LOST   == -1

(* The positions of the pairs with key k, and of those with smaller keys.  *)
With(k)  == {p \in DOMAIN pairs : pairs[p].key = k}
Below(k) == {p \in DOMAIN pairs : pairs[p].key < k}

Ordered(l) == \A p \in 1..Len(l) - 1 : l[p].key <= l[p + 1].key

(* The pair at position p, or nothing past the ends.                       *)
PairAt(p) == IF p \in DOMAIN pairs THEN pairs[p] ELSE Nothing

Init ==
  /\ pairs = <<>> /\ cursor = NOSCAN /\ idxError = "IDX_NOERR" /\ ret = Nothing
  /\ isUnique \in BOOLEAN

(* A call that works on other pairs may lose the pair of the cursor.       *)
MayLose(c) == cursor' = c \/ (cursor # NOSCAN /\ cursor' = LOST)

(* A pair that is read becomes the cursor's.                               *)
Read(p) == cursor' = p /\ ret' = pairs[p]

Add(ki) ==
  /\ ret' = ki
  /\ isUnique => With(ki.key) = {}
  /\ \E p \in 1..Len(pairs) + 1 :
       /\ pairs' = InsertAt(pairs, p, ki)
       /\ MayLose(IF cursor >= p THEN cursor + 1 ELSE cursor)
  /\ Ordered(pairs')
  /\ UNCHANGED idxError

(* A unique index refuses a key it holds; and it refuses every key while   *)
(* an earlier error has not been cleared.                                  *)
RefuseKey(ki) ==
  /\ isUnique
  /\ cursor' \in With(ki.key)
  /\ ret' = Nothing /\ idxError' = "IDX_UNIQUE"
  /\ UNCHANGED pairs

RefuseAfterError ==
  /\ isUnique /\ idxError # "IDX_NOERR"
  /\ MayLose(cursor)
  /\ ret' = Nothing
  /\ UNCHANGED <<pairs, idxError>>

(* Where a scan goes on after a delete is not promised.                    *)
Delete(ki) ==
  /\ ret' = ki
  /\ \E p \in With(ki.key) : pairs[p] = ki /\ pairs' = RemoveAt(pairs, p)
  /\ IF cursor = NOSCAN THEN cursor' = NOSCAN
                        ELSE cursor' \in DOMAIN pairs' \cup {LOST}
  /\ UNCHANGED idxError

DeleteAbsent(ki) ==
  /\ \A p \in DOMAIN pairs : pairs[p] # ki
  /\ MayLose(cursor)
  /\ ret' = Nothing /\ idxError' = "IDX_NEXISTS"
  /\ UNCHANGED pairs

(* An error of the shell is reported once, by a delete that does nothing.  *)
DeleteFails ==
  ret' = Nothing /\ idxError' = "IDX_SHELL" /\ UNCHANGED <<pairs, cursor>>

(* Both searches return the first pair with the key; without one, the      *)
(* exact search returns nothing and the other the pair before, or the      *)
(* first pair of all.  An empty index is an error.                         *)
SearchExact(k) ==
  /\ pairs # <<>>
  /\ IF With(k) # {} THEN Read(Min(With(k)))
                     ELSE ret' = Nothing /\ MayLose(cursor)
  /\ UNCHANGED <<pairs, idxError>>

Search(k) ==
  /\ pairs # <<>>
  /\ Read(IF With(k) # {} THEN Min(With(k)) ELSE Max({1} \cup Below(k)))
  /\ UNCHANGED <<pairs, idxError>>

SearchEmpty ==
  /\ pairs = <<>>
  /\ ret' = Nothing /\ idxError' = "IDX_UNSTABLE"
  /\ UNCHANGED <<pairs, cursor>>

FirstItem == pairs # <<>> /\ Read(1) /\ UNCHANGED <<pairs, idxError>>

LastItem == pairs # <<>> /\ Read(Len(pairs)) /\ UNCHANGED <<pairs, idxError>>

ReadEmpty == pairs = <<>> /\ ret' = Nothing /\ UNCHANGED <<pairs, cursor, idxError>>

(* A step of a scan returns the next pair; at the end it returns nothing   *)
(* and the cursor stays.                                                   *)
NextItem ==
  /\ cursor \in DOMAIN pairs
  /\ ret' = PairAt(cursor + 1)
  /\ cursor' = Min({cursor + 1, Len(pairs)})
  /\ UNCHANGED <<pairs, idxError>>

PrevItem ==
  /\ cursor \in DOMAIN pairs
  /\ ret' = PairAt(cursor - 1)
  /\ cursor' = Max({cursor - 1, 1})
  /\ UNCHANGED <<pairs, idxError>>

MoveWithoutScan ==
  /\ cursor = NOSCAN
  /\ ret' = Nothing /\ idxError' = "IDX_SEQUENCE"
  /\ UNCHANGED <<pairs, cursor>>

(* From a cursor that is lost the step returns some pair, or nothing.      *)
MoveLost ==
  /\ cursor = LOST
  /\ cursor' \in DOMAIN pairs \cup {LOST}
  /\ ret' \in KeyItem \cup {Nothing}
  /\ idxError' \in {idxError, "IDX_UNSTABLE"}
  /\ UNCHANGED pairs

EndScan == cursor' = NOSCAN /\ UNCHANGED <<pairs, idxError, ret>>

ClearError == idxError' = "IDX_NOERR" /\ UNCHANGED <<pairs, cursor, ret>>

Next ==
  \/ NextItem \/ PrevItem \/ MoveWithoutScan \/ FirstItem \/ LastItem
  \/ ReadEmpty \/ SearchEmpty \/ ClearError \/ EndScan
  \/ \E k \in Keys : SearchExact(k) \/ Search(k)
  \/ \E ki \in KeyItem : Add(ki) \/ Delete(ki) \/ RefuseKey(ki) \/ DeleteAbsent(ki)
  \/ RefuseAfterError \/ DeleteFails \/ MoveLost

Spec == Init /\ [][Next /\ UNCHANGED isUnique]_vars
=============================================================================
