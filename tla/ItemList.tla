------------------------------ MODULE ItemList ------------------------------
(***************************************************************************)
(* What the block file and its cache promise to index.c: one list of       *)
(* key/item pairs.  It changes only where a pair is inserted or removed,   *)
(* so blocks, splits, reads, evictions, and closing and reopening the file *)
(* cannot be seen in it; and a file that a crash left behind either is     *)
(* refused or opens as the list last closed or the one being closed.       *)
(***************************************************************************)
EXTENDS Naturals, Sequences, SequencesExt

CONSTANT KeyItem

VARIABLES pairs, (* the list                                              *)
          saved, (* the list when the file was last closed                *)
          isOpen

vars == <<pairs, saved, isOpen>>

Init == pairs = <<>> /\ saved = <<>> /\ isOpen = FALSE

Open == ~isOpen /\ isOpen' = TRUE /\ UNCHANGED <<pairs, saved>>

(* The lists one insertion or one removal away from l.                     *)
Longer(l)  == {InsertAt(l, p, ki) : p \in 1..Len(l) + 1, ki \in KeyItem}
Shorter(l) == {RemoveAt(l, p) : p \in 1..Len(l)}

InsertPair == isOpen /\ pairs' \in Longer(pairs) /\ UNCHANGED <<saved, isOpen>>

RemovePair == isOpen /\ pairs' \in Shorter(pairs) /\ UNCHANGED <<saved, isOpen>>

Close == isOpen /\ isOpen' = FALSE /\ saved' = pairs /\ UNCHANGED pairs

Crash ==
  /\ isOpen
  /\ isOpen' = FALSE
  /\ pairs' \in {saved, pairs}
  /\ UNCHANGED saved

Next == Open \/ InsertPair \/ RemovePair \/ Close \/ Crash

Spec == Init /\ [][Next]_vars
=============================================================================
