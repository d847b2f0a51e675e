--------------------------- MODULE MC_BlockCache ---------------------------
(* Values for the constants of BlockCache.  The items are above MaxBlocks,  *)
(* so none is ever a block number: the hypothesis of the theorems holds.    *)
EXTENDS BlockCache

ASSUME OffsetsAssumption == ItemsAreNoBlocks

OffsetItems == {[key |-> 1, item |-> 101], [key |-> 2, item |-> 102]}

(* Four pairs fill three blocks; one of them can be told from the others.   *)
ThreeAndOne == [ki \in OffsetItems |-> IF ki.key = 1 THEN 3 ELSE 1]
=============================================================================
