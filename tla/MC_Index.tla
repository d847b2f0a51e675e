------------------------------ MODULE MC_Index ------------------------------
(* Values for the constants of Index.  The items of the Far pairs are above *)
(* MaxBlocks, so they are never a block number; those of NearPairs are.     *)
EXTENDS Index

FarPairs  == [key : {10, 20, 30, 40}, item : {101}]
DupPairs  == [key : {10, 20}, item : {101}] \cup [key : {20}, item : {102}]
NearPairs == [key : {20, 30, 40}, item : {101}] \cup [key : {10}, item : {1}]

Updates         == {"add", "delete"}
UpdatesAndReads == {"add", "delete", "search", "next"}
LoadAndRead     == {"add", "searchExact", "search", "first", "last", "next", "prev"}

(* A unique index that is updated and read, one with duplicates that is     *)
(* loaded and read.                                                         *)
AllPairs == FarPairs \cup DupPairs
AllUses  == [isUnique \in BOOLEAN |->
              IF isUnique THEN [pairs |-> FarPairs, calls |-> UpdatesAndReads]
                          ELSE [pairs |-> DupPairs, calls |-> LoadAndRead]]

(* This use stays clear of what index.c does not keep, so that what is      *)
(* proved of such uses is proved of it; the next one does not.              *)
ASSUME AllUsesAreWell == Uses = AllUses => WellUsed

NearUses == [isUnique \in {TRUE} |-> [pairs |-> NearPairs, calls |-> Updates]]
=============================================================================
