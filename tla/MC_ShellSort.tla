---------------------------- MODULE MC_ShellSort ----------------------------
(* The shells, and the hash, of the run of ShellSort.                      *)
EXTENDS ShellSort

UniqueShell == [isUnique |-> TRUE, keys |-> 1..7, copies |-> 1, links |-> 7, hash |-> <<>>]
EqualKeys   == [isUnique |-> FALSE, keys |-> 1..4, copies |-> 2, links |-> 5, hash |-> <<>>]
TwiceTheKey == [isUnique |-> TRUE, keys |-> 1..4, copies |-> 2, links |-> 5, hash |-> <<>>]
TwoBuckets  == [isUnique |-> TRUE, keys |-> 1..6, copies |-> 1, links |-> 6,
                hash |-> <<1, 1, 1, 1, 1, 2>>]

AllShells == {UniqueShell, EqualKeys, TwiceTheKey, TwoBuckets}
=============================================================================
