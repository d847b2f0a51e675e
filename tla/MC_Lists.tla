------------------------------ MODULE MC_Lists ------------------------------
(* The programs of the run of Lists: one that uses lists of every type,    *)
(* and one that turns them into shells and sorts arrays.                   *)
EXTENDS Lists

ListProgram ==
  [keys  |-> {1, 2},
   types |-> {"UNSORTED", "SORTED", "SLOWSORTED", "STACKED", "QUEUED"},
   moves |-> {"remove", "next", "prev", "first", "last", "clear", "merge", "save"}]

ShellProgram ==
  [keys  |-> {1, 2, 4},
   types |-> {"UNSORTED"},
   moves |-> {"save", "shell"}]

AllPrograms == {ListProgram, ShellProgram}

(* No call tells one handle from another.                                  *)
Symmetry == Permutations(Handles)
=============================================================================
