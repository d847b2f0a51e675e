----------------------------- MODULE MC_Script -----------------------------
(* Values for the constants of Script: a table with a unique index of field *)
(* a and one with duplicates of field b.                                    *)
EXTENDS Script

TheFields == {"a", "b"}
IndexOn(f, isUnique) ==
  [columns |-> {f}, isUnique |-> isUnique, isCase |-> TRUE, isMulti |-> FALSE]
TwoIndexes == << IndexOn("a", TRUE), IndexOn("b", FALSE) >>

Pairs == [key : 0..2, item : 1..3]

Program(type, calls, values) ==
  [types  |-> [f \in TheFields |-> IF f = "a" THEN type ELSE "CHAR"],
   calls  |-> calls,
   inputs |-> [field : {"a"}, value : values]]

(* Records are loaded, over several sessions, and read by either index;     *)
(* edited, while they are read by the second; and marked deleted.           *)
Loading == {"open", "close", "current", "set", "add", "search", "scan"}
Editing == {"open", "set", "add", "update", "go", "move", "retrieve", "show",
         "search", "scan"}
Marking == {"open", "set", "add", "delete", "go", "retrieve", "scan"}
Keeping == {"open", "close", "set", "add", "show"}

ThePrograms == { Program("DATE", Loading, {0, 1}), Program("NUMBER", Editing, {1, 2}),
                 Program("LOGICAL", Marking, {0, 2}), Program("CHAR", Keeping, {0, 1, -1}),
                 Program("TIME", Keeping, {0, 1, -1}) }
=============================================================================
