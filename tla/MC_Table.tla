------------------------------ MODULE MC_Table ------------------------------
(* Values for the constants of Table: the indexes of a table with the       *)
(* fields a and b, and the calls made on it.                                *)
EXTENDS Table

TheFields == {"a", "b"}

IndexOn(columns, isUnique, isCase) ==
  [columns |-> columns, isUnique |-> isUnique, isCase |-> isCase,
   isMulti |-> Cardinality(columns) > 1]

(* The index that refuses comes after one that does not.                    *)
DupUniqueMulti == << IndexOn({"b"}, FALSE, TRUE), IndexOn({"a"}, TRUE, TRUE),
                     IndexOn({"a", "b"}, FALSE, FALSE) >>
DupAndMulti    == << IndexOn({"a"}, FALSE, TRUE), IndexOn({"a", "b"}, FALSE, TRUE) >>

Rec(a, b) == [f \in TheFields |-> IF f = "a" THEN a ELSE b]

FourRecords == { Rec(0, 0), Rec(0, 1), Rec(1, 0), Rec(2, 0) }
SixRecords  == { Rec(a, b) : a \in {0, 1, 2}, b \in {0, 1} }

(* One list has a record twice.                                             *)
SomeLists == { << Rec(1, 0), Rec(0, 1) >>, << Rec(0, 1), Rec(0, 0), Rec(2, 0) >> }

(* Records added, one by one and from lists, changed, deleted, undeleted.   *)
Editing ==
  [calls |-> {"add", "massAdd", "update", "delete", "undelete", "goto"},
   records |-> FourRecords, lists |-> SomeLists, targets |-> {1, 2, 3}]

(* A table that is gone through, packed, crashes and is reindexed.          *)
Rebuilding ==
  [calls |-> {"add", "delete", "undelete", "retrieve", "isDeleted", "goto",
              "move", "crash", "reindex", "pack"},
   records |-> SixRecords, lists |-> {}, targets |-> {0, 2, 4}]

Packing ==
  [calls |-> {"add", "delete", "goto", "pack"},
   records |-> FourRecords, lists |-> {}, targets |-> {1, 2}]

EditAndRebuild == {Editing, Rebuilding}
OnlyPack       == {Packing}
=============================================================================
