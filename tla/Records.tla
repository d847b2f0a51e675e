------------------------------- MODULE Records -------------------------------
(***************************************************************************)
(* The calls on the records of an open table that change its indexes:      *)
(* adding (cdbadd.c), updating (cdbedit.c), and what they do with the      *)
(* indexes (cdbindex.c).                                                   *)
(* An operator takes the record t of a table, described in module Table,   *)
(* and returns it as the call leaves it.  What an index is, is left to the *)
(* module that uses this one: a bag of pairs in Table, a file of blocks in *)
(* Script.                                                                 *)
(***************************************************************************)
EXTENDS RecordFile, SequencesExt

CONSTANTS
  Indexes,     (* a sequence of [columns, isUnique, isCase, isMulti]: the  *)
               (* indexes of fields in the order of the fields, then those *)
               (* in midxInfo                                              *)
  TABLE_FLUSH, (* addRecord looks at numRecords % TABLE_FLUSH              *)
  (* On t, index i, values v and record number n; t.ok is FALSE afterwards *)
  (* if the call failed:                                                   *)
  TestKey(_, _, _),    (* the look into a unique index for the key of v    *)
  PutKey(_, _, _, _),  (* addIndexItem                                     *)
  DropKey(_, _, _, _)  (* deleteIndexItem                                  *)

FieldIndexes == {i \in DOMAIN Indexes : ~Indexes[i].isMulti}
MultiIndexes == DOMAIN Indexes \ FieldIndexes

(* Op on one index of S after the other, up to the first failure.          *)
OnEach(Op(_, _), t, S) ==
  FoldLeft(LAMBDA u, i : IF u.ok /\ i \in S THEN Op(u, i) ELSE u,
           t, [i \in DOMAIN Indexes |-> i])

DropKeys(t, v, n) == OnEach(LAMBDA u, i : DropKey(u, i, v, n), t, DOMAIN Indexes)

(* Only in an index of a field is a duplicate reported as one.             *)
PutKeys(t, v, n) ==
  LET Noted(u, i) ==
        IF u.ok THEN u
        ELSE [u EXCEPT !.dbError = IF i \in FieldIndexes /\ u.idxError = "IDX_UNIQUE"
                                     THEN "DB_UNIQUE" ELSE "DB_INDEX"]
  IN OnEach(LAMBDA u, i : Noted(PutKey(u, i, v, n), i), t, DOMAIN Indexes)

(* Mutant: the unique indexes are not looked at first.                     *)
AddUnchecked(t, v) == PutKeys(t, v, t.numRecords + 1)

TestKeys(t, v) == OnEach(LAMBDA u, i : TestKey(u, i, v), t, FieldIndexes)

(* Mutant: record numbers are taken from 0.                                *)
AddFromZero(t, v) ==
  LET Tested(u) == IF u.ok THEN PutKeys(u, v, u.numRecords)
                   ELSE [u EXCEPT !.dbError = "DB_UNIQUE"]
  IN Tested(TestKeys(t, v))

(* The unique indexes of fields are looked at first; then every index gets *)
(* its key.                                                                *)
AddDBIndexes(t, v) ==
  LET Tested(u) == IF u.ok THEN PutKeys(u, v, u.numRecords + 1)
                   ELSE [u EXCEPT !.dbError = "DB_UNIQUE"]
  IN Tested(TestKeys(t, v))

AddRecord(t, v) ==
  LET Written(b) == IF b.numRecords % TABLE_FLUSH # 0 THEN StoreTableHeader(b) ELSE b
      Indexed(a) == IF a.ok THEN Written(AppendRecord(a, v)) ELSE a
  IN Indexed(AddDBIndexes(t, v))

(* Mutant: the errors of a rejected record stay.                           *)
MassAddOneDirty(t, v) ==
  LET a == AddDBIndexes([t EXCEPT !.marked = FALSE], v)
      b == IF a.ok THEN AppendRecord(a, v) ELSE a
  IN IF ~a.ok /\ a.dbError # "DB_UNIQUE" THEN a
     ELSE IF b.dbError = "DB_NOERROR" THEN b
     ELSE IF b.dbError = "DB_UNIQUE"
       THEN [b EXCEPT !.ok = TRUE, !.rejected = Append(@, v)]
     ELSE [b EXCEPT !.ok = FALSE]

(* The body of the loop of massAddRecords: the record is moved to the list *)
(* returned whenever DB_UNIQUE is set, and the errors are cleared.  The    *)
(* records in the list are not marked.                                     *)
MassAddOne(t, v) ==
  LET a == AddDBIndexes([t EXCEPT !.marked = FALSE], v)
      b == IF a.ok THEN AppendRecord(a, v) ELSE a
  IN IF ~a.ok /\ a.dbError # "DB_UNIQUE" THEN a
     ELSE IF b.dbError = "DB_NOERROR" THEN b
     ELSE IF b.dbError = "DB_UNIQUE"
       THEN [b EXCEPT !.ok = TRUE, !.rejected = Append(@, v),
                      !.dbError = "DB_NOERROR", !.idxError = "IDX_NOERR"]
     ELSE [b EXCEPT !.ok = FALSE]

(* Mutant: the header is left to a later call.                             *)
MassAddUnstored(t, list) ==
  FoldLeft(LAMBDA u, v : IF u.ok THEN MassAddOne(u, v) ELSE u, t, list)

MassAddRecords(t, list) ==
  LET a == FoldLeft(LAMBDA u, v : IF u.ok THEN MassAddOne(u, v) ELSE u, t, list)
  IN IF a.ok THEN StoreTableHeader(a) ELSE a

-----------------------------------------------------------------------------
(* Mutant: the new keys are added before the old ones are deleted.         *)
UpdateAddFirst(t, v) ==
  LET old  == t.file[t.offset]
      keys == IF old.deleted THEN v ELSE old.vals
      a == PutKeys(t, v, t.crec + 1)
      d == DropKeys(a, keys, t.crec + 1)
  IN IF FieldIndexes = {} THEN Overwrite(t, v)
     ELSE IF ~Readable(t) THEN Unread(t)
     ELSE IF d.ok THEN Overwrite(d, v)
     ELSE [d EXCEPT !.dbError = "DB_INDEX"]

(* With no index of a field the record is overwritten at once.             *)
(* Otherwise the keys of the old record are deleted, those of the new one  *)
(* added, and the record written if no index failed; retrieveRecord leaves *)
(* the new values in tbl->fields when the old record is marked deleted.    *)
UpdateRecord(t, v) ==
  LET old  == t.file[t.offset]
      keys == IF old.deleted THEN v ELSE old.vals
      Indexed(a) == IF a.ok THEN Overwrite(a, v) ELSE [a EXCEPT !.dbError = "DB_INDEX"]
  IN IF FieldIndexes = {} THEN Overwrite(t, v)
     ELSE IF ~Readable(t) THEN Unread(t)
     ELSE Indexed(PutKeys(DropKeys(t, keys, t.crec + 1), v, t.crec + 1))
=============================================================================
