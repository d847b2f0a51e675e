------------------------------ MODULE RecordFile ------------------------------
(***************************************************************************)
(* The record file of a table: writing and marking records, and the moves  *)
(* by record number (cdbadd.c, cdbedit.c, cdbmove.c).                      *)
(* An operator takes the record t of a table, described in module Table,   *)
(* and returns it as the call leaves it.                                   *)
(***************************************************************************)
EXTENDS Integers, Sequences, FiniteSetsExt

(* The record r is written at place n of the file.                         *)
WriteAt(t, n, r) ==
  [t EXCEPT !.file = IF n \in DOMAIN @ THEN [@ EXCEPT ![n] = r] ELSE Append(@, r)]

(* The buffer is written behind the last record, with the deleted byte it  *)
(* has from before; crec is then the number of the record counted from 1.  *)
AppendRecord(t, v) ==
  LET n == t.numRecords + 1
  IN [WriteAt(t, n, [deleted |-> t.marked, vals |-> v]) EXCEPT
        !.numRecords = n, !.crec = n, !.offset = n]

StoreTableHeader(t) == [t EXCEPT !.header = t.numRecords]

(* The read at offset finds a record.                                      *)
Readable(t) == t.offset \in DOMAIN t.file

Unread(t) == [t EXCEPT !.ok = FALSE, !.dbError = "DB_IO_READWRITE", !.marked = FALSE]

(* field2Record into a zeroed buffer, and the buffer into the file.        *)
Overwrite(t, v) ==
  [WriteAt(t, t.offset, [deleted |-> FALSE, vals |-> v]) EXCEPT !.marked = FALSE]

(* The deleted byte of the record is changed in the buffer, and written.   *)
Mark(t, deleted) ==
  [t EXCEPT !.file[t.offset].deleted = deleted, !.marked = deleted]

(* isRecordDeleted's _ERROR_ counts as TRUE.                               *)
DeleteRecord(t) ==
  IF ~Readable(t) THEN [Unread(t) EXCEPT !.ok = TRUE] ELSE Mark(t, TRUE)

UndeleteRecord(t) == IF ~Readable(t) THEN Unread(t) ELSE Mark(t, FALSE)

RetrieveRecord(t) == IF ~Readable(t) THEN Unread(t) ELSE [t EXCEPT !.marked = FALSE]

IsRecordDeleted(t) ==
  IF ~Readable(t) THEN Unread(t) ELSE [t EXCEPT !.marked = t.file[t.offset].deleted]

At(t, n) == [t EXCEPT !.crec = n - 1, !.offset = n]
By(t, d) == [t EXCEPT !.crec = @ + d, !.offset = @ + d, !.bof = FALSE, !.eof = FALSE]

(* In a table of one record every number is good.                          *)
GotoRecord(t, recno) ==
  IF t.numRecords = 0 THEN t
  ELSE [At(t, Max({1, Min({recno, t.numRecords})})) EXCEPT
          !.bof = @ \/ (t.numRecords > 1 /\ recno <= 0),
          !.eof = @ \/ (t.numRecords > 1 /\ recno > t.numRecords)]

(* Mutant: the end is noticed one record too late.                         *)
NextRecordPast(t) ==
  IF t.numRecords = 0 THEN [t EXCEPT !.eof = TRUE]
  ELSE IF t.crec >= t.numRecords THEN [At(t, t.numRecords) EXCEPT !.eof = TRUE]
  ELSE By(t, 1)

NextRecord(t) ==
  IF t.numRecords = 0 THEN [t EXCEPT !.eof = TRUE]
  ELSE IF t.crec + 1 >= t.numRecords THEN [At(t, t.numRecords) EXCEPT !.eof = TRUE]
  ELSE By(t, 1)

(* Mutant: crec behind the last record is not looked for.                  *)
PrevRecordBehind(t) ==
  IF t.numRecords = 0 THEN [t EXCEPT !.bof = TRUE]
  ELSE IF t.numRecords = 1 THEN [At(t, 1) EXCEPT !.eof = TRUE]
  ELSE IF t.crec = 0 THEN [At(t, 1) EXCEPT !.bof = TRUE]
  ELSE By(t, -1)

(* crec is behind the last record after addRecord.                         *)
PrevRecord(t) ==
  IF t.numRecords = 0 THEN [t EXCEPT !.bof = TRUE]
  ELSE IF t.numRecords = 1 THEN [At(t, 1) EXCEPT !.eof = TRUE]
  ELSE IF t.crec = 0 THEN [At(t, 1) EXCEPT !.bof = TRUE]
  ELSE IF t.crec >= t.numRecords THEN [At(t, t.numRecords) EXCEPT !.eof = FALSE]
  ELSE By(t, -1)

HeadRecord(t) ==
  IF t.numRecords = 0 THEN t ELSE [At(t, 1) EXCEPT !.bof = FALSE, !.eof = FALSE]

TailRecord(t) ==
  IF t.numRecords = 0 THEN t ELSE [At(t, t.numRecords) EXCEPT !.bof = FALSE, !.eof = FALSE]
=============================================================================
