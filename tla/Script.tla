------------------------------- MODULE Script -------------------------------
(***************************************************************************)
(* The script interface (cdb.c) to one table: the calls on its records     *)
(* (module Records), on the fields of the record buffer (cdbui.c), and the *)
(* moves and searches by the current index (cdbmove.c), over the index     *)
(* files of module IndexFile.                                              *)
(*                                                                         *)
(* The record tbl is that of module Table, with                            *)
(*   handle   findHandle finds the table: it is open                       *)
(*   types    the type of each field                                       *)
(*   fields   tbl->fields, the values of the record buffer                 *)
(*   index    the record of module IndexFile of each index                 *)
(*   current  tbl->current: the number of an index                         *)
(*   ki       the pair the last call on an index returned                  *)
(* A call of cdb.c is an operator that returns the table as the call       *)
(* leaves it and what the call returns.                                    *)
(***************************************************************************)
EXTENDS IndexFile, RecordFile

CONSTANTS
  Fields,      (* the fields of a record; others are asked for too         *)
  Values,      (* the values of fields; 0 is the empty string              *)
  Indexes,     (* the indexes of fields, see module Records                *)
  TABLE_FLUSH, (* addRecord looks at numRecords % TABLE_FLUSH              *)
  Programs,    (* the programs: of each the types of the fields, the calls *)
               (* it makes, and the inputs, fields or names of none with   *)
               (* values, it gives to the setters                          *)
  MaxRecords,  (* bound on the records of the table                        *)
  MaxBlocks    (* bound on the blocks appended to an index file            *)

VARIABLES tbl,
          program, (* one of Programs                                      *)
          scan  (* a loop over the table by its current index: its         *)
                (* direction, "none" if there is none, and the numbers of  *)
                (* the records it has come to                              *)

vars == <<tbl, program, scan>>

(* What calls return.                                                      *)
OK       == 0
ERROR    == -1
FOUND    == 1
NOTFOUND == 0

(* Arguments for values: "0", or '\0', and a string too long or too short. *)
DEFAULT == 0
MISFIT  == -1

(* What stands for the sizes of a record, a field and an index block, for  *)
(* what is left of a string that is cut, for the present time and for 'T'. *)
SIZE   == 1
LENGTH == 1
BLOCK  == 1
CUT    == 2
NOW    == 2
TRUTH  == 1

Columns == DOMAIN Indexes
Blank   == [f \in Fields |-> 0]

KeyOf(i, v)   == v[CHOOSE f \in Indexes[i].columns : TRUE]
Pair(i, v, n) == [key |-> KeyOf(i, v), item |-> n]

-----------------------------------------------------------------------------
(* Index i as the functions of index.c find it, with the global idxError,  *)
(* and the table after one of them has left x of it.                       *)
IndexOf(t, i) == [t.index[i] EXCEPT !.idxError = t.idxError]

Back(t, i, x) ==
  [t EXCEPT !.index[i] = [x EXCEPT !.idxError = "IDX_NOERR", !.ret = Zeros,
                                   !.cache.blk = NULL],
            !.idxError = x.idxError, !.ki = x.ret]

(* The call has to return a pair, or none.                                 *)
Returned(t) == [t EXCEPT !.ok = (t.ki # Zeros)]
NotFound(t) == [t EXCEPT !.ok = (t.ki = Zeros)]

TestKey(t, i, v) ==
  LET x == t.index[i]
      k == KeyOf(i, v)
  IN IF x.isUnique /\ x.numItems > 0 /\ k >= x.shell[1].key
       THEN NotFound(Back(t, i, SearchExactIndexItem(IndexOf(t, i), k)))
       ELSE t

PutKey(t, i, v, n) == Returned(Back(t, i, AddIndexItem(IndexOf(t, i), Pair(i, v, n))))

DropKey(t, i, v, n) == Returned(Back(t, i, DeleteIndexItem(IndexOf(t, i), Pair(i, v, n))))

INSTANCE Records

-----------------------------------------------------------------------------
(* cdbmove.c by index.                                                     *)

(* Call, of index.c, for the current index, and what follows it.           *)
ByCurrent(t, Call(_), Then(_)) ==
  Then(Back(t, t.current, Call(IndexOf(t, t.current))))

NoIdxError(t) == t.idxError = "IDX_NOERR"
Unflagged(t)  == [t EXCEPT !.bof = FALSE, !.eof = FALSE]

(* Mutant: the end of the index is not the end of the table.               *)
NextIndexRecordOn(t) ==
  LET After(n) == IF n.ki = Zeros THEN n ELSE GotoRecord(n, n.ki.item)
  IN IF t.numRecords <= 1 THEN [At(t, 1) EXCEPT !.eof = TRUE] ELSE ByCurrent(t, NextIndexItem, After)

(* Without a position in the index the first record is gone to; behind the *)
(* last one by the index the last one by its number is, and eof is set.    *)
NextIndexRecord(t) ==
  LET First(f) == IF NoIdxError(f) THEN GotoRecord(f, f.ki.item) ELSE f
      After(n) ==
        IF n.ki = Zeros
          THEN IF NoIdxError(n) THEN [At(n, n.numRecords) EXCEPT !.eof = TRUE]
               ELSE [n EXCEPT !.dbError = "DB_INDEX"]
        ELSE IF n.ki.item > n.numRecords THEN [n EXCEPT !.dbError = "DB_INDEX"]
        ELSE [GotoRecord(n, n.ki.item) EXCEPT !.eof = @ \/ n.index[n.current].eof]
  IN IF t.current = 0 THEN NextRecord(t)
     ELSE IF t.numRecords = 0 THEN [t EXCEPT !.eof = TRUE]
     ELSE IF t.numRecords = 1 THEN [At(t, 1) EXCEPT !.eof = TRUE]
     ELSE IF ~t.index[t.current].isSequential THEN ByCurrent(t, FirstIndexItem, First)
     ELSE IF t.eof THEN t
     ELSE ByCurrent(t, NextIndexItem, After)

PrevIndexRecord(t) ==
  LET Final(l) == IF NoIdxError(l) THEN GotoRecord(l, l.ki.item) ELSE l
      Before(p) ==
        IF p.ki = Zeros
          THEN IF NoIdxError(p) THEN [At(p, 1) EXCEPT !.bof = TRUE]
               ELSE [p EXCEPT !.dbError = "DB_INDEX"]
        ELSE IF p.ki.item > p.numRecords THEN [p EXCEPT !.dbError = "DB_UNSTABLE"]
        ELSE [GotoRecord(p, p.ki.item) EXCEPT !.bof = @ \/ p.index[p.current].bof]
  IN IF t.current = 0 THEN PrevRecord([t EXCEPT !.bof = TRUE])
     ELSE IF t.numRecords = 0 THEN [t EXCEPT !.bof = TRUE]
     ELSE IF t.numRecords = 1 THEN [At(t, 1) EXCEPT !.bof = TRUE]
     ELSE IF ~t.index[t.current].isSequential THEN ByCurrent(t, LastIndexItem, Final)
     ELSE IF t.bof THEN t
     ELSE ByCurrent(t, PrevIndexItem, Before)

HeadIndexRecord(t) ==
  IF t.current = 0 THEN HeadRecord(t)
  ELSE IF t.numRecords = 0 THEN t
  ELSE IF t.numRecords = 1 THEN Unflagged(At(t, 1))
  ELSE ByCurrent(t, FirstIndexItem, LAMBDA f :
         IF NoIdxError(f) THEN GotoRecord(Unflagged(f), f.ki.item)
         ELSE [f EXCEPT !.dbError = "DB_INDEX"])

(* As the code has it: a failure is not noted in tbl->dbError.             *)
TailIndexRecord(t) ==
  LET Final(l) == IF NoIdxError(l) THEN GotoRecord(Unflagged(l), l.ki.item) ELSE l
  IN IF t.current = 0 THEN TailRecord(t)
     ELSE IF t.numRecords = 0 THEN t
     ELSE IF t.numRecords = 1 THEN Unflagged(At(t, 1))
     ELSE ByCurrent(t, LastIndexItem, Final)

Answer(t, reply) == [tbl |-> t, reply |-> reply]

(* The best fit is gone to.                                                *)
SearchIndexRecord(t, k) ==
  LET Found(s) == IF s.ki = Zeros THEN Answer(s, NOTFOUND)
                  ELSE Answer(GotoRecord(Unflagged(s), s.ki.item), FOUND)
  IN IF t.current = 0 \/ t.numRecords = 0 THEN Answer(t, NOTFOUND)
     ELSE ByCurrent(t, LAMBDA x : SearchIndexItem(x, k), Found)

(* Mutant: the record found is not gone to.                                *)
SearchExactInPlace(t, k) ==
  LET Found(s) == Answer(Unflagged(s), IF s.ki = Zeros THEN NOTFOUND ELSE FOUND)
  IN IF t.current = 0 \/ t.numRecords = 0 THEN Answer(t, NOTFOUND)
     ELSE ByCurrent(t, LAMBDA x : SearchExactIndexItem(x, k), Found)

SearchExactIndexRecord(t, k) ==
  LET Found(s) == IF s.ki = Zeros THEN Answer(Unflagged(s), NOTFOUND)
                  ELSE Answer(GotoRecord(Unflagged(s), s.ki.item), FOUND)
  IN IF t.current = 0 \/ t.numRecords = 0 THEN Answer(t, NOTFOUND)
     ELSE ByCurrent(t, LAMBDA x : SearchExactIndexItem(x, k), Found)

SetCurrentIndex(t, i) ==
  IF i \in Columns THEN [t EXCEPT !.current = i] ELSE [t EXCEPT !.dbError = "DB_PARAM"]

-----------------------------------------------------------------------------
(* cdbui.c                                                                 *)

(* Of a name no field begins with, getFieldNum makes an error of the table.*)
GetFieldNum(t, fldnm) == IF fldnm \in Fields THEN t ELSE [t EXCEPT !.dbError = "DB_PARAM"]

(* A setter refuses a field of another type and a value that does not fit. *)
SetField(t, type, f, v) ==
  IF t.types[f] # type \/ v = MISFIT THEN [t EXCEPT !.dbError = "DB_FIELD"]
  ELSE [t EXCEPT !.fields[f] = v]

(* Only strings are cut to the length of the field.                        *)
SetCharField(t, f, v) == SetField(t, "CHAR", f, IF v = MISFIT THEN CUT ELSE v)

SetIntField(t, f, v)    == SetField(t, "NUMBER", f, v)
SetNumberField(t, f, v) == SetField(t, "NUMBER", f, v)

(* 'T' is set for '\0', which strchr finds at the end of "yYtTnNfF".       *)
SetLogicalField(t, f, v) == SetField(t, "LOGICAL", f, IF v = DEFAULT THEN TRUTH ELSE v)

(* The default is the present time.                                        *)
SetDateField(t, f, v)      == SetField(t, "DATE", f, IF v = DEFAULT THEN NOW ELSE v)
SetTimeStampField(t, f, v) == SetField(t, "TIME", f, IF v = DEFAULT THEN NOW ELSE v)

-----------------------------------------------------------------------------
(* cdb.c                                                                   *)

TableError(t) == t.dbError # "DB_NOERROR"

(* Mutant: idxError is left alone.                                         *)
DbtblerrorHalf(t) == [t EXCEPT !.dbError = "DB_NOERROR"]

(* dbtblerror reports the errors of the table and forgets them; idxError   *)
(* is looked at for DB_INDEX only.                                         *)
Dbtblerror(t) ==
  [t EXCEPT !.dbError = "DB_NOERROR",
            !.idxError = IF t.dbError = "DB_INDEX" THEN "IDX_NOERR" ELSE @]

(* How most calls end: t is the table when its work is done.               *)
Reported(t, reply) ==
  IF TableError(t) THEN Answer(Dbtblerror(t), ERROR) ELSE Answer(t, reply)

(* How a call begins: without the handle nothing is done.                  *)
OnHandle(t, answer) == IF t.handle THEN answer ELSE Answer(t, ERROR)

Begin(t) == [t EXCEPT !.ok = TRUE, !.ki = Zeros]

(* The name is looked up before anything else, and what getFieldNum makes  *)
(* of the table is not reported with dbtblerror.                           *)
OnField(t, fldnm, answer) ==
  OnHandle(t, IF fldnm \in Fields THEN answer ELSE Answer(GetFieldNum(t, fldnm), ERROR))

dbnumrecs(t)   == OnHandle(t, Answer(t, t.numRecords))
dbnumfields(t) == OnHandle(t, Answer(t, Cardinality(Fields)))
dbiseof(t)   == OnHandle(t, Answer(t, IF t.eof THEN 1 ELSE 0))
dbisbof(t)   == OnHandle(t, Answer(t, IF t.bof THEN 1 ELSE 0))

dbshow(t, fldnm) == OnField(t, fldnm, Answer(t, t.fields[fldnm]))
dbisindexed(t, fldnm) ==
  OnField(t, fldnm, Answer(t, IF \E i \in Columns : fldnm \in Indexes[i].columns THEN 1 ELSE 0))

dbflen(t, fldnm)   == OnField(t, fldnm, Answer(t, LENGTH))
dbdeclen(t, fldnm) == OnField(t, fldnm, Answer(t, 0))
dbidxblksz(t, fldnm) ==
  OnField(t, fldnm, Answer(t, IF \E i \in Columns : fldnm \in Indexes[i].columns
                                THEN BLOCK ELSE ERROR))

dbsetint(t, fldnm, v)  == OnField(t, fldnm, Reported(SetIntField(t, fldnm, v), OK))
dbsetnum(t, fldnm, v)  == OnField(t, fldnm, Reported(SetNumberField(t, fldnm, v), OK))
dbsetlog(t, fldnm, v)  == OnField(t, fldnm, Reported(SetLogicalField(t, fldnm, v), OK))
dbsetchar(t, fldnm, v) == OnField(t, fldnm, Reported(SetCharField(t, fldnm, v), OK))
dbsetdate(t, fldnm, v) == OnField(t, fldnm, Reported(SetDateField(t, fldnm, v), OK))
dbsettime(t, fldnm, v) == OnField(t, fldnm, Reported(SetTimeStampField(t, fldnm, v), OK))

dbadd(t) == OnHandle(t, Reported(AddRecord(Begin(t), t.fields), OK))

(* The record is brought into the fields, unless it is marked deleted.     *)
dbretrieve(t) ==
  LET r == RetrieveRecord(Begin(t))
      hidden == ~Readable(t) \/ t.file[t.offset].deleted
  IN OnHandle(t, IF hidden THEN Reported(r, OK)
                 ELSE Reported([r EXCEPT !.fields = t.file[t.offset].vals], SIZE))

(* Only here it is what the function below returned that counts.           *)
dbupdate(t) ==
  LET Done(u) == IF u.ok THEN Answer(u, OK) ELSE Answer(Dbtblerror(u), ERROR)
  IN OnHandle(t, Done(UpdateRecord(Begin(t), t.fields)))

dbdel(t)   == OnHandle(t, Reported(DeleteRecord(Begin(t)), OK))
dbundel(t) == OnHandle(t, Reported(UndeleteRecord(Begin(t)), OK))

(* As the code has it: the mark is looked at and not returned.             *)
dbisdeleted(t) == OnHandle(t, Reported(IsRecordDeleted(Begin(t)), OK))

dbcurrent(t, i) == OnHandle(t, Reported(SetCurrentIndex(t, i), OK))

dbgo(t, recno) ==
  OnHandle(t, IF recno \in 1..t.numRecords
                THEN Reported(GotoRecord(Begin(t), recno), recno) ELSE Answer(t, ERROR))

dbnext(t)      == OnHandle(t, Reported(NextRecord(Begin(t)), OK))
dbnextindex(t) == OnHandle(t, Reported(NextIndexRecord(Begin(t)), OK))
dbprev(t)      == OnHandle(t, Reported(PrevRecord(Begin(t)), OK))
dbprevindex(t) == OnHandle(t, Reported(PrevIndexRecord(Begin(t)), OK))
dbhead(t)      == OnHandle(t, Reported(HeadRecord(Begin(t)), OK))
dbheadindex(t) == OnHandle(t, Reported(HeadIndexRecord(Begin(t)), OK))
dbtail(t)      == OnHandle(t, Reported(TailRecord(Begin(t)), OK))
dbtailindex(t) == OnHandle(t, Reported(TailIndexRecord(Begin(t)), OK))

(* The empty string is refused.                                            *)
dbsearchindex(t, k) ==
  LET Done(s) == Reported(s.tbl, s.reply)
  IN OnHandle(t, IF k = 0 THEN Answer(t, ERROR) ELSE Done(SearchIndexRecord(Begin(t), k)))

dbsearchexact(t, k) ==
  LET Done(s) == Reported(s.tbl, s.reply)
  IN OnHandle(t, IF k = 0 THEN Answer(t, ERROR)
                 ELSE Done(SearchExactIndexRecord(Begin(t), k)))

(* The table and its index files as they are in the files.                 *)
dbclose(t) ==
  LET u == [StoreTableHeader(Begin(t)) EXCEPT
              !.index = [i \in Columns |-> CloseIndexFile(t.index[i])]]
  IN OnHandle(t, Reported([u EXCEPT !.handle = FALSE], OK))

(* The last index of the list is the current one.                          *)
dbopen(t) ==
  Answer([t EXCEPT !.handle = TRUE,
                   !.index = [i \in Columns |->
                                [t.index[i] EXCEPT !.cache = OpenIndex(@)]],
                   !.current = Len(Indexes), !.numRecords = t.header, !.fields = Blank,
                   !.crec = 0, !.offset = 1, !.bof = FALSE, !.eof = FALSE,
                   !.marked = FALSE, !.dbError = "DB_NOERROR"], OK)

-----------------------------------------------------------------------------
NoScan == [dir |-> "none", seen |-> <<>>]

(* The record the table is on, by its number.                              *)
Here(t) == t.crec + 1

Init ==
  /\ program \in Programs
  /\ tbl = [handle |-> FALSE, types |-> program.types, fields |-> Blank,
              index |-> [i \in Columns |-> NewIndex(Indexes[i].isUnique)],
              current |-> 0, ki |-> Zeros, file |-> <<>>, header |-> 0, numRecords |-> 0,
              crec |-> 0, offset |-> 1, bof |-> FALSE, eof |-> FALSE, marked |-> FALSE,
              dbError |-> "DB_NOERROR", idxError |-> "IDX_NOERR", ok |-> TRUE]
  /\ scan = NoScan

(* A call that moves in no index: a loop by index goes on around it.       *)
Look(call, answer) ==
  /\ call \in program.calls
  /\ tbl' = [answer.tbl EXCEPT !.ok = TRUE, !.ki = Zeros]
  /\ UNCHANGED <<program, scan>>

(* Any other call ends the loop.                                           *)
Do(call, answer) ==
  /\ call \in program.calls
  /\ tbl' = [answer.tbl EXCEPT !.ok = TRUE, !.ki = Zeros]
  /\ scan' = NoScan
  /\ UNCHANGED program

(* The indexes do not grow beyond their bound, whatever the call does.     *)
Bounded == \A i \in Columns : FileEnd(tbl.index[i].cache) <= MaxBlocks

Open  == ~tbl.handle /\ Do("open", dbopen(tbl))
Close == tbl.handle /\ Do("close", dbclose(tbl))

Show(f) ==
  \/ Look("show", dbnumrecs(tbl)) \/ Look("show", dbiseof(tbl)) \/ Look("show", dbisbof(tbl))
  \/ Look("show", dbnumfields(tbl)) \/ Look("show", dbshow(tbl, f))
  \/ Look("show", dbflen(tbl, f)) \/ Look("show", dbdeclen(tbl, f))
  \/ Look("show", dbisindexed(tbl, f)) \/ Look("show", dbidxblksz(tbl, f))

Set(f, v) ==
  \/ v # DEFAULT /\ Look("set", dbsetint(tbl, f, v))
  \/ v # DEFAULT /\ Look("set", dbsetnum(tbl, f, v))
  \/ Look("set", dbsetlog(tbl, f, v)) \/ Look("set", dbsetchar(tbl, f, v))
  \/ Look("set", dbsetdate(tbl, f, v)) \/ Look("set", dbsettime(tbl, f, v))

Retrieve  == Look("retrieve", dbretrieve(tbl))
Delete    == Look("delete", dbdel(tbl))
Undelete  == Look("delete", dbundel(tbl))
IsDeleted == Look("delete", dbisdeleted(tbl))

Add == tbl.numRecords < MaxRecords /\ Bounded /\ Do("add", dbadd(tbl))

(* deleteIndexItem reads through a null pointer in an index without blocks.*)
Update ==
  /\ tbl.handle => \A i \in Columns : tbl.index[i].shell # <<>>
  /\ Bounded /\ Do("update", dbupdate(tbl))

Current(i) == Do("current", dbcurrent(tbl, i))
Go(n)      == Do("go", dbgo(tbl, n))
Move       == \/ Do("move", dbnext(tbl)) \/ Do("move", dbprev(tbl))
              \/ Do("move", dbhead(tbl)) \/ Do("move", dbtail(tbl))
Search(k)  == Do("search", dbsearchindex(tbl, k)) \/ Do("search", dbsearchexact(tbl, k))

(* A loop begins at an end of a table that has records.                    *)
Begins(answer, dir) ==
  /\ "scan" \in program.calls
  /\ tbl' = [answer.tbl EXCEPT !.ok = TRUE, !.ki = Zeros]
  /\ scan' = IF answer.reply = OK /\ tbl.numRecords > 0
               THEN [dir |-> dir, seen |-> <<Here(tbl')>>] ELSE NoScan
  /\ UNCHANGED program

(* It goes on to another record until it is at the other end.              *)
GoesOn(answer, dir, ended) ==
  /\ "scan" \in program.calls
  /\ tbl' = [answer.tbl EXCEPT !.ok = TRUE, !.ki = Zeros]
  /\ scan' = IF scan.dir # dir THEN NoScan
             ELSE IF ended THEN scan
             ELSE [scan EXCEPT !.seen = Append(@, Here(tbl'))]
  /\ UNCHANGED program

(* What a call finds at a position that is gone is the matter of module    *)
(* Index.                                                                  *)
NotLost == tbl.handle => ~Dangling(tbl.index[tbl.current])

HeadIndex == Begins(dbheadindex(tbl), "up")
TailIndex == Begins(dbtailindex(tbl), "down")
NextIndex == NotLost /\ GoesOn(dbnextindex(tbl), "up", tbl'.eof)
PrevIndex == NotLost /\ GoesOn(dbprevindex(tbl), "down", tbl'.bof)

Next ==
  \/ Open \/ Close \/ Add \/ Update \/ Retrieve \/ Delete \/ Undelete \/ IsDeleted
  \/ \E in \in program.inputs : Show(in.field) \/ Set(in.field, in.value)
  \/ (\E i \in Columns \cup {0} : Current(i)) \/ (\E n \in 0..MaxRecords : Go(n)) \/ Move
  \/ (\E k \in Values : Search(k))
  \/ HeadIndex \/ TailIndex \/ NextIndex \/ PrevIndex

Spec == Init /\ [][Next]_vars

-----------------------------------------------------------------------------
(* The numbers of the records in the order of the current index.           *)
ByIndex == [p \in DOMAIN PairsOf(tbl.index[tbl.current]) |->
              PairsOf(tbl.index[tbl.current])[p].item]

(* A loop from dbheadindex with dbnextindex comes to each record the       *)
(* current index lists once, in its order, and dbiseof ends it after the   *)
(* last one and not before; one from dbtailindex with dbprevindex and      *)
(* dbisbof does in the order turned round.                                 *)
ScanVisitsAll ==
  /\ scan.dir = "up" =>
       /\ IsPrefix(scan.seen, ByIndex)
       /\ dbiseof(tbl).reply = 1 => scan.seen = ByIndex
  /\ scan.dir = "down" =>
       /\ IsPrefix(scan.seen, Reverse(ByIndex))
       /\ dbisbof(tbl).reply = 1 => scan.seen = Reverse(ByIndex)

(* Every record is listed by every index under its present key.            *)
Listed ==
  \A i \in Columns :
    LET l == PairsOf(tbl.index[i])
    IN /\ Len(l) = tbl.numRecords
       /\ \A n \in 1..tbl.numRecords : Pair(i, tbl.file[n].vals, n) \in Range(l)

(* dbsearchexact answers 1 if and only if a record has the value, and goes *)
(* to one that has; dbsearchindex does too and otherwise goes to the       *)
(* record before, or the first.                                            *)
SearchesAgree ==
  LET Key(n)   == KeyOf(tbl.current, tbl.file[n].vals)
      Having(k) == {n \in 1..tbl.numRecords : Key(n) = k}
      Below(k)  == {n \in 1..tbl.numRecords : Key(n) <= k}
      Exact(a, k) == /\ a.reply = IF Having(k) # {} THEN FOUND ELSE NOTFOUND
                     /\ Having(k) # {} => Here(a.tbl) \in Having(k)
      Best(a, k)  == /\ a.reply = FOUND
                     /\ IF Below(k) = {} THEN Here(a.tbl) = ByIndex[1]
                        ELSE Key(Here(a.tbl)) = Max({Key(n) : n \in Below(k)})
  IN tbl.handle /\ tbl.current # 0 /\ tbl.numRecords > 0 /\ Listed =>
       \A k \in Values \ {DEFAULT} :
         Exact(dbsearchexact(tbl, k), k) /\ Best(dbsearchindex(tbl, k), k)

(* An error that has been reported is forgotten: none is left for a later  *)
(* call to stumble over.                                                   *)
NoErrorLeft == ~TableError(tbl) /\ NoIdxError(tbl)
=============================================================================
