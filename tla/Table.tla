-------------------------------- MODULE Table --------------------------------
(***************************************************************************)
(* The records of a table and the indexes that list them: the calls of     *)
(* module Records, opening, closing, packing and reindexing the table      *)
(* (cdbtable.c, cdbpack.c), and the .LCK file.                             *)
(* An index is what module SortedIndex promises, with its order left out:  *)
(* a bag of pairs of a key and a record number.                            *)
(*                                                                         *)
(* The record tbl has the files of the table                               *)
(*   file      the records, each with its values and its deleted byte      *)
(*   header    numRecords in the header on disk                            *)
(*   index     the pairs of each index                                     *)
(*   unique    hdr->isUnique of each index                                 *)
(*   locked    the .LCK file exists                                        *)
(* and the dbTable structure and the error variables                       *)
(*   numRecords, crec (from 0), offset (the number of the record it is     *)
(*   the place of, from 1)                                                 *)
(*   bof, eof                                                              *)
(*   marked    tbl->data, the record buffer, begins with '*'               *)
(*   dbError   tbl->dbError, or the global dbError                         *)
(*   idxError  the global error variable                                   *)
(*   ok        the last call returned _OK_                                 *)
(*   rejected  the list massAddRecords returned                            *)
(***************************************************************************)
EXTENDS Integers, SequencesExt, BagsExt

CONSTANTS
  Fields,      (* the fields of a record                                   *)
  Indexes,     (* the indexes of fields, then those in midxInfo: see       *)
               (* module Records                                           *)
  TABLE_FLUSH, (* addRecord looks at numRecords % TABLE_FLUSH              *)
  TABLE_BUFFER_SIZE, (* the records packTable reads at a time              *)
  Programs,    (* programs: each with the calls it makes; the values its   *)
               (* records may have, a number for each field, 0 for the     *)
               (* empty string; the lists it gives to massAddRecords, and  *)
               (* the record numbers it gives to gotoRecord                *)
  MaxRecords   (* bound on the records of the file                         *)

(* The header is not stored when numRecords is a multiple of TABLE_FLUSH,   *)
(* 10000 in the code (cdb.h); with 1 it would never be.               *)
ASSUME FlushAssumption ==
  TABLE_FLUSH \in Nat \ {0, 1} /\ TABLE_BUFFER_SIZE \in Nat \ {0}

(* createMultiIndex: "midx.isUnique = FALSE".                              *)
ASSUME IndexesAssumption ==
  /\ Indexes \in Seq([columns : (SUBSET Fields) \ {{}},
                      isUnique : BOOLEAN, isCase : BOOLEAN, isMulti : BOOLEAN])
  /\ \A i \in DOMAIN Indexes : Indexes[i].isMulti => ~Indexes[i].isUnique

ASSUME ProgramsAssumption ==
  \A p \in Programs :
    /\ p.records \subseteq [Fields -> Nat] /\ p.lists \subseteq Seq([Fields -> Nat])
    /\ p.targets \subseteq Int

VARIABLES prog,   (* the element of Programs                               *)
          tbl,
          status, (* "open"; "closed"; "crashed": no closeTable was made,  *)
                  (* or reindexTable has failed                            *)
          intact  (* the caller has no reason to reindex                   *)

vars == <<prog, tbl, status, intact>>

Blank == [f \in Fields |-> 0]

(* The key of index i for a record with values v: its columns, in a row.   *)
KeyOf(i, v)   == [f \in Indexes[i].columns |-> v[f]]
Pair(i, v, n) == [key |-> KeyOf(i, v), item |-> n]

Holds(t, i, v) == \E p \in DOMAIN t.index[i] : p.key = KeyOf(i, v)

(* The key is below all keys of the unique index i, which has one column.  *)
IsLowest(t, i, v) ==
  \A p \in DOMAIN t.index[i], f \in Indexes[i].columns : v[f] < p.key[f]

Begin(t) == [t EXCEPT !.ok = TRUE, !.rejected = <<>>]

-----------------------------------------------------------------------------
(* Mutant: a unique index takes any key.                                   *)
PutAnyKey(t, i, v, n) == [t EXCEPT !.index[i] = BagAdd(@, Pair(i, v, n))]

(* addIndexItem on index i: a unique one refuses a key it has, and every   *)
(* other but the lowest while an earlier error has not been cleared.       *)
PutKey(t, i, v, n) ==
  LET searched == t.unique[i] /\ ~IsLowest(t, i, v)
  IN IF searched /\ Holds(t, i, v)
       THEN [t EXCEPT !.ok = FALSE, !.idxError = "IDX_UNIQUE"]
     ELSE IF searched /\ t.idxError # "IDX_NOERR" THEN [t EXCEPT !.ok = FALSE]
     ELSE [t EXCEPT !.index[i] = BagAdd(@, Pair(i, v, n))]

(* deleteIndexItem on index i.                                             *)
DropKey(t, i, v, n) ==
  IF Pair(i, v, n) \in DOMAIN t.index[i]
    THEN [t EXCEPT !.index[i] = BagRemove(@, Pair(i, v, n))]
    ELSE [t EXCEPT !.ok = FALSE, !.idxError = "IDX_NEXISTS"]

(* The look into index i before a record is added.                         *)
TestKey(t, i, v) ==
  IF t.unique[i] /\ Holds(t, i, v) THEN [t EXCEPT !.ok = FALSE] ELSE t

INSTANCE Records

(* A unique index of a field has the key of v.                             *)
Clash(t, v) == \E i \in FieldIndexes : t.unique[i] /\ Holds(t, i, v)

-----------------------------------------------------------------------------
(* The dbTable openTable makes, and what is left of it without one.        *)
Fresh(t) ==
  [t EXCEPT !.numRecords = t.header, !.crec = 0, !.offset = 1, !.marked = FALSE,
            !.bof = FALSE, !.eof = FALSE, !.dbError = "DB_NOERROR", !.ok = TRUE,
            !.rejected = <<>>]

CloseTable(t) == [Fresh(StoreTableHeader(t)) EXCEPT !.locked = FALSE]

(* The values reindexTable takes for record n: those of a deleted record   *)
(* and of one that cannot be read are zeros.                               *)
ValuesAt(t, n) ==
  IF n \in DOMAIN t.file /\ ~t.file[n].deleted THEN t.file[n].vals ELSE Blank

(* New index files.  The arguments isUnique and isCase of createIndexFile  *)
(* are swapped for the indexes of several fields.                          *)
NewIndexes(t) ==
  [Fresh(t) EXCEPT !.locked = TRUE,
     !.index = [i \in DOMAIN Indexes |-> EmptyBag],
     !.unique = [i \in DOMAIN Indexes |->
       IF i \in MultiIndexes THEN Indexes[i].isCase ELSE Indexes[i].isUnique]]

(* Mutant: crec is the number of the record.                               *)
ReindexFromZero(t) ==
  LET a == FoldLeft(LAMBDA u, n : IF u.ok THEN PutKeys(u, ValuesAt(t, n), n - 1) ELSE u,
                    NewIndexes(t), [n \in 1..Max({1, t.header}) |-> n])
  IN IF a.ok THEN CloseTable(a) ELSE a

(* The keys of record n of t, while no addIndexItem has failed.            *)
ReindexRecord(t, u, n) == IF u.ok THEN PutKeys(u, ValuesAt(t, n), n) ELSE u

(* The keys of all records up to the last, at least one.  A failed         *)
(* addIndexItem returns at once: nothing is closed, the .LCK file stays.   *)
ReindexTable(t) ==
  LET a == FoldLeft(LAMBDA u, n : ReindexRecord(t, u, n),
                    NewIndexes(t), [n \in 1..Max({1, t.header}) |-> n])
  IN IF a.ok THEN CloseTable(a) ELSE a

-----------------------------------------------------------------------------
Live(t, n) == n \in DOMAIN t.file /\ ~t.file[n].deleted

LiveRecords(t) == {n \in 1..t.numRecords : Live(t, n)}

(* The place of n among the numbers of S.                                  *)
Rank(S, n) == Cardinality({m \in S : m <= n})

(* The last record to get into a full buffer, 0 if there is none.          *)
LastBuffered(t) ==
  LET k == TABLE_BUFFER_SIZE * (Cardinality(LiveRecords(t)) \div TABLE_BUFFER_SIZE)
  IN IF k = 0 THEN 0 ELSE CHOOSE n \in LiveRecords(t) : Rank(LiveRecords(t), n) = k

(* Mutant: what is left when there is no full buffer any more is left.     *)
VisitedInFull(t) == [n \in 1..LastBuffered(t) |-> n]

(* The records packTable comes to, the live ones of which it copies: a     *)
(* buffer of live ones at a time while more than a buffer of records is    *)
(* left, then the rest.  The loop that fills the buffer goes on for        *)
(* counter = 0, when all records have been seen: if the buffer is not      *)
(* full, it comes to the last record again.                                *)
Visited(t) ==
  [n \in 1..t.numRecords |-> n] \o
  (IF t.numRecords - LastBuffered(t) > TABLE_BUFFER_SIZE THEN <<t.numRecords>> ELSE <<>>)

(* A record that violates a unique index is skipped.                       *)
PackOne(t, v) ==
  LET a == AddRecord([t EXCEPT !.marked = FALSE], v)
  IN IF ~a.ok /\ a.dbError = "DB_UNIQUE"
       THEN [a EXCEPT !.ok = TRUE, !.dbError = "DB_NOERROR"] ELSE a

PackRecord(t, u, n) ==
  IF u.ok /\ Live(t, n) THEN PackOne(u, t.file[n].vals) ELSE u

(* The index files are removed.                                            *)
Unindexed(t) == [t EXCEPT !.index = [i \in DOMAIN Indexes |-> EmptyBag]]

(* The new table, with indexes as the fields and midxInfo say.             *)
NewTable(t) ==
  [Unindexed(t) EXCEPT !.file = <<>>, !.header = 0, !.numRecords = 0, !.dbError = "DB_NOERROR",
     !.unique = [i \in DOMAIN Indexes |-> Indexes[i].isUnique]]

(* The new table takes the place of the old one and is opened.  If a       *)
(* record cannot be added the old one is closed, without indexes.          *)
PackTable(t) ==
  LET a == FoldLeft(LAMBDA u, n : PackRecord(t, u, n), NewTable(t), Visited(t))
  IN IF a.ok THEN Fresh(StoreTableHeader(a))
     ELSE [CloseTable(Unindexed(t)) EXCEPT
             !.ok = FALSE, !.dbError = a.dbError, !.idxError = a.idxError]

-----------------------------------------------------------------------------
NoError == tbl.dbError = "DB_NOERROR"

(* The caller has handled the last error, as dbtblerror asks for.          *)
MayCall(call) == status = "open" /\ NoError /\ call \in prog.calls

Init ==
  /\ prog \in Programs
  /\ tbl = [file |-> <<>>, header |-> 0, index |-> [i \in DOMAIN Indexes |-> EmptyBag],
            unique |-> [i \in DOMAIN Indexes |-> Indexes[i].isUnique],
            locked |-> FALSE, numRecords |-> 0, crec |-> 0, offset |-> 1,
            bof |-> FALSE, eof |-> FALSE, marked |-> FALSE,
            dbError |-> "DB_NOERROR", idxError |-> "IDX_NOERR",
            ok |-> TRUE, rejected |-> <<>>]
  /\ status = "closed"
  /\ intact = TRUE

(* openTable of a table that was closed; see Crash for the others.         *)
Open ==
  /\ status = "closed" /\ ~tbl.locked
  /\ tbl' = [Fresh(tbl) EXCEPT !.locked = TRUE]
  /\ status' = "open"
  /\ UNCHANGED <<prog, intact>>

Close ==
  /\ status = "open" /\ NoError
  /\ tbl' = CloseTable(tbl)
  /\ status' = "closed"
  /\ UNCHANGED <<prog, intact>>

(* The fields are set to v and the record is added.                        *)
Add(v) ==
  /\ MayCall("add") /\ tbl.numRecords < MaxRecords
  /\ tbl' = AddRecord(Begin(tbl), v)
  /\ intact' = (intact /\ (tbl'.ok \/ Clash(tbl, v)))
  /\ UNCHANGED <<prog, status>>

MassAdd(list) ==
  /\ MayCall("massAdd")
  /\ tbl' = MassAddRecords(Begin(tbl), list)
  /\ tbl'.numRecords <= MaxRecords
  /\ intact' = (intact /\ tbl'.ok)
  /\ UNCHANGED <<prog, status>>

(* deleteIndexItem on an index without blocks reads through a null         *)
(* pointer, which is the end of the process: see Crash.                    *)
Update(v) ==
  /\ MayCall("update")
  /\ FieldIndexes = {} \/ \A i \in DOMAIN Indexes : tbl.index[i] # EmptyBag
  /\ tbl' = UpdateRecord(Begin(tbl), v)
  /\ intact' = (intact /\ tbl'.ok)
  /\ UNCHANGED <<prog, status>>

Edit(call, t) ==
  /\ MayCall(call)
  /\ tbl' = t
  /\ UNCHANGED <<prog, status, intact>>

Delete    == Edit("delete", DeleteRecord(Begin(tbl)))
Undelete  == Edit("undelete", UndeleteRecord(Begin(tbl)))
Retrieve  == Edit("retrieve", RetrieveRecord(Begin(tbl)))
IsDeleted == Edit("isDeleted", IsRecordDeleted(Begin(tbl)))
GotoRec(n) == Edit("goto", GotoRecord(Begin(tbl), n))
Step ==
  \/ Edit("move", NextRecord(Begin(tbl))) \/ Edit("move", PrevRecord(Begin(tbl)))
  \/ Edit("move", HeadRecord(Begin(tbl))) \/ Edit("move", TailRecord(Begin(tbl)))

(* dbtblerror and dberror clear idxError too if they report DB_INDEX.      *)
HandleError ==
  /\ ~NoError
  /\ tbl' = [Begin(tbl) EXCEPT !.dbError = "DB_NOERROR",
               !.idxError = IF tbl.dbError = "DB_INDEX" THEN "IDX_NOERR" ELSE @]
  /\ UNCHANGED <<prog, status, intact>>

(* The process dies, in closeTable perhaps, where the header and the .LCK  *)
(* file come before the indexes; in packTable, which removes the index     *)
(* files first, before it puts the new table in place; or in reindexTable. *)
(* What openTable finds in the index files afterwards is the matter of     *)
(* module BlockCache; the program reindexes before it opens the table      *)
(* again.  No other call is interrupted.                                   *)
Crash ==
  /\ \/ /\ status = "open"
        /\ \E t \in {tbl, StoreTableHeader(tbl), CloseTable(tbl)} \cup
                   (IF "pack" \in prog.calls THEN {Unindexed(tbl)} ELSE {}) :
             tbl' = [Fresh(t) EXCEPT !.idxError = "IDX_NOERR"]
     \/ /\ status = "closed" /\ "reindex" \in prog.calls
        /\ \E locked \in BOOLEAN :
             tbl' = [Fresh(tbl) EXCEPT !.locked = locked, !.idxError = "IDX_NOERR"]
  /\ "crash" \in prog.calls
  /\ status' = "crashed"
  /\ intact' = FALSE
  /\ UNCHANGED prog

(* Nothing but the user removes the .LCK file that was left behind, and    *)
(* may start the program anew.                                             *)
RemoveLock ==
  /\ status = "crashed" /\ tbl.locked
  /\ \E e \in {tbl.idxError, "IDX_NOERR"} :
       tbl' = [tbl EXCEPT !.locked = FALSE, !.idxError = e]
  /\ UNCHANGED <<prog, status, intact>>

(* A table with deleted records has them under blank keys afterwards, and  *)
(* an empty one the number of a record it does not have.                   *)
Reindex ==
  /\ status # "open" /\ ~tbl.locked /\ NoError /\ "reindex" \in prog.calls
  /\ tbl' = ReindexTable(tbl)
  /\ status' = IF tbl'.ok THEN "closed" ELSE "crashed"
  /\ intact' = (tbl'.ok /\ tbl.header > 0 /\ \A n \in 1..tbl.header : ~tbl.file[n].deleted)
  /\ UNCHANGED prog

Pack ==
  /\ MayCall("pack")
  /\ tbl' = PackTable(Begin(tbl))
  /\ status' = IF tbl'.ok THEN "open" ELSE "crashed"
  /\ intact' = tbl'.ok
  /\ UNCHANGED prog

Next ==
  \/ Open \/ Close \/ Pack
  \/ \E v \in prog.records : Add(v) \/ Update(v)
  \/ \E list \in prog.lists : MassAdd(list)
  \/ Delete \/ Undelete \/ Retrieve \/ IsDeleted
  \/ (\E n \in prog.targets : GotoRec(n)) \/ Step
  \/ HandleError \/ Crash \/ RemoveLock \/ Reindex

Spec == Init /\ [][Next]_vars

(* The number of records the table counts, in memory or in the file.       *)
Count == IF status = "open" THEN tbl.numRecords ELSE tbl.header

(* Every index lists every record once, under its present key and number,  *)
(* and nothing else, whatever was added, updated, refused, deleted and     *)
(* undeleted, unless a call has told the caller to reindex.                *)
EveryRecordListed ==
  intact =>
    \A i \in DOMAIN Indexes :
      tbl.index[i] = SetToBag({Pair(i, tbl.file[n].vals, n) : n \in 1..Count})

(* No two records of an intact table have the same key in a unique index   *)
(* ("isUnique is TRUE if the index should not allow duplicates",           *)
(* createDBIndex).                                                         *)
UniqueRecords ==
  intact =>
    \A i \in DOMAIN Indexes, m, n \in 1..Count :
      Indexes[i].isUnique /\ KeyOf(i, tbl.file[m].vals) = KeyOf(i, tbl.file[n].vals) => m = n

(* A crash loses at most the last record, since the header in the file is  *)
(* at most one addRecord behind.                                           *)
HeaderFollows ==
  status = "open" /\ intact =>
    tbl.header \in {tbl.numRecords, tbl.numRecords - 1} /\ tbl.header >= 0

(* "If a unique violation would result from adding the current record, no  *)
(* data is added to the indexes or tables" (addRecord): not even to the    *)
(* indexes that come before the one that refuses.                          *)
RejectedAddLeavesNoTrace ==
  [][\A v \in prog.records :
       Clash(tbl, v) /\ Add(v) =>
         ~tbl'.ok /\ UNCHANGED <<tbl.file, tbl.index, tbl.numRecords, tbl.header>>]_vars

(* The record j of a list has a key that a record of the table or an       *)
(* earlier one of the list has.                                            *)
Taken(i, list, j) ==
  \/ \E n \in 1..tbl.numRecords : KeyOf(i, tbl.file[n].vals) = KeyOf(i, list[j])
  \/ \E m \in 1..j - 1 : KeyOf(i, list[m]) = KeyOf(i, list[j])

(* massAddRecords splits its list in two and keeps the order of both: "the *)
(* records that could not be added will be placed in a list and returned", *)
(* the others are behind the old records of the table, whatever mark the   *)
(* record buffer has.  For a table with one index that refuses duplicates. *)
MassAddSplits ==
  [][\A list \in prog.lists, i \in FieldIndexes :
       /\ intact /\ MassAdd(list)
       /\ \A j \in DOMAIN Indexes : tbl.unique[j] <=> i = j
       => LET taken == {j \in DOMAIN list : Taken(i, list, j)}
              added == DOMAIN list \ taken
          IN /\ tbl'.ok
             /\ Len(tbl'.rejected) = Cardinality(taken)
             /\ \A j \in taken : tbl'.rejected[Rank(taken, j)] = list[j]
             /\ tbl'.numRecords = tbl.numRecords + Cardinality(added)
             /\ \A n \in 1..tbl.numRecords : tbl'.file[n] = tbl.file[n]
             /\ \A j \in added : tbl'.file[tbl.numRecords + Rank(added, j)] =
                                 [deleted |-> FALSE, vals |-> list[j]]]_vars

(* crec and offset name one record, also after moves across the ends of    *)
(* the table; only addRecord leaves crec one too high, and every move      *)
(* must find its way back from there.                                      *)
CursorAgrees ==
  status = "open" =>
    \/ tbl.offset = tbl.crec + 1
    \/ tbl.offset = tbl.crec /\ tbl.crec = tbl.numRecords

(* No other record has a key of v in an index that refuses duplicates.     *)
Free(v) ==
  \A i \in DOMAIN Indexes, n \in 1..tbl.numRecords :
    tbl.unique[i] /\ n # tbl.offset => KeyOf(i, tbl.file[n].vals) # KeyOf(i, v)

(* Changing a live record of an intact table works whenever no other       *)
(* record stands in the way, also if some or all of its keys stay as they  *)
(* are or another record has them in an index with duplicates.             *)
UpdateSucceeds ==
  [][\A v \in prog.records :
       /\ intact /\ tbl.offset = tbl.crec + 1 /\ tbl.offset <= tbl.numRecords
       /\ ~tbl.file[tbl.offset].deleted
       /\ Free(v) /\ Update(v)
       => tbl'.ok /\ tbl'.file[tbl.offset] = [deleted |-> FALSE, vals |-> v]]_vars

(* "Any records flagged as deleted are not copied to the new table", and   *)
(* all others are, each once: the packed table has the live records of an  *)
(* intact one in their order, however many buffers that takes.             *)
PackKeepsTheLive ==
  [][intact /\ Pack =>
       LET live == LiveRecords(tbl)
       IN /\ tbl'.ok
          /\ Len(tbl'.file) = Cardinality(live) /\ tbl'.numRecords = Cardinality(live)
          /\ \A n \in live : tbl'.file[Rank(live, n)] = tbl.file[n]]_vars
=============================================================================
