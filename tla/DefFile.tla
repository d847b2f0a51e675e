------------------------------- MODULE DefFile -------------------------------
(***************************************************************************)
(* The readers of definition files: parseDBDef (cdbdf.c), which carries a  *)
(* file out as it reads it, with the calls it makes on tables, indexes and *)
(* workspaces, and parseContainerDefinitionFile (container.c).  The text   *)
(* of a file may have been damaged.                                        *)
(*                                                                         *)
(*   rest     the tokens the parser has not read                           *)
(*   level    where the parser is: "idle" (no file is read), "file"        *)
(*            (between statements), in the "fields" or the "clauses" of a  *)
(*            table, or in a "container"                                   *)
(*   tbl      the table or container under construction                    *)
(*   disk     the tables, the workspace files and the containers defined   *)
(*   locked   the tables with a .LCK file                                  *)
(*   err      dbError is set (it is cleared by dberror() only)             *)
(*   reading  what was read: the statements meant, whether the text was    *)
(*            damaged, disk, locked and err at the start, the number of    *)
(*            statements done and the result                               *)
(*   files    the files that may still be read                             *)
(***************************************************************************)
EXTENDS Tokens, DefSyntax

CONSTANTS Programs, (* the sequences of statements a file may consist of   *)
          Betweens, (* what may stand between two statements of a file     *)
          MaxFiles, (* bound: no more files are read                       *)
          Syllables (* the characters of names and numbers: not damaged    *)

VARIABLES rest, level, tbl, disk, locked, err, reading, files

vars == <<rest, level, tbl, disk, locked, err, reading, files>>

ASSUME DefAssumption == /\ MAX_MIDX \in Nat \ {0}
                        /\ MAXIDSIZE \in Nat \ {0} /\ MAXTOKENSIZE \in Nat \ {0}

(***************************************************************************)
(* Tokens.  A test with && in the source lets any operator pass, and any   *)
(* token that begins with the character; one with || does not.             *)
(***************************************************************************)
Kind(kind)   == [must |-> "be", kind |-> kind]
Word1(words) == [must |-> "say", words |-> words]
Op(c)        == [must |-> "begin", char |-> c]
Lax(c)       == [must |-> "begin or operate", char |-> c]

AString == Kind("STRING")
ANumber == Kind("NUMBER")
Keyword(w) == Word1({w})

Begins(t, c) == t.text # <<>> /\ Head(t.text) = c

Matches(t, p) ==
  CASE p.must = "be"               -> t.kind = p.kind
    [] p.must = "say"              -> /\ t.kind = "IDENT"
                                      /\ \E w \in p.words : t.text = <<w>>
    [] p.must = "begin"            -> t.kind = "OPERATOR" /\ Begins(t, p.char)
    [] p.must = "begin or operate" -> t.kind = "OPERATOR" \/ Begins(t, p.char)

(* The next tokens are as the tests of the parser want them.               *)
Fits(pattern) == /\ Len(rest) >= Len(pattern)
                 /\ \A i \in DOMAIN pattern : Matches(rest[i], pattern[i])

Next1(p) == Fits(<<p>>)

Skip(n) == rest' = SubSeq(rest, n + 1, Len(rest))

NoTable == [name |-> <<>>]

Stop(result) == /\ level' = "idle" /\ rest' = <<>> /\ tbl' = NoTable
                /\ reading' = [reading EXCEPT !.result = result]

(* The exits with _ERROR_: nothing is closed, dbError is set.              *)
Refuse == Stop("refused") /\ err' = TRUE

Finished == reading' = [reading EXCEPT !.done = @ + 1]

(***************************************************************************)
(* Damage: a character of the file's structure is lost, doubled or written *)
(* as another operator.  Of two files read in a row one is damaged.        *)
(***************************************************************************)
Damaged(text) ==
  LET places == {i \in DOMAIN text : text[i] \notin Syllables}
  IN {RemoveAt(text, i) : i \in places} \cup {InsertAt(text, i, text[i]) : i \in places} \cup
     {[text EXCEPT ![i] = c] : i \in places, c \in {";", "{"}}

ParsesContainer(stmts) == stmts[1].op = "container"

(* The files of a program: as it was written, or with one damage.          *)
FilesOf(stmts) ==
  {[stmts |-> stmts, damaged |-> FALSE, text |-> FileText(stmts, b)] : b \in Betweens} \cup
  {[stmts |-> stmts, damaged |-> TRUE, text |-> t] : t \in Damaged(FileText(stmts, <<NEWLINE>>))}

(* A comment that is not closed keeps getToken busy for ever: left out.    *)
Readable == {f \in UNION {FilesOf(stmts) : stmts \in Programs} : Terminates(f.text)}

Files == {[stmts |-> f.stmts, damaged |-> f.damaged, tokens |-> Tokens(f.text)] : f \in Readable}

StartReading(f, entry) ==
  /\ level = "idle" /\ files > 0
  /\ files' = files - 1
  /\ f.damaged => ~reading.damaged
  /\ rest' = f.tokens /\ level' = entry
  /\ reading' = [stmts |-> f.stmts, damaged |-> f.damaged, disk |-> disk, locked |-> locked,
                 err |-> err, done |-> 0, result |-> "none"]
  /\ UNCHANGED <<tbl, disk, locked, err>>

parseDBDef ==
  \E f \in Files : ~ParsesContainer(f.stmts) /\ StartReading(f, "begin")

parseContainerDefinitionFile ==
  \E f \in Files : ParsesContainer(f.stmts) /\ StartReading(f, "container head")

(* The first token must be a word; behind a statement the end may follow.  *)
EndOfFile ==
  /\ level = "file" /\ Next1(Kind("DONE"))
  /\ Stop("accepted") /\ UNCHANGED <<disk, locked, err, files>>

AtStatement == level \in {"begin", "file"}

(***************************************************************************)
(* create workspace.  wsCreate writes an empty workspace over any other,   *)
(* but no file can have the name "".  Whatever dbError says is taken for   *)
(* its error.                                                              *)
(***************************************************************************)
(* An empty workspace file, over any other.                                *)
wsCreate(name) == [disk EXCEPT !.spaces = (name :> <<>>) @@ @]

WorkspaceHead == <<Keyword("create"), Keyword("workspace"), AString>>

defCreateWorkspace ==
  /\ AtStatement /\ Fits(WorkspaceHead)
  /\ IF rest[3].text = <<>> THEN UNCHANGED disk
     ELSE disk' = wsCreate(rest[3].text)
  /\ IF ~err /\ rest[3].text # <<>> /\ Fits(WorkspaceHead \o <<Op(";")>>)
     THEN Skip(4) /\ Finished /\ level' = "file" /\ UNCHANGED <<tbl, err>>
     ELSE Refuse
  /\ UNCHANGED <<locked, files>>

(***************************************************************************)
(* create table, up to the brace before its fields.  Without info the      *)
(* brace has passed for any operator before it is looked at.               *)
(***************************************************************************)
TableHead(info) ==
  <<Keyword("create"), Keyword("table"), AString>> \o
  (IF info THEN <<Keyword("info"), AString, Lax("{")>> ELSE <<Kind("OPERATOR")>>)

defCreateTable ==
  /\ AtStatement
  /\ \E info \in BOOLEAN :
       /\ Fits(TableHead(info))
       /\ Skip(Len(TableHead(info)))
       /\ tbl' = [name   |-> rest[3].text, info |-> IF info THEN rest[5].text ELSE <<>>,
                  fields |-> <<>>]
  /\ level' = "fields"
  /\ UNCHANGED <<disk, locked, err, reading, files>>

CharTail   == <<Keyword("char"), Lax("("), ANumber, Lax(")"), Op(";")>>
NumberTail == <<Keyword("number"), Lax("("), ANumber, Lax(":"), ANumber, Lax(")"), Op(";")>>
FixedTail  == <<Word1({"logical", "date", "time"}), Op(";")>>

(* A date takes eight characters, a time stamp twenty-six.                 *)
FixedLength == ("logical" :> 1) @@ ("date" :> 8) @@ ("time" :> 26)

IsField(tail) == Fits(<<AString>> \o tail)

AddField(tail, len, dec) ==
  /\ IsField(tail)
  /\ tbl' = [tbl EXCEPT !.fields =
       Append(@, [name |-> rest[1].text, type |-> Head(rest[2].text),
                  len |-> len, dec |-> dec, index |-> NoIndex])]
  /\ Skip(Len(tail) + 1)
  /\ UNCHANGED <<level, err, reading>>

ParseField ==
  /\ level = "fields" /\ Next1(AString)
  /\ \/ AddField(CharTail, Head(rest[4].text), 0)
     \/ AddField(NumberTail, Head(rest[4].text), Head(rest[6].text))
     \/ AddField(FixedTail, FixedLength[Head(rest[2].text)], 0)
     \/ ~(IsField(CharTail) \/ IsField(NumberTail) \/ IsField(FixedTail)) /\ Refuse
  /\ UNCHANGED <<disk, locked, files>>

(***************************************************************************)
(* dbBuildTable: buildTable removes a .LCK file, createTable writes the    *)
(* table over any other and it is left open and locked.  Without fields    *)
(* buildTable is given the names of an array that was never set: it finds  *)
(* none, or the process dies.  It dies too when the table has no name, as  *)
(* it uses the table that createTable refused to make.                     *)
(***************************************************************************)
createTable(name, info, fields) ==
  [disk EXCEPT !.tables = (name :> [info |-> info, fields |-> fields, midxs |-> <<>>]) @@ @]

Built == createTable(tbl.name, tbl.info, tbl.fields)

AfterFields(next) == Fits(<<Lax("}")>> \o next)

NoIndexes   == <<Op(";")>>
WithIndexes == <<Keyword("indexed"), Op("{"), Kind("IDENT")>>

dbBuildTable ==
  /\ level = "fields" /\ ~Next1(AString) /\ AfterFields(<<>>) /\ tbl.name # <<>>
  /\ disk' = Built
  /\ \/ /\ ~err /\ AfterFields(NoIndexes)
        /\ locked' = locked \ {tbl.name}                           \* closeTable
        /\ Finished /\ Skip(2) /\ level' = "file" /\ tbl' = NoTable /\ UNCHANGED err
     \/ /\ ~err /\ AfterFields(WithIndexes)
        /\ locked' = locked \cup {tbl.name}
        /\ Skip(3) /\ level' = "clauses" /\ UNCHANGED <<tbl, err, reading>>
     \/ /\ err \/ ~(AfterFields(NoIndexes) \/ AfterFields(WithIndexes))
        /\ locked' = locked \cup {tbl.name}
        /\ Refuse
  /\ UNCHANGED files

BuildDies ==
  /\ level = "fields" /\ ~Next1(AString) /\ AfterFields(<<>>)
  /\ tbl.fields = <<>> \/ tbl.name = <<>>
  /\ locked' = locked \ {tbl.name}
  /\ Stop("died") /\ err' = FALSE /\ UNCHANGED <<disk, files>>

NoBrace ==
  /\ level = "fields" /\ ~Next1(AString) /\ ~AfterFields(<<>>)
  /\ Refuse /\ UNCHANGED <<disk, locked, files>>

(***************************************************************************)
(* The indexes.  A clause is carried out before the token behind it is     *)
(* looked at, and writes the header of the table.                          *)
(***************************************************************************)
Table == disk.tables[tbl.name]

(* As if the length of the field's own name were compared.                 *)
getFieldNumByOwnLength(name) ==
  LET found == {i \in DOMAIN Table.fields : IsPrefix(Table.fields[i].name, name)}
  IN IF found = {} THEN 0 ELSE CHOOSE i \in found : \A j \in found : i <= j

(* The first field whose name begins with the one given, 0 if there is     *)
(* none: createDBIndex and getFieldNum compare strlen characters.          *)
getFieldNum(name) ==
  LET found == {i \in DOMAIN Table.fields : IsPrefix(name, Table.fields[i].name)}
  IN IF found = {} THEN 0 ELSE CHOOSE i \in found : \A j \in found : i <= j

IdxPattern ==
  <<Keyword("idx"), AString, ANumber, Lax(":"), Word1({"case", "nocase"}),
    Lax(":"), Word1({"unique", "dup"}), AString, Op(";")>>

createDBIndex(name, field, isCase, isUnique, blkSize) ==
  disk' = [disk EXCEPT !.tables[tbl.name].fields[field].index =
            [name |-> name, isCase |-> isCase, isUnique |-> isUnique, blkSize |-> blkSize]]

Says(i, word) == rest[i].text = <<word>>

IdxClause ==
  /\ level = "clauses" /\ Next1(Keyword("idx"))
  /\ IF Fits(IdxPattern) /\ getFieldNum(rest[8].text) # 0
     THEN /\ createDBIndex(rest[2].text, getFieldNum(rest[8].text), Says(5, "case"),
                           Says(7, "unique"), Head(rest[3].text))
          /\ Skip(Len(IdxPattern)) /\ UNCHANGED <<level, tbl, err, reading>>
     ELSE Refuse /\ UNCHANGED disk
  /\ UNCHANGED <<locked, files>>

MidxPattern ==
  <<Keyword("midx"), AString, ANumber, Lax(":"), Word1({"case", "nocase"})>>

(* n names with commas between them and a semicolon behind.                *)
NamesPattern(n) ==
  [i \in 1..2 * n |-> IF i % 2 = 1 THEN AString ELSE Op(IF i = 2 * n THEN ";" ELSE ",")]

NamesRead(n) == [i \in 1..n |-> rest[Len(MidxPattern) + 2 * i - 1].text]

CanMultiIndex(names) == /\ Len(Table.midxs) < MAX_MIDX
                        /\ \A i \in DOMAIN names : getFieldNum(names[i]) # 0

createMultiIndex(name, names, isCase, blkSize) ==
  disk' = [disk EXCEPT !.tables[tbl.name].midxs =
            Append(@, [name |-> name, isCase |-> isCase, blkSize |-> blkSize, fields |-> names])]

MidxClause ==
  /\ level = "clauses" /\ Next1(Keyword("midx"))
  /\ LET Takes(n) == Fits(MidxPattern \o NamesPattern(n)) /\ CanMultiIndex(NamesRead(n))
     IN \/ \E n \in 1..Len(rest) :
             /\ Takes(n)
             /\ createMultiIndex(rest[2].text, NamesRead(n), Says(5, "case"), Head(rest[3].text))
             /\ Skip(Len(MidxPattern) + 2 * n) /\ UNCHANGED <<level, tbl, err, reading>>
        \/ /\ \A n \in 1..Len(rest) : ~Takes(n)
           /\ Refuse /\ UNCHANGED disk
  /\ UNCHANGED <<locked, files>>

(* As if closeTable were not called.                                       *)
EndTableOpen ==
  /\ level = "clauses" /\ ~Next1(Word1({"idx", "midx"}))
  /\ IF Fits(<<Op("}"), Op(";")>>)
     THEN Finished /\ Skip(2) /\ level' = "file" /\ tbl' = NoTable /\ UNCHANGED err
     ELSE Refuse
  /\ UNCHANGED <<disk, locked, files>>

EndTable ==
  /\ level = "clauses" /\ ~Next1(Word1({"idx", "midx"}))
  /\ IF Fits(<<Op("}"), Op(";")>>)
     THEN /\ locked' = locked \ {tbl.name}                         \* closeTable
          /\ Finished /\ Skip(2) /\ level' = "file" /\ tbl' = NoTable /\ UNCHANGED err
     ELSE Refuse /\ UNCHANGED locked
  /\ UNCHANGED <<disk, files>>

(***************************************************************************)
(* add.                                                                    *)
(***************************************************************************)
AddPattern(index) ==
  <<Keyword("add"), AString, Keyword("to"), AString>> \o
  (IF index THEN <<Keyword("index"), AString>> ELSE <<>>) \o <<Op(";")>>

openTable(t, lcks) == t \in DOMAIN disk.tables /\ t \notin lcks

(* The index setCurrentIndex makes current: the first whose name begins    *)
(* with the one given; {} if it fails.  No name is an error, any name will *)
(* do for a table without indexes, which has no current index.             *)
setCurrentIndex(t, name) ==
  LET names == IndexNames(disk.tables[t])
      found == {i \in DOMAIN names : IsPrefix(name, names[i])}
  IN IF name = <<>> THEN {}
     ELSE IF names = <<>> THEN {<<>>}
     ELSE IF found = {} THEN {}
     ELSE {names[CHOOSE i \in found : \A j \in found : i <= j]}

(* wsOpen: the number of tables it opens, and all of them or not.  Once    *)
(* dbError is set it stops behind the first one it has opened.             *)
wsOpen(entries) ==
  LET opens(n) == \A i \in 1..n :
        /\ openTable(entries[i].table, locked \cup {entries[j].table : j \in 1..i - 1})
        /\ setCurrentIndex(entries[i].table, entries[i].current) # {}
      most == CHOOSE n \in 0..Len(entries) :
                opens(n) /\ (n < Len(entries) => ~opens(n + 1))
      next == most + 1
  IN IF err THEN [open |-> IF entries # <<>> /\ openTable(entries[1].table, locked)
                           THEN 1 ELSE 0, all |-> FALSE]
     ELSE [open |-> most, all |-> most = Len(entries)]

(* setCurrentIndex is not called without an index clause.                  *)
CurrentOf(t, index) == IF index = <<>> THEN {Default(disk.tables[t])} ELSE setCurrentIndex(t, index)

(* The table and the index that is its current one, behind the others.     *)
wsAddTable(w, t, current) ==
  [disk EXCEPT !.spaces[w] = Append(@, [table |-> t, current |-> current])]

(* wsAddTable enters the table, wsClose writes the workspace file, closes  *)
(* the tables and removes their .LCK files.  A failure leaves what has     *)
(* been opened open.                                                       *)
defAdd ==
  /\ AtStatement
  /\ \E given \in BOOLEAN :
       /\ Fits(AddPattern(given))
       /\ LET t == rest[2].text
              w == rest[4].text
              index == IF given THEN rest[6].text ELSE <<>>
              entries == IF w \in DOMAIN disk.spaces THEN disk.spaces[w] ELSE <<>>
              ws      == wsOpen(entries)
              held    == locked \cup {entries[i].table : i \in 1..ws.open}
              opened  == w \in DOMAIN disk.spaces /\ ws.all
              current == IF opened /\ openTable(t, held) THEN CurrentOf(t, index) ELSE {}
          IN \/ /\ ~err /\ current # {}
                /\ \E c \in current : disk' = wsAddTable(w, t, c)
                /\ Finished /\ Skip(Len(AddPattern(given))) /\ level' = "file"
                /\ UNCHANGED <<tbl, locked, err>>
             \/ /\ err \/ current = {}
                /\ locked' = held \cup (IF opened /\ openTable(t, held) /\ ~err THEN {t} ELSE {})
                /\ Refuse /\ UNCHANGED disk
  /\ UNCHANGED files

(* Nothing that can be a statement.                                        *)
NoStatement ==
  /\ AtStatement
  /\ ~Fits(WorkspaceHead)
  /\ \A b \in BOOLEAN : ~Fits(TableHead(b)) /\ ~Fits(AddPattern(b))
  /\ ~(level = "file" /\ Next1(Kind("DONE")))
  /\ Refuse /\ UNCHANGED <<disk, locked, files>>

(***************************************************************************)
(* Containers.  The error variable is their own: dbError is left alone.    *)
(***************************************************************************)
ContainerHead == <<Keyword("container"), AString, Op("{"), AString>>

parseContainerHead ==
  /\ level = "container head"
  /\ IF Fits(ContainerHead)
     THEN /\ tbl' = [name |-> rest[2].text, fields |-> <<>>] /\ level' = "container"
          /\ Skip(3) /\ UNCHANGED reading
     ELSE Stop("refused")
  /\ UNCHANGED <<disk, locked, err, files>>

ContainerTypes(string) ==
  IF string THEN <<Keyword("string"), Op("("), ANumber, Op(")")>>
            ELSE <<Word1({"int", "long", "float", "double"})>>

ContainerTail(string, key) ==
  ContainerTypes(string) \o (IF key THEN <<Word1({"unique", "dup"})>> ELSE <<>>) \o <<Lax(";")>>

(* Whatever is not an operator passes for the name of a field but the      *)
(* first; only one field may be indexed.                                   *)
parseContainerField ==
  /\ level = "container" /\ ~Next1(Kind("OPERATOR"))
  /\ LET Takes(string, key) ==
           /\ Len(rest) > Len(ContainerTail(string, key))
           /\ \A i \in DOMAIN ContainerTail(string, key) :
                Matches(rest[i + 1], ContainerTail(string, key)[i])
           /\ key => \A i \in DOMAIN tbl.fields : tbl.fields[i].key = "no"
     IN \/ \E string, key \in BOOLEAN :
             LET behind == Len(ContainerTail(string, key))
             IN /\ Takes(string, key)
                /\ tbl' = [tbl EXCEPT !.fields =
                     Append(@, [name |-> rest[1].text, type |-> Head(rest[2].text),
                                len |-> IF string THEN Head(rest[4].text) ELSE 0,
                                key |-> IF key THEN Head(rest[behind].text) ELSE "no"])]
                /\ Skip(behind + 1) /\ UNCHANGED <<level, reading>>
        \/ (\A string, key \in BOOLEAN : ~Takes(string, key)) /\ Stop("refused")
  /\ UNCHANGED <<disk, locked, err, files>>

(* Any operator ends the container, and what follows is not read.          *)
EndContainer ==
  /\ level = "container" /\ Next1(Kind("OPERATOR"))
  /\ disk' = [disk EXCEPT !.containers = (tbl.name :> tbl.fields) @@ @]
  /\ level' = "idle" /\ rest' = <<>> /\ tbl' = NoTable
  /\ reading' = [reading EXCEPT !.result = "accepted", !.done = 1]
  /\ UNCHANGED <<locked, err, files>>

(***************************************************************************)
(* The caller.                                                             *)
(***************************************************************************)
dberror ==
  /\ level = "idle" /\ err /\ err' = FALSE
  /\ UNCHANGED <<rest, level, tbl, disk, locked, reading, files>>

(* The process ends, wherever it is, and another one begins.               *)
Restart ==
  /\ level # "idle"
  /\ Stop("died") /\ err' = FALSE
  /\ UNCHANGED <<disk, locked, files>>

Init ==
  /\ rest = <<>> /\ level = "idle" /\ tbl = NoTable
  /\ disk = EmptyDisk /\ locked = {} /\ err = FALSE
  /\ reading = [stmts |-> <<>>, damaged |-> FALSE, disk |-> EmptyDisk, locked |-> {},
                err |-> FALSE, done |-> 0, result |-> "accepted"]
  /\ files = MaxFiles

Next ==
  \/ parseDBDef \/ parseContainerDefinitionFile \/ EndOfFile
  \/ defCreateWorkspace \/ defCreateTable \/ ParseField
  \/ dbBuildTable \/ BuildDies \/ NoBrace
  \/ IdxClause \/ MidxClause \/ EndTable \/ defAdd \/ NoStatement
  \/ parseContainerHead \/ parseContainerField \/ EndContainer
  \/ dberror \/ Restart

Spec == Init /\ [][Next]_vars

-----------------------------------------------------------------------------
(* What the first n statements of the file make of the disk and the locks. *)
Written(n)     == Meaning(SubSeq(reading.stmts, 1, n), reading.disk)
LockedAfter(n) == reading.locked \
  {reading.stmts[i].name : i \in {j \in 1..n : reading.stmts[j].op = "table"}}

SensibleAt(i) == Sensible(reading.stmts[i], Written(i - 1), LockedAfter(i - 1))

(* A damaged container may end early, see the README.                      *)
Judged == ~(reading.damaged /\ ParsesContainer(reading.stmts))

(* "If it succeeds it returns _OK_ and the objects specified in the        *)
(* definition file will have been created.": between two statements and at *)
(* the end the disk is what the statements read so far say, none of them   *)
(* is lost and no table of theirs is left locked.  That holds for a        *)
(* damaged file too, so no damage makes the parser read something else     *)
(* than was written.  An undamaged file is refused at a statement that     *)
(* makes no sense only, unless dbError was set before.                     *)
DefinedAsWritten ==
  reading.stmts # <<>> /\ Judged =>
    /\ (level = "file" /\ ~reading.damaged) \/ reading.result = "accepted" =>
         /\ disk = Written(reading.done)
         /\ locked = LockedAfter(reading.done)
    /\ reading.result = "accepted" => reading.done = Len(reading.stmts)
    /\ ~reading.damaged =>
         /\ \A i \in 1..reading.done : SensibleAt(i)
         /\ reading.result = "refused" =>
              reading.err \/ ~SensibleAt(reading.done + 1)

Same(f, g, except) == /\ DOMAIN f \ except = DOMAIN g \ except
                      /\ \A x \in DOMAIN f \ except : f[x] = g[x]

(* "it is possible for parseDBDef() to have created some of the objects    *)
(* [...] at the point when a syntax error occurs": a file that is refused, *)
(* and a process that dies while it reads one, leaves what the statements  *)
(* before have made; only what the statement it stopped at has to do with  *)
(* is changed or left locked.  A damage may also have cut the statement    *)
(* short that was done last.                                               *)
FailureIsLocal ==
  reading.result \in {"none", "refused", "died"} =>
    \E n \in {reading.done + 1} \cup {i \in {reading.done} : i > 0 /\ reading.damaged} :
      LET before    == Written(n - 1)
          concerned == IF n <= Len(reading.stmts) THEN Concerned(reading.stmts[n], before)
                       ELSE {}
      IN /\ Same(disk.tables, before.tables, concerned)
         /\ Same(disk.spaces, before.spaces, concerned)
         /\ Same(disk.containers, before.containers, concerned)
         /\ locked \ concerned = LockedAfter(n - 1) \ concerned
=============================================================================
