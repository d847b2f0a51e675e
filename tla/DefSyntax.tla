------------------------------ MODULE DefSyntax ------------------------------
(***************************************************************************)
(* What a definition file says: the statements its writer means, their     *)
(* text, and what is on the disk when all of them have been carried out.   *)
(* This is the promise; module DefFile has the program.                    *)
(*                                                                         *)
(*   a table      fields, each with a type, two extents and an index (or   *)
(*                NoIndex), and midxs, the indexes of several fields       *)
(*   a workspace  its tables, each with the name of its current index      *)
(*   a container  its fields                                               *)
(*                                                                         *)
(* A name is a sequence of syllables, <<>> being no name.                  *)
(***************************************************************************)
EXTENDS Integers, Sequences, SequencesExt, FiniteSets, TLC

CONSTANT MAX_MIDX (* the most indexes of several fields that a table has   *)

NoIndex == [name |-> <<>>]

EmptyDisk == [tables |-> <<>>, spaces |-> <<>>, containers |-> <<>>]

Names(fields) == {fields[i].name : i \in DOMAIN fields}

(***************************************************************************)
(* The text.                                                               *)
(***************************************************************************)
Quoted(name) == <<"\"">> \o name \o <<"\"">>

Extent(f) == CASE f.type = "char"   -> <<"(", f.len, ")">>
               [] f.type = "number" -> <<"(", f.len, ":", f.dec, ")">>
               [] f.type = "string" -> <<"(", f.len, ")">>
               [] OTHER             -> <<>>

FieldText(f) == Quoted(f.name) \o <<f.type>> \o Extent(f)

Separated(texts, by) ==
  FoldLeft(LAMBDA all, t : all \o (IF all = <<>> THEN <<>> ELSE <<by>>) \o t, <<>>, texts)

Letter(isCase)      == IF isCase THEN "case" ELSE "nocase"
Multiple(isUnique)  == IF isUnique THEN "unique" ELSE "dup"

ClauseText(c) ==
  <<c.kind, " ">> \o Quoted(c.name) \o <<c.blkSize, ":", Letter(c.isCase)>> \o
  (IF c.kind = "idx" THEN <<":", Multiple(c.isUnique)>> ELSE <<>>) \o
  Separated([i \in DOMAIN c.fields |-> Quoted(c.fields[i])], ",") \o <<";">>

TableText(s) ==
  <<"create", " ", "table">> \o Quoted(s.name) \o
  (IF s.info = <<>> THEN <<>> ELSE <<"info">> \o Quoted(s.info)) \o <<"{">> \o
  FlattenSeq([i \in DOMAIN s.fields |-> FieldText(s.fields[i]) \o <<";">>]) \o <<"}">> \o
  (IF s.clauses = <<>> THEN <<";">>
   ELSE <<"indexed", "{">> \o
        FlattenSeq([i \in DOMAIN s.clauses |-> ClauseText(s.clauses[i])]) \o <<"}", ";">>)

AddText(s) ==
  <<"add">> \o Quoted(s.table) \o <<"to">> \o Quoted(s.space) \o
  (IF s.index = <<>> THEN <<>> ELSE <<"index">> \o Quoted(s.index)) \o <<";">>

ContainerText(s) ==
  <<"container">> \o Quoted(s.name) \o <<"{">> \o
  FlattenSeq([i \in DOMAIN s.fields |->
    FieldText(s.fields[i]) \o
    (IF s.fields[i].key = "no" THEN <<>> ELSE <<" ", s.fields[i].key>>) \o <<";">>]) \o <<"}">>

StatementText(s) ==
  CASE s.op = "table"     -> TableText(s)
    [] s.op = "workspace" -> <<"create", " ", "workspace">> \o Quoted(s.name) \o <<";">>
    [] s.op = "add"       -> AddText(s)
    [] s.op = "container" -> ContainerText(s)

(* A file: its statements, with a comment or a blank behind each.          *)
FileText(stmts, between) ==
  FlattenSeq([i \in DOMAIN stmts |-> StatementText(stmts[i]) \o between])

(***************************************************************************)
(* The meaning.                                                            *)
(***************************************************************************)
IndexOf(field, clauses) ==
  LET on == {i \in DOMAIN clauses : clauses[i].kind = "idx" /\ clauses[i].fields = <<field>>}
  IN IF on = {} THEN NoIndex
     ELSE LET c == clauses[CHOOSE i \in on : \A j \in on : j <= i]
          IN [name |-> c.name, isCase |-> c.isCase, isUnique |-> c.isUnique,
              blkSize |-> c.blkSize]

TableMeant(s) ==
  [info   |-> s.info,
   fields |-> [i \in DOMAIN s.fields |->
                [name |-> s.fields[i].name, type |-> s.fields[i].type,
                 len |-> s.fields[i].len, dec |-> s.fields[i].dec,
                 index |-> IndexOf(s.fields[i].name, s.clauses)]],
   midxs  |-> LET wide == SelectSeq(s.clauses, LAMBDA c : c.kind = "midx")
              IN [i \in DOMAIN wide |->
                   [name |-> wide[i].name, isCase |-> wide[i].isCase,
                    blkSize |-> wide[i].blkSize, fields |-> wide[i].fields]]]

(* The indexes of a table, those of single fields first.                   *)
IndexNames(t) ==
  LET single == SelectSeq(t.fields, LAMBDA f : f.index # NoIndex)
  IN [i \in DOMAIN single |-> single[i].index.name] \o
     [i \in DOMAIN t.midxs |-> t.midxs[i].name]

(* Without an index clause the last index of a single field is current.    *)
Default(t) ==
  LET single == SelectSeq(t.fields, LAMBDA f : f.index # NoIndex)
  IN IF single = <<>> THEN <<>> ELSE Last(single).index.name

CurrentMeant(t, index) == IF index = <<>> \/ IndexNames(t) = <<>> THEN Default(t) ELSE index

Known(t, index) == IndexNames(t) = <<>> \/ index \in Range(IndexNames(t))

(* A workspace can be opened when all its tables are there and closed, and *)
(* each has a current index: the program opens no table without one.       *)
CanOpen(entries, tables, locked) ==
  \A e \in Range(entries) :
    /\ e.table \in DOMAIN tables \ locked
    /\ e.current # <<>>
    /\ Known(tables[e.table], e.current)

Sensible(s, disk, locked) ==
  CASE s.op = "table" ->
         /\ \A c \in Range(s.clauses) : Range(c.fields) \subseteq Names(s.fields)
         /\ Len(SelectSeq(s.clauses, LAMBDA c : c.kind = "midx")) <= MAX_MIDX
    [] s.op = "workspace" -> TRUE
    [] s.op = "container" -> Cardinality({i \in DOMAIN s.fields : s.fields[i].key # "no"}) <= 1
    [] s.op = "add" ->
         /\ s.space \in DOMAIN disk.spaces
         /\ s.table \in DOMAIN disk.tables \ locked
         /\ CanOpen(disk.spaces[s.space], disk.tables, locked)
         /\ \A e \in Range(disk.spaces[s.space]) : e.table # s.table
         /\ s.index # <<>> => Known(disk.tables[s.table], s.index)

Carried(disk, s) ==
  CASE s.op = "table"     -> [disk EXCEPT !.tables = (s.name :> TableMeant(s)) @@ @]
    [] s.op = "workspace" -> [disk EXCEPT !.spaces = (s.name :> <<>>) @@ @]
    [] s.op = "container" -> [disk EXCEPT !.containers = (s.name :> s.fields) @@ @]
    [] s.op = "add"       ->
         [disk EXCEPT !.spaces[s.space] =
           Append(@, [table   |-> s.table,
                      current |-> CurrentMeant(disk.tables[s.table], s.index)])]

(* The disk when the statements have been carried out, one by one.         *)
Meaning(stmts, disk) == FoldLeft(Carried, disk, stmts)

(* The tables and workspaces a statement has to do with.                   *)
Concerned(s, disk) ==
  CASE s.op = "add" /\ s.space \in DOMAIN disk.spaces ->
         {s.table, s.space} \cup {e.table : e \in Range(disk.spaces[s.space])}
    [] s.op = "add" -> {s.table, s.space}
    [] OTHER        -> {s.name}
=============================================================================
