----------------------------- MODULE MC_DefFile -----------------------------
(* The definition files of the run of DefFile.                             *)
EXTENDS DefFile

Keywords == {"create", "table", "workspace", "add", "to", "info", "index", "indexed", "idx",
             "midx", "case", "nocase", "unique", "dup", "char", "number", "logical", "date",
             "time", "container", "int", "string"}
NameChars == {"t", "u", "w", "c", "a", "b", "i", "j"}
Numbers   == {"9", "2"}

AllLetters   == Keywords \cup NameChars
AllSyllables == NameChars \cup Numbers

Plain(name, type) == [name |-> name, type |-> type, len |-> "9", dec |-> "2"]
Fixed(name, type) == [name |-> name, type |-> type, len |-> FixedLength[type], dec |-> 0]
Char(name)        == [name |-> name, type |-> "char", len |-> "9", dec |-> 0]

TableS(name, info, fields, clauses) ==
  [op |-> "table", name |-> name, info |-> info, fields |-> fields, clauses |-> clauses]
SpaceS(name) == [op |-> "workspace", name |-> name]
AddS(t, w, index) == [op |-> "add", table |-> t, space |-> w, index |-> index]

Idx(name, field, isCase, isUnique) ==
  [kind |-> "idx", name |-> name, blkSize |-> "9", isCase |-> isCase, isUnique |-> isUnique,
   fields |-> <<field>>]
Midx(name, fields, isCase) ==
  [kind |-> "midx", name |-> name, blkSize |-> "9", isCase |-> isCase, isUnique |-> FALSE,
   fields |-> fields]

Key(name, type, key) == [name |-> name, type |-> type,
                         len |-> IF type = "string" THEN "9" ELSE 0, key |-> key]
ContainerS(fields) == [op |-> "container", name |-> <<"c">>, fields |-> fields]

T == <<"t">>  U == <<"u">>  W == <<"w">>
A == <<"a">>  AB == <<"a", "b">>  I == <<"i">>  J == <<"j">>

Whole     == <<TableS(T, W, <<Char(A), Plain(AB, "number")>>,
                      <<Idx(I, A, TRUE, TRUE), Midx(J, <<A, AB>>, FALSE)>>),
               SpaceS(W), AddS(T, W, J)>>
Bare      == <<TableS(U, <<>>, <<Fixed(A, "date"), Fixed(AB, "time")>>, <<>>), AddS(U, W, <<>>)>>
Twice     == <<TableS(T, <<>>, <<Fixed(A, "logical"), Char(AB)>>,
                      <<Idx(J, AB, FALSE, FALSE), Idx(I, A, TRUE, FALSE)>>), AddS(T, W, <<>>)>>
Wide      == <<SpaceS(W), TableS(U, <<>>, <<Char(A)>>, <<Midx(I, <<A>>, TRUE)>>),
               AddS(U, W, I)>>
Excessive == <<TableS(U, <<>>, <<Char(A)>>, <<Midx(I, <<A>>, TRUE), Midx(J, <<A>>, TRUE)>>)>>
Unknown   == <<TableS(U, <<>>, <<Char(A)>>, <<Idx(I, U, TRUE, FALSE)>>), SpaceS(W)>>
Container == <<ContainerS(<<Key(A, "string", "unique"), Key(AB, "int", "no")>>)>>
TwoKeys   == <<ContainerS(<<Key(A, "int", "unique"), Key(AB, "int", "dup")>>)>>

AllPrograms == {Whole, Bare, Twice, Wide, Excessive, Unknown, Container, TwoKeys}

Remarks == {<<NEWLINE>>, <<"/", "*", "*", "a", "*", "*", "/">>, <<"/", "/", "a", NEWLINE>>}
=============================================================================
