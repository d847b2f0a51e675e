------------------------------- MODULE Tokens -------------------------------
(***************************************************************************)
(* The tokenizer of token.c: a definition file as a sequence of characters *)
(* and the tokens getToken makes of it.  A character is a string; one that *)
(* stands for letters or digits may be a whole syllable, so a word is a    *)
(* sequence of syllables.  As a definition file is only read, the calls of *)
(* getToken are made all at once (Scan).                                   *)
(***************************************************************************)
EXTENDS Integers, Sequences, SequencesExt

CONSTANTS Letters,      (* the characters isalpha or '_' accepts           *)
          Digits,       (* the characters isdigit accepts                  *)
          MAXIDSIZE,    (* no word is longer (in syllables)                *)
          MAXTOKENSIZE  (* no string is longer                             *)

EOF     == "EOF"
NEWLINE == "newline"
White   == {" ", "tab"}

(* A scanner is at a label of getToken, has id before it and has returned  *)
(* the tokens of out.                                                      *)
Start == [state |-> "OUTSIDE", id |-> <<>>, out |-> <<>>]

Goto(s, label)    == [s EXCEPT !.state = label]
Save(s, c, label) == [s EXCEPT !.id = Append(@, c), !.state = label]
Begin(s, c, label) == [s EXCEPT !.id = <<c>>, !.state = label]

(* PARSE_ERROR, after which no caller goes on.                             *)
ParseError(s) == [s EXCEPT !.state = "STOPPED",
                           !.out = Append(@, [kind |-> "PARSE_ERROR", text |-> s.id])]

SaveIfRoom(s, c, max) == IF Len(s.id) >= max THEN ParseError(s) ELSE Save(s, c, s.state)

(* The token is complete with the character read: keep is FALSE.           *)
Return(s, kind) == [s EXCEPT !.state = "OUTSIDE",
                             !.out = Append(@, [kind |-> kind, text |-> s.id])]

(* What may follow the first character of an operator of two.              *)
SecondOf == [c \in {"!", ">", "<", "^", "=", "*"} |-> {"="}] @@
            [c \in {"|", "&"} |-> {c}] @@
            ("+" :> {"+", "="}) @@ ("-" :> {"-", ">", "="})

Outside(s, c) ==
  CASE c \in White \cup {NEWLINE, "return"} -> Goto(s, "OUTSIDE")
    [] c \in Letters           -> Begin(s, c, "IDENTIFIER")
    [] c \in Digits            -> Begin(s, c, "NUMBER")
    [] c = "\""                -> Goto(s, "FIRST_OF_STRING")
    [] c \in DOMAIN SecondOf   -> Begin(s, c, "SECOND_OF_OPERATOR")
    [] c = "#"                 -> Begin(s, c, "PREPROCESSOR")
    [] c = "/"                 -> Goto(s, "AWAIT_ASTERISK")
    [] c = "'"                 -> Goto(s, "FIRST_OF_CHAR")
    [] c = EOF                 -> Goto(Return([s EXCEPT !.id = <<"(", EOF, ")">>], "DONE"),
                                       "STOPPED")
    [] OTHER                   -> Return(Begin(s, c, "OUTSIDE"), "OPERATOR")

(* The character read belongs to the next token: keep is TOKTRUE.          *)
ReturnAndKeep(s, kind, c) == Outside(Return(s, kind), c)

Operator(s, second, c) ==
  IF c \in second THEN Return(Save(s, c, "OUTSIDE"), "OPERATOR")
                  ELSE ReturnAndKeep(s, "OPERATOR", c)

Word(s, c) ==
  IF c \in Letters \cup Digits THEN SaveIfRoom(s, c, MAXIDSIZE)
  ELSE ReturnAndKeep(s, IF s.state = "NUMBER" THEN "NUMBER" ELSE "IDENT", c)

FirstOfString(s, c) ==
  IF c = "\"" THEN Return([s EXCEPT !.id = <<>>], "STRING")
              ELSE Begin(s, c, "STRING_CONSTANT")

(* The end of the file is saved until there is no more room.               *)
StringConstant(s, c) ==
  CASE c = "\"" /\ Last(s.id) = "\\" -> Save(s, c, "STRING_CONSTANT")
    [] c = "\"" /\ Last(s.id) # "\\" -> Return(s, "STRING")
    [] c = "\\"                      -> Goto(s, "ESCAPE")
    [] c \in {NEWLINE, EOF}          -> ParseError(s)
    [] OTHER                         -> SaveIfRoom(s, c, MAXTOKENSIZE)

Escape(s, c) ==
  IF c = NEWLINE THEN Goto(s, "CONTINUED_STRING")
                 ELSE Save(Save(s, "\\", s.state), c, "STRING_CONSTANT")

ContinuedString(s, c) ==
  IF c \in White THEN s ELSE StringConstant(Goto(s, "STRING_CONSTANT"), c)

CharConstant(s, c) ==
  CASE c = "'" -> Return(s, "CHAR_CONST")
    [] c = EOF -> ParseError(s)
    [] OTHER   -> SaveIfRoom(Goto(s, "CHAR_CONSTANT"), c, MAXIDSIZE)

FirstOfChar(s, c) == Begin(s, c, IF c = "\\" THEN "SECOND_OF_CHAR" ELSE "CHAR_CONSTANT")

SecondOfChar(s, c) == IF c = "'" THEN Save(s, c, "CHAR_CONSTANT") ELSE CharConstant(s, c)

(* A slash that begins no comment is an operator, and the character behind *)
(* it is lost: the one after that is looked at for an equals sign.         *)
AwaitAsterisk(s, c) ==
  CASE c = "*" -> Goto(s, "REMARK")
    [] c = "/" -> Goto(s, "CPP_REMARK")
    [] OTHER   -> Begin(s, "/", "AWAIT_EQUALS")

(* No comment ends at the end of the file: the loop goes on for ever.      *)
Remark(s, c)     == Goto(s, IF c = "*" THEN "AWAIT_SLASH" ELSE "REMARK")
AwaitSlash(s, c) == IF c = "/" THEN Goto(s, "OUTSIDE") ELSE Remark(s, c)
CppRemark(s, c)  == Goto(s, IF c = NEWLINE THEN "OUTSIDE" ELSE "CPP_REMARK")

Preprocessor(s, c) ==
  CASE c = NEWLINE -> Return(s, "PREPROC")
    [] c = "\\"    -> Goto(s, "CONTINUED_LINE")
    [] c = EOF     -> ParseError(s)
    [] OTHER       -> SaveIfRoom(Goto(s, "PREPROCESSOR"), c, MAXIDSIZE)

ContinuedLine(s, c) ==
  CASE s.state = "CONTINUED_LINE" /\ c = NEWLINE -> Goto(s, "SKIP_WHITE")
    [] c \in White -> Goto(s, "SKIP_WHITE")
    [] OTHER       -> SaveIfRoom(Goto(s, "PREPROCESSOR"), c, MAXIDSIZE)

getChar(s, c) ==
  CASE s.state = "OUTSIDE"                        -> Outside(s, c)
    [] s.state \in {"IDENTIFIER", "NUMBER"}       -> Word(s, c)
    [] s.state = "FIRST_OF_STRING"                -> FirstOfString(s, c)
    [] s.state = "STRING_CONSTANT"                -> StringConstant(s, c)
    [] s.state = "ESCAPE"                         -> Escape(s, c)
    [] s.state = "CONTINUED_STRING"               -> ContinuedString(s, c)
    [] s.state = "SECOND_OF_OPERATOR"             -> Operator(s, SecondOf[Head(s.id)], c)
    [] s.state = "AWAIT_ASTERISK"                 -> AwaitAsterisk(s, c)
    [] s.state = "AWAIT_EQUALS"                   -> Operator(s, {"="}, c)
    [] s.state = "REMARK"                         -> Remark(s, c)
    [] s.state = "AWAIT_SLASH"                    -> AwaitSlash(s, c)
    [] s.state = "CPP_REMARK"                     -> CppRemark(s, c)
    [] s.state = "FIRST_OF_CHAR"                  -> FirstOfChar(s, c)
    [] s.state = "SECOND_OF_CHAR"                 -> SecondOfChar(s, c)
    [] s.state = "CHAR_CONSTANT"                  -> CharConstant(s, c)
    [] s.state = "PREPROCESSOR"                   -> Preprocessor(s, c)
    [] s.state \in {"CONTINUED_LINE", "SKIP_WHITE"} -> ContinuedLine(s, c)
    [] s.state = "STOPPED"                        -> s

(* The file with what get_next_char returns behind its end.                *)
Scan(text) == FoldLeft(getChar, Start, text \o <<EOF, EOF>>)

(* The tokens getToken returns, and whether it comes back with the last.   *)
Tokens(text)     == Scan(text).out
Terminates(text) == Scan(text).state = "STOPPED"
=============================================================================
