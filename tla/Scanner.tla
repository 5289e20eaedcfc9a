------------------------------ MODULE Scanner ------------------------------
(***************************************************************************)
(* The scanner of Go sources.  Each call of scan returns the next token;   *)
(* a newline after a token that can end a statement is returned as a       *)
(* semicolon, and a comment is a token of its own that must not hide the   *)
(* newline it holds or precedes.  Positions are kept up to date one        *)
(* character at a time and are moved by line directives.                   *)
(*                                                                         *)
(* A character is a member of a small alphabet: "sp" is any blank, "nl" a  *)
(* newline, and a member of Directives stands for the text of a whole line *)
(* directive, which is one character wide here.                            *)
(***************************************************************************)
EXTENDS Naturals, Sequences, FiniteSets, FiniteSetsExt, SequencesExt

CONSTANTS
  Texts,      \* the sources that are scanned: sequences of characters
  Letters,    \* the characters identifiers are made of
  Operators,  \* operators, sequences of characters without "/"
  Ending,     \* the operators and keywords that can end a statement
  Keywords,   \* sequences of letters
  Directives, \* the line directives, with the line and the column of each
  None        \* no position, no directive

\* "end" is what At finds after the last character.
ASSUME TextsAssumption == \A t \in Texts : t \in Seq(Range(t) \ {"end"})

\* The line of a directive, 0 where it is malformed, and the column, 0 where it
\* has none.
ASSUME DirectivesAssumption ==
  \A d \in DOMAIN Directives : Directives[d] \in [line : Nat, column : Nat]

Quotes == {"dq", "bq"}

\* No operator starts as a comment, a string or an identifier does, and only
\* operators and keywords can end a statement.
ASSUME OperatorsAssumption ==
  /\ Letters \cap (Quotes \cup {"/", "*", "sp", "nl", "end"}) = {}
  /\ \A op \in Operators : /\ op \in Seq(Range(op)) \ {<<>>}
                           /\ Head(op) \notin Letters \cup Quotes \cup {"/", "sp", "nl"}
  /\ \A word \in Keywords : Len(word) > 1 /\ \A i \in DOMAIN word : word[i] \in Letters
  /\ Ending \subseteq Operators \cup Keywords

VARIABLES
  text,             \* buffer
  cursor,           \* offset, line, column, pending_line_info, hide_column
  insert_semi,      \* a newline here is a semicolon
  pending_semi,     \* the next call returns a semicolon
  pending_semi_pos, \* and this is its position
  items,            \* history: what the calls of scan returned
  done              \* IntoIter has returned EOF or an error

scanVars == <<text, cursor, insert_semi, pending_semi, pending_semi_pos, items, done>>

ScanInit ==
  /\ text \in Texts
  /\ cursor = [offset |-> 0, line |-> 1, column |-> 1, info |-> None, hide |-> FALSE]
  /\ insert_semi = FALSE
  /\ pending_semi = FALSE
  /\ pending_semi_pos = None
  /\ items = <<>>
  /\ done = FALSE

At(o) == IF o < Len(text) THEN text[o + 1] ELSE "end"

Slice(from, to) == SubSeq(text, from + 1, to)

\* The first place from o on that holds one of chars, or the end of the text.
FirstOf(chars, o) == Min({i \in o .. Len(text) : At(i) \in chars \cup {"end"}})

\* The first place from o on that holds none of chars.
FirstNotOf(chars, o) == Min({i \in o .. Len(text) : At(i) \notin chars})

-----------------------------------------------------------------------------
(* Positions.                                                              *)

ConsumeInfo(c) ==
  IF c.info = None THEN c
  ELSE [c EXCEPT !.line = c.info.line,
                 !.column = IF c.info.column = 0 THEN @ ELSE c.info.column,
                 !.hide = c.info.column = 0,
                 !.info = None]

\* Mutant: a newline does not start a column.
NextCharKeepsColumn(c) ==
  LET moved == [c EXCEPT !.offset = @ + 1, !.column = @ + 1]
  IN  IF At(c.offset) = "nl" /\ c.offset + 1 < Len(text)
      THEN ConsumeInfo([moved EXCEPT !.line = @ + 1])
      ELSE moved

\* A line begins with its first character: at the end of a text that ends in a
\* newline the position is still on the line of that newline.
NextChar(c) ==
  LET moved == [c EXCEPT !.offset = @ + 1, !.column = @ + 1]
  IN  IF At(c.offset) = "nl" /\ c.offset + 1 < Len(text)
      THEN ConsumeInfo([moved EXCEPT !.line = @ + 1, !.column = 1])
      ELSE moved

\* The characters up to place o are read one by one.
ReadTo(c, o) ==
  LET reading[k \in c.offset .. o] ==
        IF k = c.offset THEN c ELSE NextChar(reading[k - 1])
  IN  reading[o]

Place(c) == [offset |-> c.offset, line |-> c.line, column |-> c.column]

\* What scan returns: a token, the text it covers and the position it reports.
Item(tok, from, to, place, hide) ==
  [tok |-> tok, from |-> from, to |-> to,
   pos |-> [place EXCEPT !.column = IF hide THEN 0 ELSE @]]

-----------------------------------------------------------------------------
(* The parts of scan.                                                      *)

\* Blanks are skipped, and newlines unless one ends a statement.
Start ==
  ReadTo(cursor, FirstNotOf({"sp"} \cup (IF insert_semi THEN {} ELSE {"nl"}), cursor.offset))

\* The text is read to the end of the token that starts at a position.
Return(tok, start, end) ==
  LET read == ReadTo(start, end)
  IN  /\ items' = Append(items, Item(tok, start.offset, end, Place(start), read.hide))
      /\ cursor' = read

\* The iterator ends with an error, which never hides its column.
Error(start) ==
  /\ items' = Append(items, Item("error", start.offset, start.offset, Place(start), FALSE))
  /\ cursor' = start
  /\ done' = TRUE

\* The semicolon that a comment with a newline in it left behind.
PendingSemicolon ==
  /\ pending_semi
  /\ pending_semi' = FALSE
  /\ pending_semi_pos' = None
  /\ items' = Append(items, Item("newline", pending_semi_pos.offset, pending_semi_pos.offset,
                                 pending_semi_pos, cursor.hide))
  /\ UNCHANGED <<text, cursor, insert_semi, done>>

\* A newline, or the end of the text, after a token that can end a statement.
InsertSemicolon ==
  LET start == Start
  IN  /\ insert_semi
      /\ At(start.offset) \in {"nl", "end"}
      /\ Return("newline", start, start.offset + (IF At(start.offset) = "nl" THEN 1 ELSE 0))
      /\ insert_semi' = FALSE
      /\ UNCHANGED <<pending_semi, pending_semi_pos, done>>

EndOfFile ==
  LET start == Start
  IN  /\ ~insert_semi
      /\ At(start.offset) = "end"
      /\ Return("EOF", start, start.offset)
      /\ done' = TRUE
      /\ UNCHANGED <<insert_semi, pending_semi, pending_semi_pos>>

\* A keyword or an identifier.
Word ==
  LET start == Start
      end   == FirstNotOf(Letters, start.offset)
      word  == Slice(start.offset, end)
  IN  /\ At(start.offset) \in Letters
      /\ Return(IF word \in Keywords THEN "keyword" ELSE "IDENT", start, end)
      /\ insert_semi' = (word \notin Keywords \/ word \in Ending)
      /\ UNCHANGED <<pending_semi, pending_semi_pos, done>>

\* The longest operator that the text goes on with.
Operator ==
  LET start == Start
      found == {op \in Operators : /\ start.offset + Len(op) <= Len(text)
                                   /\ op = Slice(start.offset, start.offset + Len(op))}
  IN  \E op \in found :
        /\ \A other \in found : Len(other) <= Len(op)
        /\ Return("operator", start, start.offset + Len(op))
        /\ insert_semi' = (op \in Ending)
        /\ UNCHANGED <<pending_semi, pending_semi_pos, done>>

\* A string, interpreted (without escapes) or raw: either may hold newlines.
QuotedString ==
  LET start == Start
      quote == At(start.offset)
      close == FirstOf({quote}, start.offset + 1)
  IN  /\ quote \in Quotes
      /\ insert_semi' = TRUE
      /\ IF close < Len(text)
         THEN Return("STRING", start, close + 1) /\ UNCHANGED done
         ELSE Error(ReadTo(start, close))
      /\ UNCHANGED <<pending_semi, pending_semi_pos>>

-----------------------------------------------------------------------------
(* Comments.                                                               *)

IsDirective(body) == body # <<>> /\ Head(body) \in DOMAIN Directives

\* A comment to the end of the line.  The newline is left to the next call,
\* which inserts a semicolon if this one would have.  A directive at the start
\* of a line holds from the next line on.
LineComment ==
  LET start == Start
      end   == FirstOf({"nl"}, start.offset)
      body  == Slice(start.offset + 2, end)
      directive == start.column = 1 /\ IsDirective(body)
  IN  /\ At(start.offset) = "/" /\ At(start.offset + 1) = "/"
      /\ IF directive /\ Directives[Head(body)].line = 0
         THEN Error(ReadTo(start, end))
         ELSE /\ LET read == ReadTo(start, end)
                 IN  /\ items' = Append(items, Item("COMMENT", start.offset, end, Place(start), read.hide))
                     /\ cursor' = IF directive THEN [read EXCEPT !.info = Directives[Head(body)]] ELSE read
              /\ UNCHANGED done
      /\ UNCHANGED <<insert_semi, pending_semi, pending_semi_pos>>

\* Mutant: only the comment itself is looked through.
FindLineEndOneComment(o) ==
  LET lineEnd[i \in o .. Len(text) + 1] == [inComment \in BOOLEAN |->
        CASE At(i) = "end" -> ~inComment
          [] inComment /\ At(i) = "/" /\ At(i + 1) = "*" -> lineEnd[i + 2][TRUE]
          [] At(i) = "*" /\ At(i + 1) = "/" -> lineEnd[i + 2][FALSE]
          [] At(i) = "nl" -> TRUE
          [] OTHER -> (inComment \/ At(i) = "sp") /\ lineEnd[i + 1][inComment]]
  IN  lineEnd[o][TRUE]

\* find_line_end: from a comment on, only comments and blanks come before the
\* next newline.  It looks at two characters at a time, and in a comment that
\* ends in "/*/" it misses the end.
FindLineEnd(o) ==
  LET lineEnd[i \in o .. Len(text) + 1] == [inComment \in BOOLEAN |->
        CASE At(i) = "end" -> ~inComment
          [] ~inComment /\ At(i) = "/" /\ At(i + 1) = "/" -> TRUE
          [] At(i) = "/" /\ At(i + 1) = "*" -> lineEnd[i + 2][TRUE]
          [] At(i) = "*" /\ At(i + 1) = "/" -> lineEnd[i + 2][FALSE]
          [] At(i) = "nl" -> TRUE
          [] OTHER -> (inComment \/ At(i) = "sp") /\ lineEnd[i + 1][inComment]]
  IN  lineEnd[o][TRUE]

\* The end of the general comment that starts at o, 0 when nothing closes it.
CommentEnd(o) ==
  LET closes == {i \in o + 2 .. Len(text) - 2 : At(i) = "*" /\ At(i + 1) = "/"}
  IN  IF closes = {} THEN 0 ELSE Min(closes) + 2

\* A comment between "/*" and "*/".  The newline it stands for, inside it or
\* before the next token, must still be a semicolon.  A directive holds at once.
GeneralComment ==
  LET start   == Start
      end     == CommentEnd(start.offset)
      newline == FirstOf({"nl"}, start.offset)
      track   == insert_semi /\ FindLineEnd(start.offset)
      body    == Slice(start.offset + 2, end - 2)
  IN  /\ At(start.offset) = "/" /\ At(start.offset + 1) = "*"
      /\ IF end = 0
         THEN /\ Error(ReadTo(start, Len(text)))
              /\ insert_semi' = FALSE
              /\ UNCHANGED <<pending_semi, pending_semi_pos>>
         ELSE /\ pending_semi' = (track /\ newline < end)
              /\ pending_semi_pos' = IF pending_semi' THEN Place(ReadTo(start, newline)) ELSE None
              /\ insert_semi' = (track /\ newline >= end)
              /\ IF ~IsDirective(body) THEN Return("COMMENT", start, end) /\ UNCHANGED done
                 ELSE IF Directives[Head(body)].line = 0 THEN Error(ReadTo(start, end))
                 ELSE LET read == ReadTo(start, end)
                      IN  /\ items' = Append(items, Item("COMMENT", start.offset, end, Place(start), read.hide))
                          /\ cursor' = ConsumeInfo([read EXCEPT !.info = Directives[Head(body)]])
                          /\ UNCHANGED done

Slash ==
  LET start == Start
  IN  /\ At(start.offset) = "/" /\ At(start.offset + 1) \notin {"/", "*"}
      /\ Return("operator", start, start.offset + (IF At(start.offset + 1) = "=" THEN 2 ELSE 1))
      /\ insert_semi' = FALSE
      /\ UNCHANGED <<pending_semi, pending_semi_pos, done>>

IllegalCharacter ==
  LET start == Start
  IN  /\ At(start.offset) \notin Letters \cup Quotes \cup {"/", "nl", "end"}
      /\ \A op \in Operators : Head(op) # At(start.offset)
      /\ Error(start)
      /\ insert_semi' = FALSE
      /\ UNCHANGED <<pending_semi, pending_semi_pos>>

\* One call of scan.
Scan ==
  /\ ~done
  /\ \/ PendingSemicolon
     \/ /\ ~pending_semi
        /\ UNCHANGED text
        /\ \/ InsertSemicolon \/ EndOfFile \/ Word \/ Operator \/ QuotedString
           \/ LineComment \/ GeneralComment \/ Slash \/ IllegalCharacter

-----------------------------------------------------------------------------
(* What the scanner promises.                                              *)

\* The item before the last that is a token of the text, 0 if there is none.
TokenBefore ==
  LET tokens == {i \in 1 .. Len(items) - 1 : items[i].tok \notin {"COMMENT", "newline"}}
  IN  IF tokens = {} THEN 0 ELSE Max(tokens)

\* The Go specification's rule: a token that can end a statement is followed by
\* a semicolon if a newline, or the end of the text, comes before the next one.
EndsStatement(item) ==
  \/ item.tok \in {"IDENT", "STRING"}
  \/ Slice(item.from, item.to) \in Ending

\* A comment that ends in "/*/": FindLineEnd misses its end.
EndsOverlapped(item) ==
  item.tok = "COMMENT" /\ item.to - item.from > 3 /\ Slice(item.to - 3, item.to) = <<"/", "*", "/">>

\* Wherever comments stand, there is one semicolon between two tokens if Go's
\* rule puts one there, and it is at the first newline after the first of them;
\* otherwise there is none.  Only a comment that ends in "/*/" may lose it.
SemicolonsAsInGo ==
  \/ items = <<>>
  \/ Last(items).tok \in {"COMMENT", "newline", "error"}
  \/ TokenBefore = 0 /\ \A i \in DOMAIN items : items[i].tok # "newline"
  \/ LET before  == items[TokenBefore]
         between == TokenBefore + 1 .. Len(items) - 1
         semis   == {i \in between : items[i].tok = "newline"}
         newline == FirstOf({"nl"}, before.to)
     IN  /\ TokenBefore # 0
         /\ IF EndsStatement(before) /\ newline <= Last(items).from
            THEN \/ \E i \in between : semis = {i} /\ items[i].pos.offset = newline
                 \/ semis = {} /\ \E i \in between : EndsOverlapped(items[i])
            ELSE semis = {}

Newlines(from, to) == {o \in from .. to - 1 : At(o) = "nl"}

\* The scanner knows the start of a line by column 1: where a line directive
\* has set another column, a second one at the start of the line is not seen.
StartsLine(item) ==
  /\ item.from = 0 \/ At(item.from - 1) = "nl"
  /\ item.pos.column \in {0, 1}

\* The directive of a comment that takes effect, and where it does: a general
\* comment's after it, a line comment's after its newline.
Effect(item) ==
  LET unit    == At(item.from + 2)
      general == At(item.from + 1) = "*"
  IN  IF item.tok = "COMMENT" /\ unit \in DOMAIN Directives /\ (general \/ StartsLine(item))
      THEN {[from |-> item.to + (IF general THEN 0 ELSE 1), to |-> Directives[unit]]}
      ELSE {}

Effects(o) == {e \in UNION {Effect(items[i]) : i \in DOMAIN items} : e.from <= o}

Latest(effects) == CHOOSE e \in effects : \A f \in effects : f.from <= e.from

\* The column of a place: counted from the start of its line, or from the last
\* directive on that line that sets one.
TrueColumn(o) ==
  LET line == Max({0} \cup {n + 1 : n \in Newlines(0, o)})
      set  == {e \in Effects(o) : e.from >= line /\ e.to.column > 0}
  IN  IF set = {} THEN o - line + 1 ELSE Latest(set).to.column + (o - Latest(set).from)

\* The line of a place: that of the last directive before it and the lines that
\* have begun since.
TrueLine(o) ==
  LET effects == Effects(o)
  IN  IF effects = {} THEN 1 + Cardinality(Newlines(0, o))
      ELSE Latest(effects).to.line + Cardinality(Newlines(Latest(effects).from, o))

\* After a directive without a column the place has none (hide_column).
ColumnHidden(o) == Effects(o) # {} /\ Latest(Effects(o)).to.column = 0

\* Every position that is reported is that of the token, counted from the line
\* directive in force, the positions of semicolons inside comments among them.
\* An error reports its column even where that directive hides it.
\* (The end of a text that ends in a newline is reported on the line before.)
PositionsTrue ==
  \/ items = <<>>
  \/ Last(items).pos.offset = Len(text) /\ Len(text) > 0 /\ Last(text) = "nl"
  \/ LET o == Last(items).pos.offset
     IN  /\ Last(items).pos.line = TrueLine(o)
         /\ Last(items).pos.column =
              IF Last(items).tok # "error" /\ ColumnHidden(o) THEN 0 ELSE TrueColumn(o)
=============================================================================
