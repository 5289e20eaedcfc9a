--------------------------- MODULE CommentGroups ---------------------------
(***************************************************************************)
(* How the parser takes tokens from the scanner.  Parser::next sets the    *)
(* comments aside and makes groups of them: those on the line of the       *)
(* previous token are its line comment, those that end on the line before  *)
(* the next token its lead comment, which documents a declaration.         *)
(***************************************************************************)
EXTENDS Scanner

VARIABLES
  current,      \* current_step
  comments,     \* the comments of the call of next that is under way
  all_comments, \* every group so far
  lead_comment, \* the group before the current token, <<>> if there is none
  line_comment  \* the group after the previous token, <<>> if there is none

feedVars == <<current, comments, all_comments, lead_comment, line_comment>>
sourceVars == <<scanVars, feedVars>>

\* Before the first token the position is the default one, line 0.
FeedInit ==
  /\ ScanInit
  /\ current = [tok |-> "EOF", from |-> 0, to |-> 0, pos |-> [offset |-> 0, line |-> 0, column |-> 0]]
  /\ comments = <<>>
  /\ all_comments = <<>>
  /\ lead_comment = <<>>
  /\ line_comment = <<>>

\* consume_comment_group: the comments from the i-th on that go together, with
\* at most n newlines between one and the next.  The last of them.
GroupEnd(i, n) ==
  Max({k \in i .. Len(comments) :
         \A j \in i .. k - 1 : Cardinality(Newlines(comments[j].to, comments[j + 1].from)) <= n})

EndLine(comment) == comment.pos.line + Cardinality(Newlines(comment.from, comment.to))

\* The comments from the i-th on in groups, and before them the line comment.
Groups(i) ==
  LET grouped[k \in i .. Len(comments) + 1] ==
        IF k > Len(comments) THEN <<>>
        ELSE <<SubSeq(comments, k, GroupEnd(k, 1))>> \o grouped[GroupEnd(k, 1) + 1]
  IN  grouped[i]

\* The number of comments on the line of the previous token.
OnLine ==
  IF comments # <<>> /\ current.pos.line > 0 /\ comments[1].pos.line = current.pos.line
  THEN GroupEnd(1, 0) ELSE 0

\* Mutant: a newline does not end the line it is on.
LineEndsByLine(token) ==
  IF OnLine < Len(comments) THEN comments[OnLine + 1].pos.line # EndLine(comments[OnLine])
  ELSE token.pos.line # EndLine(comments[OnLine])

\* The token ends the line, or what follows the group is on another one.
LineEnds(token) ==
  IF OnLine < Len(comments) THEN comments[OnLine + 1].pos.line # EndLine(comments[OnLine])
  ELSE token.tok \in {"newline", "EOF"} \/ token.pos.line # EndLine(comments[OnLine])

\* A comment is set aside.
TakeComment(comment) ==
  /\ comment.tok = "COMMENT"
  /\ comments' = Append(comments, comment)
  /\ lead_comment' = <<>>
  /\ line_comment' = <<>>
  /\ UNCHANGED <<current, all_comments>>

\* Mutant: a group with a blank line after it documents the token.
TakeTokenAfterBlank(token) ==
  LET line   == SubSeq(comments, 1, OnLine)
      groups == Groups(OnLine + 1)
  IN  /\ token.tok \notin {"COMMENT", "error"}
      /\ current' = token
      /\ comments' = <<>>
      /\ all_comments' = all_comments \o (IF line = <<>> THEN <<>> ELSE <<line>>) \o groups
      /\ line_comment' = IF line # <<>> /\ LineEnds(token) THEN line ELSE <<>>
      /\ lead_comment' = IF groups # <<>> /\ Newlines(Last(comments).to, token.pos.offset) # {}
                         THEN Last(groups) ELSE <<>>

\* Mutant: a comment on the line that does not end it is forgotten.
TakeTokenForgets(token) ==
  LET line   == SubSeq(comments, 1, OnLine)
      groups == Groups(OnLine + 1)
  IN  /\ token.tok \notin {"COMMENT", "error"}
      /\ current' = token
      /\ comments' = <<>>
      /\ line_comment' = IF line # <<>> /\ LineEnds(token) THEN line ELSE <<>>
      /\ all_comments' = all_comments \o (IF line_comment' = <<>> THEN <<>> ELSE <<line>>) \o groups
      /\ lead_comment' =
           IF groups # <<>> /\ Cardinality(Newlines(Last(comments).to, token.pos.offset)) = 1
           THEN Last(groups) ELSE <<>>

\* A token ends the call: the comments set aside are grouped.
TakeToken(token) ==
  LET line   == SubSeq(comments, 1, OnLine)
      groups == Groups(OnLine + 1)
  IN  /\ token.tok \notin {"COMMENT", "error"}
      /\ current' = token
      /\ comments' = <<>>
      /\ all_comments' = all_comments \o (IF line = <<>> THEN <<>> ELSE <<line>>) \o groups
      /\ line_comment' = IF line # <<>> /\ LineEnds(token) THEN line ELSE <<>>
      /\ lead_comment' =
           IF groups # <<>> /\ Cardinality(Newlines(Last(comments).to, token.pos.offset)) = 1
           THEN Last(groups) ELSE <<>>

\* An error of the scanner is the parser's, and ends the call before the
\* comments it has read are in groups.
TakeError(token) ==
  /\ token.tok = "error"
  /\ comments' = <<>>
  /\ lead_comment' = <<>>
  /\ line_comment' = <<>>
  /\ UNCHANGED <<current, all_comments>>

\* A call of the iterator that the parser makes in next.
TakeStep ==
  /\ Scan
  /\ TakeComment(Last(items')) \/ TakeToken(Last(items')) \/ TakeError(Last(items'))

\* After EOF or an error the parser asks for no more.
Finished == done /\ UNCHANGED sourceVars

FeedNext == TakeStep \/ Finished

FeedSpec == FeedInit /\ [][FeedNext]_sourceVars

-----------------------------------------------------------------------------
(* What the parser's callers rely on.                                      *)

\* Each comment of the source is in one group, in the order of the source: the
\* n-th comment that the scanner returned is the n-th of the groups.  Only the
\* comments of a call that ends in an error of the scanner are lost.
Kept == FlattenSeq(all_comments) \o comments
Failed == items # <<>> /\ Last(items).tok = "error"
CommentPlaces == {i \in DOMAIN items : items[i].tok = "COMMENT"}
CommentsKept ==
  /\ Failed \/ Len(Kept) = Cardinality(CommentPlaces)
  /\ \A i \in CommentPlaces :
       LET n == Cardinality({j \in CommentPlaces : j <= i})
       IN  n <= Len(Kept) => Kept[n] = items[i]

\* The comments between the current token and the one before, in order.
TokensTaken == {i \in 1 .. Len(items) - 1 : items[i].tok # "COMMENT"}
Previous == IF TokensTaken = {} THEN 0 ELSE Max(TokensTaken)
Between == SubSeq(items, Previous + 1, Len(items) - 1)

\* A token has been taken, and no line directive stands before it: the parser
\* compares the lines that are reported, and a directive moves those.
AtToken ==
  /\ items # <<>>
  /\ Last(items).tok \notin {"COMMENT", "error"}
  /\ \A i \in DOMAIN Between : At(Between[i].from + 2) \notin DOMAIN Directives

\* From the start of the previous token to the comment the line does not end,
\* save inside another comment.
OnLineOfPrevious(i) ==
  /\ Previous # 0
  /\ Newlines(items[Previous].pos.offset, Between[i].from)
       \subseteq UNION {Between[k].from .. Between[k].to - 1 : k \in 1 .. i - 1}

LinesFrom(from, to) == Cardinality(Newlines(from, to))

\* A declaration is documented by the comments above it: those that reach its
\* line, or another of them, with no blank line in between, and that are not on
\* the line of the token before.
LeadCommentAdjoins ==
  AtToken =>
    Range(lead_comment) =
      {Between[i] : i \in {j \in DOMAIN Between :
         /\ ~OnLineOfPrevious(j)
         /\ LinesFrom(Last(Between).to, current.pos.offset) = 1
         /\ \A k \in j .. Len(Between) - 1 : LinesFrom(Between[k].to, Between[k + 1].from) <= 1}}

\* A line comment is all that follows a token on its line, and only what ends
\* the line: not a comment with a token after it.
LineCommentTrails ==
  AtToken =>
    LET trailing == {i \in DOMAIN Between : OnLineOfPrevious(i)}
        last     == Between[Max(trailing)]
    IN  Range(line_comment) =
          IF \/ trailing = {}
             \/ /\ Max(trailing) = Len(Between)
                /\ current.tok \notin {"newline", "EOF"}
                /\ Newlines(last.to, current.from) = {}
          THEN {} ELSE {Between[i] : i \in trailing}
=============================================================================
