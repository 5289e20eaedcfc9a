----------------------------- MODULE MCScanner -----------------------------
(* Instances of CommentGroups for TLC: the sources that are scanned.        *)
EXTENDS CommentGroups, TLC

UpTo(S, n) == UNION {[1 .. k -> S] : k \in 0 .. n}

Joined(pieces, n) == {FlattenSeq(s) : s \in UpTo(pieces, n)}

\* Comments character by character, with all the ways they can overlap.
CommentTexts == UpTo({"a", "sp", "nl", "/", "*"}, 6)

\* Every kind of token beside every other and beside comments.
TokenTexts == Joined({<<"a">>, <<"a", "b">>, <<"b", "a">>, <<"+">>, <<")">>, <<"bq">>, <<"dq">>, <<"#">>, <<"nl">>,
                      <<"/", "/">>, <<"/", "*">>, <<"*", "/">>}, 4)

\* Comments above, after and between tokens.
GroupTexts == Joined({<<"a">>, <<"nl">>, <<"/", "/", "nl">>, <<"/", "*", "nl", "*", "/">>,
                      <<"/", "*", "*", "/">>}, 6)

\* Line directives that hide the column (L), that set it (C) and that are
\* malformed (E).
DirectiveTexts == Joined({<<"a">>, <<"nl">>, <<"bq", "nl", "bq">>, <<"/", "/", "nl">>,
                          <<"/", "/", "L", "nl">>, <<"/", "/", "C", "nl">>,
                          <<"/", "*", "L", "*", "/">>, <<"/", "*", "C", "*", "/">>,
                          <<"/", "*", "E", "*", "/">>, <<"/", "*", "nl", "*", "/">>}, 4)

MCTexts == CommentTexts \cup TokenTexts \cup GroupTexts \cup DirectiveTexts

MCOperators == {<<"*">>, <<"+">>, <<"+", "+">>, <<")">>}
MCKeywords == {<<"a", "b">>, <<"b", "a">>}
MCEnding == {<<"b", "a">>, <<"+", "+">>, <<")">>}
MCDirectives ==
  "L" :> [line |-> 7, column |-> 0] @@ "C" :> [line |-> 3, column |-> 5] @@ "E" :> [line |-> 0, column |-> 0]
=============================================================================
