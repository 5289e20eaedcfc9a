CONSTANTS
  None = None
  Texts <- MCTexts
  Letters = {"a", "b"}
  Operators <- MCOperators
  Ending <- MCEnding
  Keywords <- MCKeywords
  Directives <- MCDirectives
SPECIFICATION FeedSpec
INVARIANTS
  SemicolonsAsInGo
  PositionsTrue
  CommentsKept
  LeadCommentAdjoins
  LineCommentTrails
