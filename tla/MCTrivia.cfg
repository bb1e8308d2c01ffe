SPECIFICATION Spec
CONSTANTS
  Pages = {p1, p2}
  Nobody = Nobody
  Replies <- MCReplies
  Counts = {2}
  OptionCount = 2
  Orders <- MCOrders
  EmptyOption <- MCEmpty
  MaxQuizzes = 2
  MaxInFlight = 2
  MaxVisits = 3
  MaxSaves = 2
  MaxFaults = 1
INVARIANTS RightAnswerKept ScoreMatchesAnswers StoredFollowsPlayer
PROPERTY HistoryKept
SYMMETRY Symmetry
CHECK_DEADLOCK FALSE
