SPECIFICATION DigestSpec
CONSTANTS
  Urls = {"a", "b"}
  Users = {}
  Tags = {"intern"}
  Postings <- MCPostings
  Undated = Undated
  MaxAge = 0
  MaxJobs = 2
  Skew = 1
  BatchSize = 2
  MaxFetch = 2
  MaxTime = 1
  MaxFaults = 0
  Profiles = {p1}
  Score <- MCScore
  Never = Never
  TextRank <- MCTextRank
  Content <- MCContent
  Turn <- MCTurn
  Null = Null
  DefaultSearchLimit = 1
  MaxSearchLimit = 2
  Lookbacks <- MCLookbacks
  Searches <- MCSearches
  Callers <- MCCallers
  JobLimit = 2
  Lookback = 1
  Drifts <- MCDrifts
INVARIANTS PagesCoverMatches RowsReadTheSame
PROPERTIES NoRowMailedTwice
