SPECIFICATION DigestSpec
CONSTANTS
  Urls = {"a", "b"}
  Users = {}
  Tags = {"intern"}
  Postings <- MCPostings
  Undated = Undated
  MaxAge = 2
  MaxJobs = 2
  Skew = 1
  BatchSize = 2
  MaxFetch = 2
  MaxTime = 2
  MaxFaults = 0
  Profiles = {p1}
  Score <- MCEven
  Never = Never
  TextRank <- MCTextRank
  Content <- MCContent
  Turn <- MCTurn
  Null = Null
  DefaultSearchLimit = 1
  MaxSearchLimit = 2
  Lookbacks <- MCLookbacks
  Searches <- MCSearches
  Callers <- MCCallers
  JobLimit = 2
  Lookback = 1
  Drifts <- MCNoDrift
INVARIANTS NewJobsAreMailed
