SPECIFICATION FairSpec
CONSTANTS
  Urls = {"a", "b"}
  Users = {u1}
  Tags = {"go"}
  Postings <- MCPostings
  Undated = Undated
  MaxAge = 1
  MaxJobs = 1
  Skew = 1
  BatchSize = 1
  MaxFetch = 2
  MaxTime = 2
  MaxFaults = 1
INVARIANTS StoreBounded ReferencesHold
PROPERTIES ExpiredAreDeleted EmbeddingCatchesUp HeldPostingsKept OldestDeletedFirst NeverRejuvenatedByUndated
