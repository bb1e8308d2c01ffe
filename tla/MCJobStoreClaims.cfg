SPECIFICATION Spec
CONSTANTS
  Urls = {"a", "b"}
  Users = {u1}
  Tags = {"go"}
  Postings <- MCPostings
  Undated = Undated
  MaxAge = 1
  MaxJobs = 1
  Skew = 1
  BatchSize = 2
  MaxFetch = 2
  MaxTime = 2
  MaxFaults = 0
PROPERTIES ClaimedPostingsKept
