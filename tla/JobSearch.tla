----------------------------- MODULE JobSearch -----------------------------
(***************************************************************************)
(* What a search of the stored postings answers (server/jobs.go,           *)
(* database/indexer.go): which requests are taken, which rows match, the   *)
(* order they come in, the page of them, the total, and how well each fits *)
(* the caller's resume.  A search is one statement, on one snapshot of the *)
(* table; JobDigest says when it runs beside the scrape cycles.            *)
(*                                                                         *)
(* Text is abstracted: whether a typed query matches a posting, how well,  *)
(* and how well a resume fits it are given.                                *)
(***************************************************************************)
EXTENDS JobStore, Sequences

CONSTANTS
  Profiles,            \* the profiles with an account
  Score,               \* [Profiles \X Urls -> Nat]: how well a posting fits a resume
  TextRank,            \* query -> URLs it matches -> ts_rank, in halves
  Content,             \* [Urls -> what a posting says]: workplace, kinds, salary
  Turn,                \* the order of the postings in a batch
  Null,                \* NULL, nil, a parameter that is not given
  DefaultSearchLimit,
  MaxSearchLimit,
  Lookbacks,           \* datePostedLookback: label -> how long ago
  Searches,            \* bound: the requests looked at, but for their offsets
  Callers              \* bound: who sends them

JobTypes == {"intern", "part_time", "full_time"}
Workplaces == {"in_person", "remote", "hybrid"}

ASSUME NullAssumption == Null \notin Int
ASSUME ScoreAssumption == Score \in [Profiles \X Urls -> Nat]
ASSUME LimitAssumption ==
  /\ DefaultSearchLimit \in 1..MaxSearchLimit
  /\ MaxSearchLimit \in Nat
ASSUME TextRankAssumption ==
  \A q \in DOMAIN TextRank :
    /\ DOMAIN TextRank[q] \subseteq Urls
    /\ TextRank[q] \in [DOMAIN TextRank[q] -> Nat]

\* Ids come from a sequence: no two postings of a batch have the same turn.
ASSUME TurnAssumption ==
  /\ Turn \in [Urls -> Nat]
  /\ \A url, other \in Urls : Turn[url] = Turn[other] => url = other

\* activeResumeSearchContext: postings are compared with the embedding of the
\* active resume, with its words if it has none, or with nothing.
Caller == [profile : Profiles \cup {Null}, resume : Profiles \cup {Null},
           by : {"embedding", "words", "nothing"}]

ASSUME CallerAssumption ==
  \A caller \in Callers :
    /\ caller \in Caller
    /\ caller.by # "nothing" => caller.resume # Null

-----------------------------------------------------------------------------
(* The request: parseJobSearchParams.                                      *)

\* What a request can say: a parameter is left out, or any word or number.
Raw ==
  [q : DOMAIN TextRank \cup {Null}, workplace : STRING \cup {Null},
   jobType : STRING \cup {Null}, minSalary : Int \cup {Null},
   maxSalary : Int \cup {Null}, datePosted : STRING \cup {Null}, tags : Seq(Tags),
   sort : STRING \cup {Null}, limit : Int \cup {Null}, offset : Int \cup {Null}]

ASSUME SearchAssumption == Searches \subseteq Raw

\* A number that is not one is given as -1, which is refused just as well.
Refused(raw) ==
  \/ raw.workplace \notin Workplaces \cup {Null}
  \/ raw.jobType \notin JobTypes \cup {Null}
  \/ raw.minSalary # Null /\ raw.minSalary < 0
  \/ raw.maxSalary # Null
       /\ raw.maxSalary < (IF raw.minSalary = Null THEN 0 ELSE raw.minSalary)
  \/ raw.datePosted \notin DOMAIN Lookbacks \cup {Null}
  \/ raw.sort \notin {"relevance", "date", Null}
  \/ raw.limit # Null /\ raw.limit <= 0
  \/ raw.offset # Null /\ raw.offset < 0

Or(value, default) == IF value = Null THEN default ELSE value

\* A fault: the limit is taken as it comes; SearchForJobs has a limit of its own.
SetLimitUncapped(raw) == Or(raw.limit, DefaultSearchLimit)

\* setLimitParam: the limit the answer states.
SetLimit(raw) ==
  IF raw.limit # Null /\ raw.limit > MaxSearchLimit
  THEN MaxSearchLimit ELSE Or(raw.limit, DefaultSearchLimit)

\* What a search asks for; at is the time its own process reads.
Params(raw, caller) ==
  [q |-> raw.q, workplace |-> raw.workplace, jobType |-> raw.jobType,
   minSalary |-> Or(raw.minSalary, 0), maxSalary |-> Or(raw.maxSalary, 0),
   postedAfter |-> IF raw.datePosted = Null THEN Null ELSE now - Lookbacks[raw.datePosted],
   seenAfter |-> Null, tags |-> raw.tags, sort |-> raw.sort,
   limit |-> SetLimit(raw), offset |-> Or(raw.offset, 0),
   caller |-> caller, at |-> now]

-----------------------------------------------------------------------------
(* The rows that match: buildJobSearchWhere.                               *)

\* Rows kept past their age because of a claim stay out of search.
Listable(p) == {url \in Stored : AgeDate(jobs[url]) >= p.at - MaxAge}

\* jobTypeFlagsFor: the kinds the title or a tag names.
Kinds(url) == Content[url].kinds \cup (jobs[url].tags \cap JobTypes)

\* A posting that reads as an internship is no part-time or full-time job.
OfType(url, jobType) ==
  /\ jobType \in Kinds(url)
  /\ jobType # "intern" => "intern" \notin Kinds(url)

\* Comparing a NULL salary or date leaves the row out.
SalaryWithin(url, p) ==
  /\ p.minSalary > 0 => Content[url].salaryMax # Null /\ Content[url].salaryMax >= p.minSalary
  /\ p.maxSalary > 0 => Content[url].salaryMin # Null /\ Content[url].salaryMin <= p.maxSalary

PostedSince(url, p) ==
  p.postedAfter # Null => jobs[url].posted # Undated /\ jobs[url].posted > p.postedAfter

\* A fault: the window takes in the moment it opens.
SeenSinceStart(url, p) == p.seenAfter # Null => jobs[url].firstSeen >= p.seenAfter

SeenSince(url, p) == p.seenAfter # Null => jobs[url].firstSeen > p.seenAfter

\* HAVING COUNT(DISTINCT t.tag) = the number of tags asked for: a tag asked for
\* twice is found once.
HasTags(url, p) ==
  p.tags # <<>> =>
    Cardinality({p.tags[i] : i \in DOMAIN p.tags} \cap jobs[url].tags) = Len(p.tags)

Matches(p) ==
  {url \in Listable(p) :
     /\ p.q # Null => url \in DOMAIN TextRank[p.q]
     /\ p.workplace # Null => Content[url].workplace = p.workplace
     /\ p.jobType # Null => OfType(url, p.jobType)
     /\ SalaryWithin(url, p)
     /\ PostedSince(url, p)
     /\ SeenSince(url, p)
     /\ HasTags(url, p)}

-----------------------------------------------------------------------------
(* Their scores and their order: scoredCTEs, buildJobSearchSelect.         *)

\* resumeScoreExpr: with an embedding, a job not embedded yet has no score.
Fit(p, url) ==
  IF p.caller.by = "nothing" \/ (p.caller.by = "embedding" /\ ~jobs[url].embedded)
  THEN Null
  ELSE Score[p.caller.resume, url]

\* A fault: only the rows that match are ranked.
RankedMatching(p) == {url \in Matches(p) : Fit(p, url) # Null}

\* Every job search can list is ranked, whether or not it matches.
Ranked(p) == {url \in Listable(p) : Fit(p, url) # Null}

\* floor(percent_rank() * 100); a row that is not ranked has none.
Percent(p, url) ==
  LET ranked == Ranked(p)
  IN IF url \notin ranked THEN Null
     ELSE IF Cardinality(ranked) = 1 THEN 0
     ELSE (100 * Cardinality({other \in ranked : Fit(p, other) < Fit(p, url)}))
            \div (Cardinality(ranked) - 1)

\* A typed query comes first and the resume nudges it; a resume alone sorts by
\* its fit; anything else by age.
SortKey(p, url) ==
  IF p.sort # "date" /\ p.q # Null THEN TextRank[p.q][url] + Or(Fit(p, url), 0)
  ELSE IF p.sort # "date" /\ p.caller.by # "nothing" THEN Fit(p, url)
  ELSE AgeDate(jobs[url])

\* j.id: rows get it in the order they are first written.
IdAbove(url, other) ==
  \/ jobs[url].firstSeen > jobs[other].firstSeen
  \/ jobs[url].firstSeen = jobs[other].firstSeen /\ Turn[url] > Turn[other]

Above(key, other) == key # Null /\ (other = Null \/ key > other)

\* ORDER BY sort_key DESC NULLS LAST, j.id DESC.
Before(p, url, other) ==
  \/ Above(SortKey(p, url), SortKey(p, other))
  \/ SortKey(p, url) = SortKey(p, other) /\ IdAbove(url, other)

-----------------------------------------------------------------------------
(* The answers: SearchForJobs and GetJobByID.                              *)

Limit(p) == IF p.limit \in 1..MaxSearchLimit THEN p.limit ELSE DefaultSearchLimit

\* The rows of the page, told by their places among the matches.
Page(p, matches) ==
  {url \in matches :
     Cardinality({other \in matches : Before(p, other, url)})
       \in p.offset..(p.offset + Limit(p) - 1)}

\* Every row carries the total; past the last page no row does, and the
\* matches are counted by a second statement.
Total(p, matches, page) ==
  IF page = {} /\ p.offset = 0 THEN 0 ELSE Cardinality(matches)

\* A row as search and detail show it: match_score, match_percent, applied.
Shown(p, url) ==
  [url |-> url, score |-> Fit(p, url), percent |-> Percent(p, url),
   applied |-> p.caller.profile # Null /\ <<p.caller.profile, url>> \in applied]

SearchForJobs(p) ==
  LET matches == Matches(p)
      page == Page(p, matches)
  IN [jobs |-> {Shown(p, url) : url \in page}, total |-> Total(p, matches, page)]

\* GetJobByID knows no filter, order or page.
Detail(url, caller) ==
  LET everything == [q |-> Null, workplace |-> Null, jobType |-> Null, minSalary |-> 0,
                     maxSalary |-> 0, postedAfter |-> Null, seenAfter |-> Null,
                     tags |-> <<>>, caller |-> caller, at |-> now]
  IN Shown(everything, url)

-----------------------------------------------------------------------------
(* Properties.                                                             *)

\* The pages a client turns with the limit the answer states show every match
\* once, and no more of them at a time than that limit, whatever the request
\* filters and sorts by, with rows of equal keys, rows without a score and a
\* limit that is cut down; and every page states the number of matches, the
\* ones past the last page too.
PagesCoverMatches ==
  \A raw \in Searches, caller \in Callers :
    ~Refused(raw) =>
      LET limit == SetLimit(raw)
          Turned(k) == Params([raw EXCEPT !.offset = k * limit], caller)
          matches == Matches(Turned(0))
          page == [k \in 0..((Cardinality(matches) + limit - 1) \div limit) |->
                     Page(Turned(k), matches)]
      IN /\ \A k \in DOMAIN page :
              /\ Total(Turned(k), matches, page[k]) = Cardinality(matches)
              /\ Cardinality(page[k]) <= limit
         /\ \A url \in matches :
              Cardinality({k \in DOMAIN page : url \in page[k]}) = 1

\* indexer.go: match_percent "reads the same on any page, filter, or sort", and,
\* with the score and the applied mark, on the page of the job itself.
RowsReadTheSame ==
  \A raw \in Searches, caller \in Callers :
    ~Refused(raw) =>
      \A row \in SearchForJobs(Params(raw, caller)).jobs :
        row = Detail(row.url, caller)

=============================================================================
