# JobsScraper: models, checks and proofs

TLA+ models of the job board in `../src`: a Go backend that scrapes postings into Postgres, keeps
them within an age and a number, ranks them against resumes and mails a digest, and a React
front end. `PROJECT.json` maps every definition to the lines it models.

## 1. The system

| Component | State | Operations | Meets |
|---|---|---|---|
| Scrape cycle (`scraper/scraper.go`) | none between cycles | fetch, prune, write, prune, embed, every 10 minutes | `jobs` table, sources |
| Retention (`database/retention.go`) | `jobs`, `tags` | two DELETEs and the tag sweep in one transaction | users' claims |
| Bulk write (`database/write.go`) | `jobs`, `job_tags`, `tags` | upsert by URL, replace tags | retention, digest window |
| Embedding pass (`database/embeddings.go`) | `jobs.embedding` | select a batch, call Jina, save row by row | search, digest |
| Applications, tailored resumes | two claim tables | mark, unmark, tailor | the prune spares claimed postings |
| Digest (`digest/digest.go`) | `last_digest_sent_at`, opt-in | list, search, send, mark | `jobs` through `first_seen_at` |
| Resumes (`server/resumes.go`, `database/profile_resumes.go`) | resumes, extractions | upload, replace, delete, activate, extract, embed | LLM, tailoring, search |
| Sessions (`server/profiles.go`, `database/refresh_tokens.go`, `database/password_reset.go`) | refresh tokens, reset tokens, password | login, refresh, logout, reset | browser tabs |
| Browser session (`auth-store.tsx`, `client.ts`) | access token per tab, cookie per browser | refresh under a lock, retry on 401, logout broadcast | sessions |
| Rate limiters (`server/rate_limiter.go`, `server/redis.go`) | bucket per client | allow, sweep, fall back | every route |
| Autosave (`use-autosave.ts`) | pending value, send times | queue, send, retry | the profile form, profile records |
| Trivia (`database/trivia.go`) | quizzes | generate, answer, retake, delete | LLM, the pages that play them |
| Crawler (`crawler/`) | frontier, host limiters | robots, sitemaps, pages | known URLs in `jobs` |
| Job sources (`jobs/`) | none | fetch, normalise | scrape cycle |
| Schedules, startup (`schedule/`, `coldstart/`, `cmd/`) | ticker, once | tick, cancel, shut down | scrape, digest |
| Profile records, merge (`database/profile_*.go`, `profile-merge.ts`) | profile tables | CRUD, merge an extraction | resumes |
| Search (`database/indexer.go`, `relevance/`) | none | filter, rank, page | `jobs`, extractions |

What is hard: every handler is a sequence of autocommitted statements with LLM calls of up to 45
seconds among them; transactions run at READ COMMITTED, where each statement has its own snapshot;
the scraper, the digest and the server are separate processes when hosted, so nothing but the
database orders them, and each has a clock of its own beside the database's; LLM, email and Redis
calls fail, and the code goes on; responses and requests get lost.


### What makes each part correct

- **Scrape cycle, retention, write.** The table stays within an age and a number whatever fails;
  the prune spares claimed postings and takes the oldest first; a scrape does not make a posting
  look younger; references between the tables hold.
- **Embedding pass.** Every posting gets an embedding in the end.
- **Digest.** A posting is mailed to a profile it matches, and once, unless a mark is lost or comes
  from a clock behind the database's.
- **Resumes, extraction, tailoring.** At most one active resume, unless requests overlap that cannot
  see each other's rows; an extraction settles; a tailored resume is shown as current only while it
  is, unless saves that overlap set its extraction's time back.
- **Sessions, password reset.** A session has one token; a link resets once; a reset ends every
  session; no two transactions wait for each other.
- **Rate limiters.** A client gets what one token bucket would give it.
- **Autosave.** One loop, five sends a second at most, the newest edit never dropped in silence,
  "saved" only when it is.
- **Crawler.** Nothing within the depth missed, nothing fetched twice, the page budget spent on what
  is new.
- **Browser session.** Tabs that refresh and reload do not end each other's session; a sign-out holds
  for every tab; a session not to be remembered is forgotten when the site is left.
- **Redis limiter.** One bucket for all instances, whatever their clocks say and whatever is sent
  twice; the bucket an instance falls back on holds by itself.
- **Trivia.** A score is that of the answers stored with it; what is stored is what was chosen; a
  retake leaves the old quiz alone.
- **Profile records and merge.** A merge that broke off can be repeated, and adds nothing twice.
- **Search.** Pages that neither overlap nor skip, with the right total; a row that reads the same
  wherever it is shown.
- **Job sources.** One posting per key; a board that fails costs only its own postings.

## 2. The modules

| Module | Models | Extends / uses |
|---|---|---|
| `JobStore` | scrape cycle, retention, write, embedding, claims | |
| `JobSearch` | search of the stored postings, as operators | extends `JobStore` |
| `JobDigest` | the digest beside the scrape cycles | extends `JobSearch` |
| `ResumePipeline` | resumes, extractions, tailoring | |
| `TokenBucket` | what a rate limiter promises: the abstract specification | |
| `RateLimiter` | `ipLimiter`; implements `TokenBucket` | instantiates `TokenBucket` |
| `RedisLimiter` | `redisLimiter` with the limiter it falls back on | extends `RateLimiter` |
| `SessionStore` | refresh tokens, reset links, password | |
| `BrowserSession` | tabs, their tokens and messages, the cookie, the requests between | |
| `Autosave` | the autosave hook and the server behind it | |
| `Trivia` | quizzes, from the model's reply to the pages that play them | |
| `ProfileRecords` | skills, education, work, bullets; edits and the merge of a resume | |
| `Crawler` | one seed's crawl, cycle after cycle | |

`MC<Module>` gives a module's constants for TLC; `<Module>Proofs` holds its theorems; `JobProofs`
those of the three `Job` modules, `LimiterProofs` those of the two limiters and their `TokenBucket`,
`ProfileProofs` those of the profile page, `ProfileRecords` and the `Autosave` of its form: it
extends both, which is why `Autosave` calls its specification `AutosaveSpec`.
Operators commented *A fault* are what a plausible bug would make of the definition that follows;
nothing uses them, and each of them breaks the property it is paired with in `PROJECT.json`.

**JobStore.** `jobs` is the table by URL, a row its `posted_at`, `first_seen_at`, tags and whether
it has an embedding; `applied` and `tailored` are the two claim tables. `pc` is where
`runScraper` is. `Fetch` is `fetchAll` with `dropExpiredJobs`, `capNewestJobs` and the write's
dedupe; `PruneScan`, `PruneScanOverCap`, `PruneCommit` are the two DELETEs and the tag sweep of
`DeleteExpiredJobs`, with a snapshot for each DELETE, because claims commit in between;
`WriteBegin` and `WriteCommit` bound the write's transaction, whose start is every new row's
`first_seen_at`; `EmbedSelect` and `EmbedSave` are one batch and its rows. `PruneFail` and
`EndEarly` are the failures: a prune's is logged and the cycle goes on, any other ends it. A
posting's fields other than URL, date and tags are left out, and rows of the same age are pruned
in any order, where the statement orders them by id. Rows without a description, which never get
an embedding, are left out: the postings modelled have one.

`now` is the database's clock, by which `NOW()` dates the rows. The scraper and the server read
`time.Now()` of their hosts for ages of 30 days; these are taken to be the same, since a difference
only shifts those ages.

**JobDigest.** `DigestList` to `DigestEnd` are `digest.Run`: list the profiles, search each one's
window, send, mark, each its own step, interleaved with `JobStore`'s. Its search is `SearchForJobs`
with the digest's parameters. The window and the mark are times of the digest's host: each reading
of its clock is `now` and one of `Drifts`, less than 0 when that host is behind the database, and
two runs may be on two hosts. `takenAt` and `markedAt` remember the database's time at which a mark
was read; no action reads them.

**JobSearch.** `Refused`, `SetLimit` and `Params` are `parseJobSearchParams`; `Matches` is the WHERE
clause, `Before` the ORDER BY, `Page` and `Total` the page and its count, `Percent` the
`percent_rank`, `SearchForJobs` and `Detail` the two answers. A search is one statement on one
snapshot, so it is an operator and `JobDigest` says when it runs. How a resume's words become a
query, and how well a text matches, are functions given as constants.

**ResumePipeline.** A request is a sequence of statements; `at` says which comes next. The action
that sends or reads something ends where the code waits. An extraction's `data` is the file it was
read from, so that the extraction of an old file is told from one of the new. A save of an
extraction is two steps: `BeginSave` takes the time, as `NOW()` is when the statement's transaction
began, and `SaveExtraction` commits with it, so `updated_at` may go back when two overlap. `clock`
gives the saves times that differ and grow: the database's clock is taken not to step back, and no
two saves of a row to begin in one microsecond. The UPDATE of `SetActiveResume` is two steps as
well: `BeginUpdate` takes its snapshot, and the rows in it are changed as they are at the commit;
one added since is not. `crowded`, `latest` and `abandoned` are history that no action reads: that
requests overlapped which cannot see each other's rows, the latest time each extraction has had,
and which extractions a failed or killed request left pending. Renaming a resume and editing a
tailored text change nothing modelled.

**RateLimiter.** `Lookup` is the half of `allow` inside the lock, `Admit` and `Refuse` are what the
bucket then answers. Tokens are counted in ticks so that a refill is an integer. `TokenBucket` is
one bucket that is never dropped.

**RedisLimiter.** One instance and its requests: `Ask`, `Run` and `Answer` are a call of the script,
`FallBack` is one that fails or times out, whether or not the script has run; `OtherRun` is every
other run of it, for another instance, for a call that go-redis sends again, or late for a caller
that has stopped waiting. The clock is Redis's; an instance stamps its calls
with its own, at most `Skew` ahead, and a run comes at most `Delay` after its stamp. One client's
bucket is followed. Tokens are counted in ticks, exactly, where Lua counts them in doubles.

**SessionStore.** Every handler is its statements; a DELETE that may overlap an INSERT is a scan and
a commit. Creating an account signs in as a login does. Resets wait for the profile's row and for
each other's links; the locks that a link request's DELETE holds on links, and its waits for them,
are left out, and so is the deletion of a profile.

**Autosave.** Edits and sends are numbered. `age` is the time since each send, `sentAt` those the
hook remembers. A loop is a call of `run`; a failed save may be carried out, or be carried out late.

**BrowserSession.** `tab` is what a tab holds, `net` the requests and answers under way, which are
delivered in any order; a request carries the cookie of its sending, an answer sets it on arrival.
`Acquire` is the refresh under `navigator.locks`, `Unauthorized` the retry after a 401, `Receive`
the channel's messages, `Leave` a tab that is closed or reloaded with its requests still going.
`Serve` is the handler that runs next; `DatabaseFails` and `Lose` are what may happen to it. One
user and one browser. A call and its 401 are one step; an answer and the code that handles it are
one step; requests take less than the 15 minutes of a token. The password-reset form's sign-in and
a closed tab brought back with its sessionStorage are left out.

**Trivia.** A page is a tab with its cache. A request is its statements: a save reads the quiz and
writes it in two steps, a retake is one `INSERT ... SELECT`. Option texts are pairs of what is
compared ignoring case and how it is spelled. The list of quizzes, the topic and the eviction of
the cache are left out. `Replies` are taken as `sanitizeTrivia` has trimmed them; which of their
questions are valid, and the order of the options, are modelled.

**ProfileRecords.** `MergePlan` is `profile-merge.ts`: the requests one merge sends, planned from
the profile in the cache; `Serve` runs the next statement of a panel's request, `Fail` loses it or
its answer. `Merged` says what a merge is meant to make of a profile, without requests. Reading the
profile is one step, one statement per section in the code; one name stands for company and title,
and fields that go the way of those kept are left out. A request the panel has given up is over at
the server too: it was carried out before, or never is.

**Crawler.** The site is fixed and unknown: its links, sitemaps, redirects, and which pages hold a
posting that is kept. robots.txt and `Include` are the set `wanted`. `Begin` is everything up to the
loop in `crawlSeed`; `PageFails`, `PageTaken` and `PageFollowed` are the ways an iteration goes;
`Finish`, `Timeout` and `Lost` are the ways it ends. Parsing, and the pacing of hosts, are left out:
a long Crawl-delay, which can end every crawl of a host by its timeout before the budget is spent, is
`Timeout`, one of the faults a run counts, so `SitemapDrains` is about hosts whose pace lets a budget
be spent.

## 3. The runs

| Run | Bounds | Shows |
|---|---|---|
| `JobStore` | 2 URLs, 4 postings, 1 user, cap 1, age 1, clock to 2, 1 fault | the store's invariants, and that expired rows go and embeddings catch up |
| `JobStoreClaims` | the same without faults | *violated*: a claim made while the prune runs is lost with its posting |
| `JobDigest` | 2 postings of unequal fit, 1 profile, no claims, age 0, clock to 1, digest clocks 1 behind to 1 ahead, 6 searches by 3 callers | a row is mailed twice only after a lost mark or one from a clock behind; pages cover the matches; rows read the same |
| `JobDigestMissed` | 2 postings of equal fit, level clocks | *violated*: a posting can fall behind the mark unmailed |
| `ResumePipeline` | 2 resumes, 2 files, 2 requests at once, 3 in all, 1 fault, from three starts | staleness, owners of pending extractions, settling, when two resumes can be active |
| `RedisLimiter` | 1 client, 2 requests, burst 1, period 2, skew and delay 1, clock to 6, 3 tokens taken | the shared bucket is one bucket up to the clocks; the fallback implements `TokenBucket` |
| `SessionStore` | 2 requests at once, 4 in all, 4 tokens, 4 links, 1 fault | sessions and links under overlap |
| `BrowserSession` | 2 tabs, 2 requests at once, 3 openings or reloads, 1 sign-in, 1 expiry, 1 fault | no false "session expired", sign-outs that hold, sessions that are forgotten |
| `Autosave` | 4 edits, 2 loops, 2 sends in 3 ticks, 2 failures | the hook's four promises, and that saving ends |
| `Trivia` | 2 pages, 2 quizzes of 2 questions, 2 requests at once, 3 visits, 2 answers, 1 fault | scores, answers and history under overlapping saves |
| `ProfileRecords` | 2 panels, 2 merges or edits, 3 profiles, 3 extractions, 1 fault | merges that break off can be repeated; what a half deletion leaves |
| `Crawler` | 288 sites of 6 pages, depth 2, budget 4, 1 fault | completeness of a crawl, sitemaps drained |

The in-memory limiter has no run of its own: `RedisLimiter` extends it, fires its actions and checks
that it implements `TokenBucket`; the type invariants are proved instead of checked.

Why the bounds are enough. Each is the least at which the case of interest occurs. A cap of one with
two URLs fills and overflows; an age of one with a clock of two lets postings expire before, during
and after a prune. A digest clock one behind the database's is enough for a row to be dated after a
mark that was read after it. Two requests overlap in every order, and a third starts in a state they
left. All requests over two resumes are too many states, so `ResumePipeline` starts from a profile
whose other resume was deleted, with everything to come; from an empty one with two requests and no
fault to come, which may be two first uploads; and from one with an active resume and another upload
under way, with the same to come: two activations that do not see each other's resume. One instance
without the starts, of two resumes, one file and four requests, 2.2 million states up to symmetry,
agreed on `OneActive`, once. A burst of one over a clock of six is emptied,
refilled, expires in Redis and is dropped by the sweep, with a second call from a clock behind or
ahead. Two tabs are the fewest that can race for the cookie, and one reloads or closes while the
other refreshes. Two answers to one quiz can be saved in either order, and a second quiz is the
retake. Two merges are the one that breaks off and the one that repairs it, over a profile that is
empty, one spelled otherwise and one with two stays at one company. The searches have each filter
and order, and limits below, at and above those allowed. Four edits overflow a window of two sends,
with one to spare for a retry. Sites have cycles, repeats, pages deeper than the depth and more
listed pages than the budget. One fault is enough for every failure to happen at every place,
because what it leaves behind is repaired or not by the steps that follow; two are given where two
in a row matter (the retry's delay).

**Fairness.** `JobStore`: the cycle goes on (`WF(Cycle)`), because one goroutine runs it and every
call in it has a timeout; users and failures are not forced. `ResumePipeline`: a request runs to its
end, and the client sends the extraction request it owes. That is an assumption about the browser: a
tab closed between the upload's answer and that request sends none, and the extraction stays pending
until a retry. `ExtractionsSettle` exempts what a failed or killed request left, too.
`SessionStore`: the server serves each request it has, and needs no client for it. `Autosave`:
timers fire, requests are answered or fail (the server cuts a response off after 30 seconds, and the
browser gives up a dead connection) and time passes. `Crawler`: the cycle goes on. No strong
fairness is used. `BrowserSession`, `Trivia`, `ProfileRecords`, `RedisLimiter` and `JobDigest` state
no fairness and check safety only. Deadlock is checked but where requests, edits, visits or the
clock run out: `ResumePipeline`, `SessionStore`, `BrowserSession`, `Autosave`, `Trivia`,
`ProfileRecords`, `RedisLimiter`.

## 4. The proofs

The theorems hold for every value of the constants that the `ASSUME`s allow, which TLC evaluates.

| Module | Theorems | Argument |
|---|---|---|
| `JobProofs` | `TypeCorrect`, `StoreIsBounded`, `HeldPostingsAreKept`, `OldestAreDeletedFirst`, `ReferencesAlwaysHold`, `RowsAreNotRejuvenated` of `JobStore`; `DigestTypeCorrect`, `RowsAreMailedOnce`, `MailedOnceByClocksAhead`, `PagesCoverEveryMatch`, `RowsReadAsDetail` of `JobDigest` and its searches | below |
| `ResumePipelineProofs` | `CurrentTailoredResumesMatch`, `PendingExtractionsHaveOwners`, `OneResumeIsActive` | below |
| `LimiterProofs` | `BucketTypeCorrect`, `BalanceHolds`, `BucketIsBounded` of `TokenBucket`; `TypeCorrect`, `HeldVisitorsStay`, `LimiterImplementsBucket`, `AdmittedIsBounded` of `RateLimiter`; `RedisTypeCorrect`, `RedisIsBounded`, `TurnedAwayOnlyIfSpent`, `FallbackImplementsBucket` of `RedisLimiter` | below |
| `TriviaProofs` | `ScoresMatch`, `RightAnswersAreKept`, `HistoryIsKept`, `StoredAnswersFollow` | below |
| `SessionStoreProofs` | `TypeCorrect`, `OneTokenHolds`, `LinkIsUsedOnce`, `LinksAreReplaced`, `ResetsEndSessions` | below |
| `ProfileProofs` | `OneLoopRuns`, `NewestIsInHand`, `SavedMeansStored`, `RateIsBounded` of `Autosave`; `DeletionsEnd`, `BrokenMergesAreSafe`, `MergesComplete`, `RepeatsAreQuiet` of `ProfileRecords` | below |
| `CrawlerProofs` | `CrawlIsComplete` | below |
| `BrowserSessionProofs` | `ExpiryIsReal`, `SignOutIsForAll`, `SessionIsForgotten` | below |

- **JobStore.** `Shape` is the type invariant and that `doomed`, `locked` and `toEmbed` are empty
  outside their steps: without it the actions that read them preserve nothing. `Bounded` adds that
  a claimed posting was touched, that a batch is within the cap, and that what the open prune will
  leave is within it: the last is what makes the cap inductive, since the second DELETE decides
  from a snapshot and rows are claimed and unclaimed afterwards. `Chosen` says the same of what the
  prune has picked: it spares what was held since it began, and is older than what it leaves
  untouched.
- **TokenBucket.** A bucket's level and what it admitted never exceed the burst and the time gone by.
- **RateLimiter.** `UsedSoonAfterSeen` and `HeldSince` bound how long a request may hold a bucket,
  so that one it still holds is younger than `Idle`, which is the assumption that keeps a sweep from
  dropping it. A dropped visitor's bucket would have been full, so the refinement maps a forgotten
  client to a full bucket, and every step to a step of `TokenBucket` or a stutter. The assumption is
  that `Idle` covers a full refill and the longest stall of a request.
- **SessionStore.** `SessionsApart`: two rows are of two sessions, and every session's first token
  has been drawn, so a new login cannot begin an old session. `TakenOnce`: a running reset that has
  taken a link is the only one, and a link that was used is not in the table. `EndsKept`: one reset
  at a time stands between its DELETE and its commit, and every row it has not picked was stored
  late. `ReplacesAll`: unless two requests for a link have overlapped, there is one link at most, and
  the DELETE of the one that runs has picked it, since another can only have come from a request
  that ended while this one was running.
- **Autosave.** `OneOn` strengthens `OneLoop` to every loop's place, `FormInHand` follows the newest
  edit through the loop's variables. `Remembers`, for the rate: the hook forgets only sends older
  than the window.
- **RedisLimiter.** `Earned`: what the bucket holds and what was taken never exceed the burst and the
  time the bucket has counted, which `SeenInTime` keeps within the skew of Redis's clock; `slack`
  grows by the skew and the delay when a bucket has expired, since the next one is full and may
  count from an earlier stamp. `NothingLost` says that a bucket short of full has had a token taken,
  and counted the time since; `CallsAreRecent` bounds the stamps. The
  fallback is the limiter of `RateLimiter` with the same steps, whatever the calls of Redis do
  around it, so it implements `TokenBucket` here by the same mapping.
- **JobDigest.** Every `first_seen_at` is past by the database's clock (`SeenInThePast`), so the
  database's time at which a mark is read is at or after all the search could see. What a search
  found was first seen after the old mark (`FoundAfterMark`), and what was mailed by the database's
  time of that mark, unless the mark is still to come or was lost (`MailedBeforeMark`): a row can be
  both only in the time the digest's clock was behind. The store's steps keep these because new rows
  are dated by a write that has begun and time only passes. Of the search this needs one fact, that
  what it finds is stored and inside the window. `MarksDrift` says that a mark and the database's time
  of it are a drift apart, so where no digest's clock is behind, nothing but a lost mark repeats a row
  (`MailedOnceByClocksAhead`).
- **JobSearch.** The order of the results is strict and total, since rows that are equal in all else
  differ in their turn, an id. So a match's place, the number of matches before it, is one of 0 to
  n-1, taken once, and lies within one page. The properties hold of every caller and request in every
  state the digest and the cycles reach. They assume that a text has a rank for postings only
  (`TextRankAssumption`), that ids are distinct (`TurnAssumption`), and that a request is made of
  the parameters the route reads, with any values (`SearchAssumption`).
- **ResumePipeline.** `Dated`: a save that has begun has a time of its own, which differs from every
  row's latest. `CopiesReadFrom`: what a tailored resume, or the request that will store one, read
  at a time is what its row holds, while the row has its latest time and that is no later than the
  one read. A save that commits with a later time makes the copy stale; one with an earlier time
  sets the row back, and `SetBack` shows it. That a pending extraction has an owner is inductive
  with `Shape` alone, once each step is seen to hand the row to a request or to the client, or to
  leave it `abandoned`. `AloneAndFirst`, until requests have crossed: one resume is active at most;
  an upload that saw no resume is the only one, and there still is none; an UPDATE has seen the
  active resume in its snapshot, or will make none active because its own is gone. The last needs
  that an upload adds an active resume only when it saw none, and then no UPDATE can be about a
  stored one; and that another activation makes active only what this one saw, or they have crossed.
- **Trivia.** A save reads the quiz and writes it in two statements, and another save may come
  between. `SavesScored` holds there: what the save is about to write is what its answers make of
  the row as it is now, because no step changes a row's questions and no id is used twice. `Made`
  follows a question from the reply through shuffles and retakes: its right option is still the one
  the model marked. `FollowInv`: a page that shows a quiz knows how many questions it has, so that
  its save is never refused; what is stored of a quiz, and what each save of it carries, is a first
  part of what was chosen last; and unless two saves were in flight at once or one failed, the one in
  flight carries all of it.
- **Crawler.** `Once`: what was fetched or waits is in the `queued` map, each page in one place,
  whatever fails. `Breadth`, for a crawl nothing has disturbed: the pages that wait lie in the order
  of their depths, which are two at most; everything queued is new and reached (`OnlyReached`), and
  the new links of a page that was fetched have been seen, no deeper than one below it (`Followed`).
  When nothing waits any more, every page within a depth has been seen, by induction over that
  depth. The installed provers cannot apply the library's induction rules, so the proof takes the
  least number at which the claim would fail (`LeastOf`), and the equation of the recursive function
  `Reached` is proved the same way (`ReachedLevels`).
- **BrowserSession.** Every action is first brought into a form that says what becomes of the one tab
  that moves, of the requests and of the cookie (`FormsHold`). `Base` holds throughout: the requests
  of a tab that is left belong to nobody and the tab holds nothing (`Absent`, `Present`); a tab that
  waits for a refresh has the lock, so there is one such request (`Locked`); a session has one token,
  and the one a sign-in's answer brings is still unused (`Tokens`), or a late answer could set a
  token that was rotated away. For "session expired", `Peace`: until something happens to the session,
  either nobody is signed in or the cookie, or the one refresh under way, has a living token. For the
  sign-out, `SigningOut`: its request carries the only token of its session (`Clearing`), or has been
  served and nothing but a sign-in can bring a token (`Cleared`); the last a tab with a token will
  hear is the sign-out (`ToldLast`). For "remember me", `Leaving`: nobody is there (`Deserted`), or
  the one tab that is has sent the request to forget (`Forgetting`), or it is answered (`Forgotten`),
  and the only ways from one to the next, but for a sign-in, keep every tab without a token. TLC
  checked these invariants on all the states of the run before they were proved.
- **ProfileRecords.** `Emptied`: once the first statement of a deletion has run, the entry has no
  bullet, or one came since. For the merges, `CleanInv`: what a panel has still to send is, each
  request once, what it would plan from the profile as it is *now* stored. `Needs` says without
  lists what that is, and `PlanIsNeeds` that `MergePlan` makes a list of just that. Serving a
  request takes it, and nothing else, off what is needed and leaves what the merge is to make of the
  profile as it was (`Progress`); after a new entry the bullets planned for it are rewritten with
  its id, in the list and in what is needed alike (`EntryGained`). A request that fails changes
  nothing, so a merge may break off anywhere and the next one plans the rest. When nothing is needed
  the profile is its own merge (`NothingNeeded`), which is `MergeResult`, and the plan is empty,
  which is `RepeatIsQuiet`. For `HalfMergeIsSafe`, `AllKept` relates the profile stored to the one
  the merges began with: in each table what was there has its key still, and what is new is alone
  with its own. `Fresh`, that ids are given out once, makes an inserted row a new one, and `Refs`,
  that a bullet's entry is there, keeps the bullets of a new entry apart from those of others. Of
  the profiles and extractions the proofs assume that a sequence has given out the ids and that
  bullets have their entries (`ProfilesAssumption`), as the tables' keys demand, and that lists are
  lists (`ExtractionsAssumption`). TLC checked the invariant on all the states of the run before it
  was proved.

Only model-checked: every liveness property. Every invariant and action property of a passing run is
stated by a theorem. `Autosave`'s type invariant is neither proved nor a property of its run: its
retry delay is a power of two, which the provers do not know. Liveness under fairness and `ENABLED`
are beyond the proof system as installed. So are recursive operators, and induction by a rule of the
library; induction over numbers goes by a least counterexample, as in `CrawlerProofs`, and in
`ProfileProofs` what `FlattenSeq` makes of a list of lists.

## 5. Where the code and what it says of itself differ

1. *A claim can be lost* (`JobStoreClaims`). `retention.go:37` decides by its snapshot who holds a
   posting; one applied to after that and before the row is locked is deleted with the mark.
2. *A posting can miss the digest* (`JobDigestMissed`). The mark is taken after the search, and
   `first_seen_at` is when a write began.

Met while modelling, as behaviour the models have and no property forbids:

- **Postings.** A source with no date is never too old for `scraper.go:25`, so the cycle that deletes
  such a posting for its age inserts it again as new.
- **Resumes.** An embedding stays that of the previous fields when the new one fails; a slow
  extraction of a replaced file overwrites the new file's; a save that shares the LLM call's
  deadline may leave a row pending until the user retries; a resume deleted between the check and
  the UPDATE of an activation leaves none active; two uploads that overlap can leave two active, also
  when only one of them saw no resume. The UPDATE of an activation (`profile_resumes.go:86`) changes
  the rows its snapshot holds, so a resume uploaded and activated after that stays active beside the
  one it activates, where line 71 speaks of "the profile's one active resume".
- **Tailored resumes.** `updated_at` is when the save's transaction began (`profile_resumes.go:188`);
  of two extractions that overlap, the one that commits last may carry the earlier time, and a resume
  tailored from the other is shown as current, where `tailored_resumes.go:20` says "stale if the
  source resume was deleted, deactivated, or re-extracted".
- **Digest.** A posting seen while a mark was read from a clock behind the database's lies after the
  mark and is mailed again.
- **Search.** A tag asked for twice matches nothing.
- **Sessions.** A login or refresh that overlaps a password reset survives it; two overlapping
  requests for a link leave two. A refresh that crosses a sign-out sets the cookie again and the
  session lives on; a late answer to a sign-out, or to a refresh sent without a cookie, clears a
  newer cookie. A second tab opened while the request that forgets a session is under way restores
  it, and so does one whose request fails (`auth-store.tsx:61`, `:65`). A tab reloaded while it
  refreshes, or one that sleeps through the 300 ms ping of another, can be signed out.
- **Profiles.** Two stays at one company under one title make a merge give one the other's dates or
  fail on the unique index each time; a merge planned from a stale profile rewrites the wish
  for digests and doubles an entry without dates; a date like 30 February makes the merge
  fail in the same place each time.
- **Autosave, trivia.** A save that was given up may be carried out after a newer one. After two
  raced saves the results page shows its own score while the stored one may be lower.
- **Crawler.** Pages of a sitemap that never become a stored posting of their own URL (no posting, a
  redirect, a duplicate of another source's, too old) are fetched in every crawl, and as many of
  them as the budget, listed first, keep the crawler from the rest.

## 6. Not modelled, and what could follow

- **Job sources.** Each is HTTP calls and a translation of fields. A board that fails is logged and
  left out, so `Fetch` of `JobStore` takes any set of postings.
- **Schedules, startup, shutdown.** One loop and one goroutine per job. The modules take from them
  that one cycle and one digest run at a time; that either may end early is in the modules.
- **LLM, email and embedding clients.** One HTTP call each; the modules take every outcome.
- **Rendering, routing, middleware.** No state of their own. Cover letters store nothing.
- **Parts of modelled components.** Deleting a profile; parsing of robots.txt, sitemaps and pages,
  and the pacing of hosts; how a resume's words become a query.

What could follow, most useful first: `BrowserSession` over `SessionStore` as its server,
with two browsers of one user; liveness of a tab's refresh; salaries and robots rules against
reference definitions over bounded inputs.
