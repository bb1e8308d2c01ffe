------------------------------ MODULE JobStore ------------------------------
(***************************************************************************)
(* The stored job postings and everything that changes them: one scrape    *)
(* cycle after another (scraper/scraper.go), the retention prune           *)
(* (database/retention.go), the bulk write (database/write.go), the        *)
(* embedding pass (database/embeddings.go), and the users whose            *)
(* applications and tailored resumes protect a posting from the prune      *)
(* (database/applications.go, database/tailored_resumes.go).               *)
(*                                                                         *)
(* A posting is identified by its URL, the unique column the upsert        *)
(* conflicts on.  Postgres runs every statement at READ COMMITTED: a       *)
(* statement sees the snapshot taken when it starts, and the row locks it  *)
(* takes are held until its transaction ends.  A DELETE is therefore two   *)
(* steps here, the scan that reads the snapshot and the deletion of what   *)
(* the scan found, and other transactions commit in between.               *)
(*                                                                         *)
(* One cycle runs at a time: schedule.Every calls the scraper from one     *)
(* goroutine, and the hosted schedule serialises its runs in one           *)
(* concurrency group.                                                      *)
(***************************************************************************)
EXTENDS Integers, FiniteSets

CONSTANTS
  Urls,        \* the URLs a posting can have
  Users,       \* the profiles that apply and tailor resumes
  Tags,        \* the tags a posting can carry
  Postings,    \* what the sources may publish: records of url, posted, tags
  Undated,     \* the zero PostedAt, and the NULL posted_at
  MaxAge,      \* JobMaxAge
  MaxJobs,     \* MaxJobs
  Skew,        \* maxPostedAtSkew
  BatchSize,   \* embedJobsBatchSize
  MaxFetch,    \* bound: postings one fetch returns
  MaxTime,     \* bound: the clock stops here
  MaxFaults    \* bound: failed prunes, writes, embedding passes and crashes

Dates == Int \cup {Undated}

ASSUME UndatedAssumption == Undated \notin Int
ASSUME AgeAssumption == MaxAge \in Nat
ASSUME CapAssumption == MaxJobs \in Nat
ASSUME SkewAssumption == Skew \in Nat
ASSUME BatchAssumption == BatchSize \in Nat \ {0}
ASSUME PostingAssumption ==
  Postings \subseteq [url : Urls, posted : Dates, tags : SUBSET Tags]
ASSUME FiniteAssumption == IsFiniteSet(Urls) /\ IsFiniteSet(Postings)

VARIABLES
  now,         \* the database's clock, which the scrape cycles go by as well
  jobs,        \* table jobs: the stored URLs, each with its row
  tagTable,    \* table tags
  applied,     \* table profile_job_applications, as <<user, url>> pairs
  tailored,    \* table profile_tailored_resumes, as <<user, url>> pairs
  pc,          \* where the running cycle is
  batch,       \* the postings this cycle will write
  pruneAgain,  \* TRUE from the write's commit until the prune after it ends
  doomed,      \* rows the prune's running DELETE selected and has not locked yet
  locked,      \* rows the open prune has deleted and not committed
  writeStart,  \* when the open write transaction began
  toEmbed,     \* rows of the current embedding batch not saved yet
  faults       \* how many faults have happened, up to MaxFaults

\* History variables: they record what happened and no action reads them.
VARIABLES
  touched,     \* stored URLs protected at some time since their row was inserted
  held,        \* URLs protected ever since the open prune began
  backlog      \* writes committed since the last prune that committed

storeVars == <<jobs, tagTable, applied, tailored>>
cycleVars == <<pc, batch, pruneAgain, doomed, locked, writeStart, toEmbed, faults>>
histVars == <<touched, held, backlog>>
vars == <<now, storeVars, cycleVars, histVars>>

Row == [posted : Dates, firstSeen : Int, tags : SUBSET Tags, embedded : BOOLEAN]

PruneSteps == {"prune", "deleteExpired", "deleteOverCap"}
Steps == {"idle", "write", "commit", "embed", "save"} \cup PruneSteps

Stored == DOMAIN jobs

\* jobAgeColumn: COALESCE(j.posted_at, j.first_seen_at).
AgeDate(row) == IF row.posted = Undated THEN row.firstSeen ELSE row.posted

\* unprotectedJob, negated: someone applied, or tailored a resume.
HasClaim(url, claims) == \E user \in Users : <<user, url>> \in claims
Protected(url) == HasClaim(url, applied \cup tailored)

ProtectedUrls == {url \in Stored : Protected(url)}

TypeOK ==
  /\ now \in Int
  /\ Stored \subseteq Urls
  /\ jobs \in [Stored -> Row]
  /\ tagTable \subseteq Tags
  /\ applied \subseteq Users \X Stored
  /\ tailored \subseteq Users \X Stored
  /\ pc \in Steps
  /\ batch \subseteq Postings
  /\ pruneAgain \in BOOLEAN
  /\ doomed \subseteq Stored
  /\ locked \subseteq Stored
  /\ writeStart \in Int
  /\ toEmbed \subseteq Stored
  /\ faults \in Nat
  /\ touched \subseteq Stored
  /\ held \subseteq Stored
  /\ backlog \in Nat

Init ==
  /\ now = 0
  /\ jobs = [url \in {} |-> 0]
  /\ tagTable = {}
  /\ applied = {}
  /\ tailored = {}
  /\ pc = "idle"
  /\ batch = {}
  /\ pruneAgain = FALSE
  /\ doomed = {}
  /\ locked = {}
  /\ writeStart = 0
  /\ toEmbed = {}
  /\ faults = 0
  /\ touched = {}
  /\ held = {}
  /\ backlog = 0

-----------------------------------------------------------------------------
(* What the fetch keeps.                                                   *)

\* dropExpiredJobs: a posting with no date is never too old.
DropExpired(fetched, cutoff) ==
  {p \in fetched : p.posted = Undated \/ p.posted >= cutoff}

\* The order capNewestJobs sorts by: the zero time is the earliest.
AtLeastAsNew(p, q) ==
  \/ q.posted = Undated
  \/ p.posted # Undated /\ q.posted # Undated /\ p.posted >= q.posted

\* capNewestJobs: the MaxJobs newest, whichever of two equally new ones came
\* first from the sources.
CapNewest(fetched) ==
  {kept \in SUBSET fetched :
     IF Cardinality(fetched) <= MaxJobs
     THEN kept = fetched
     ELSE /\ Cardinality(kept) = MaxJobs
          /\ \A p \in kept, q \in fetched \ kept : AtLeastAsNew(p, q)}

\* dedupeJobsByURL: one posting per URL, the last one in the batch's order.
OnePerUrl(kept) ==
  {unique \in SUBSET kept :
     /\ {p.url : p \in unique} = {p.url : p \in kept}
     /\ \A p, q \in unique : p.url = q.url => p = q}

(* Fetching: every source answers with some of what is published, or fails *)
(* and contributes nothing.                                                *)
Fetch ==
  /\ pc = "idle"
  /\ \E fetched \in SUBSET Postings :
       /\ Cardinality(fetched) <= MaxFetch
       /\ \E kept \in CapNewest(DropExpired(fetched, now - MaxAge)) :
            \E unique \in OnePerUrl(kept) : batch' = unique
  /\ pc' = "prune"
  /\ UNCHANGED <<now, storeVars, pruneAgain, doomed, locked, writeStart, toEmbed, faults, histVars>>

-----------------------------------------------------------------------------
(* DeleteExpiredJobs, once before the write and once after it.             *)

\* A fault: the first DELETE without its unprotectedJob condition.
ExpiredAndHeld == {url \in Stored : AgeDate(jobs[url]) < now - MaxAge}

\* A fault: posted_at compared without the fallback, so NULL is never older.
ExpiredDated ==
  {url \in Stored : /\ jobs[url].posted # Undated /\ jobs[url].posted < now - MaxAge
                    /\ ~Protected(url)}

Expired ==
  {url \in Stored : AgeDate(jobs[url]) < now - MaxAge /\ ~Protected(url)}

\* A fault: one row too many survives the cap.
OverCapByOne(expired) ==
  LET candidates == {url \in Stored \ expired : ~Protected(url)}
  IN {extra \in SUBSET candidates :
        IF Cardinality(candidates) <= MaxJobs
        THEN extra = {}
        ELSE /\ Cardinality(candidates \ extra) = MaxJobs + 1
             /\ \A old \in extra, new \in candidates \ extra :
                  AgeDate(jobs[old]) <= AgeDate(jobs[new])}

\* A fault: the rows past the cap taken in ascending order.
OverCapNewest(expired) ==
  LET candidates == {url \in Stored \ expired : ~Protected(url)}
  IN {extra \in SUBSET candidates :
        IF Cardinality(candidates) <= MaxJobs
        THEN extra = {}
        ELSE /\ Cardinality(candidates \ extra) = MaxJobs
             /\ \A old \in extra, new \in candidates \ extra :
                  AgeDate(jobs[old]) >= AgeDate(jobs[new])}

\* The unprotected rows past the newest MaxJobs.  Rows of one age are ordered
\* by id in the statement; here the choice among them is open.
OverCap(expired) ==
  LET candidates == {url \in Stored \ expired : ~Protected(url)}
  IN {extra \in SUBSET candidates :
        IF Cardinality(candidates) <= MaxJobs
        THEN extra = {}
        ELSE /\ Cardinality(candidates \ extra) = MaxJobs
             /\ \A old \in extra, new \in candidates \ extra :
                  AgeDate(jobs[old]) <= AgeDate(jobs[new])}

\* The snapshot of the first DELETE.
PruneScan ==
  /\ pc = "prune"
  /\ doomed' = Expired
  /\ held' = ProtectedUrls
  /\ pc' = "deleteExpired"
  /\ UNCHANGED <<now, storeVars, batch, pruneAgain, locked, writeStart, toEmbed, faults,
                 touched, backlog>>

\* The first DELETE takes its rows; then the second reads its own snapshot.
PruneScanOverCap ==
  /\ pc = "deleteExpired"
  /\ locked' = doomed
  /\ doomed' \in OverCap(doomed)
  /\ pc' = "deleteOverCap"
  /\ UNCHANGED <<now, storeVars, batch, pruneAgain, writeStart, toEmbed, faults, histVars>>

\* A fault: the cycle ends with its second prune.
AfterPruneNoEmbedding == IF pruneAgain THEN "idle" ELSE "write"

AfterPrune == IF pruneAgain THEN "embed" ELSE "write"

Pruned == locked \cup doomed

\* Deleting a job cascades to its applications and tailored resumes.
Cascaded(claims) == {claim \in claims : claim[2] \notin Pruned}

\* A fault: the tags of the deleted jobs removed, whoever else has them.
TagsNotDeleted == tagTable \ UNION {jobs[url].tags : url \in Pruned}

\* The tags that some job still has.
UsedTags == {tag \in tagTable : \E url \in Stored \ Pruned : tag \in jobs[url].tags}

\* The second DELETE, the removal of unused tags, and the commit.
PruneCommit ==
  /\ pc = "deleteOverCap"
  /\ jobs' = [url \in Stored \ Pruned |-> jobs[url]]
  /\ applied' = Cascaded(applied)
  /\ tailored' = Cascaded(tailored)
  /\ tagTable' = UsedTags
  /\ doomed' = {}
  /\ locked' = {}
  /\ pc' = AfterPrune
  /\ pruneAgain' = FALSE
  /\ touched' = touched \ Pruned
  /\ held' = {}
  /\ backlog' = 0
  /\ UNCHANGED <<now, batch, writeStart, toEmbed, faults>>

\* An error or a timeout rolls the prune back; it is logged, and the cycle
\* goes on.
PruneFail ==
  /\ pc \in PruneSteps
  /\ faults < MaxFaults
  /\ faults' = faults + 1
  /\ doomed' = {}
  /\ locked' = {}
  /\ pc' = AfterPrune
  /\ pruneAgain' = FALSE
  /\ held' = {}
  /\ UNCHANGED <<now, storeVars, batch, writeStart, toEmbed, touched, backlog>>

-----------------------------------------------------------------------------
(* WriteJobsToDatabase: first_seen_at defaults to NOW(), the time its      *)
(* transaction began; the rows appear when it commits.                     *)

\* upsertJobs: a post date in the future is stored as unknown.
StoredDate(posted, at) ==
  IF posted # Undated /\ posted < at + Skew THEN posted ELSE Undated

\* A fault: a scrape without a date erases the known one.
UpsertForgettingDate(p) ==
  LET date == StoredDate(p.posted, writeStart)
  IN IF p.url \in Stored
     THEN [jobs[p.url] EXCEPT !.posted = date, !.tags = p.tags]
     ELSE [posted |-> date, firstSeen |-> writeStart, tags |-> p.tags,
           embedded |-> FALSE]

\* ON CONFLICT (url) DO UPDATE keeps first_seen_at and the embedding, and a
\* known post date when the scrape has none.
Upsert(p) ==
  LET date == StoredDate(p.posted, writeStart)
  IN IF p.url \in Stored
     THEN [jobs[p.url] EXCEPT !.posted = IF date = Undated THEN @ ELSE date,
                              !.tags = p.tags]
     ELSE [posted |-> date, firstSeen |-> writeStart, tags |-> p.tags,
           embedded |-> FALSE]

BatchUrls == {p.url : p \in batch}
PostingOf(url) == CHOOSE p \in batch : p.url = url

WriteBegin ==
  /\ pc = "write"
  /\ writeStart' = now
  /\ pc' = "commit"
  /\ UNCHANGED <<now, storeVars, batch, pruneAgain, doomed, locked, toEmbed, faults, histVars>>

WriteCommit ==
  /\ pc = "commit"
  /\ jobs' = [url \in Stored \cup BatchUrls |->
                IF url \in BatchUrls THEN Upsert(PostingOf(url)) ELSE jobs[url]]
  /\ tagTable' = tagTable \cup UNION {p.tags : p \in batch}
  /\ batch' = {}
  /\ pruneAgain' = TRUE
  /\ writeStart' = 0
  /\ pc' = "prune"
  /\ backlog' = backlog + 1
  /\ UNCHANGED <<now, applied, tailored, doomed, locked, toEmbed, faults,
                 touched, held>>

-----------------------------------------------------------------------------
(* EmbedPendingJobs: batches of rows with no embedding, one LLM call per   *)
(* batch, then one autocommitted UPDATE per row.                           *)

\* A row with no description would never be selected; the postings modelled
\* all have one.
Pending == {url \in Stored : ~jobs[url].embedded}

EmbedSelect ==
  /\ pc = "embed"
  /\ \E chosen \in SUBSET Pending :
       /\ Cardinality(chosen) =
            IF Cardinality(Pending) < BatchSize THEN Cardinality(Pending) ELSE BatchSize
       /\ toEmbed' = chosen
       /\ pc' = IF chosen = {} THEN "idle" ELSE "save"
  /\ UNCHANGED <<now, storeVars, batch, pruneAgain, doomed, locked, writeStart, faults,
                 histVars>>

\* After the batch's last row the pass selects again while rows are pending;
\* after a batch that took all of them it stops.
EmbedSave(url) ==
  /\ pc = "save"
  /\ url \in toEmbed
  /\ jobs' = [jobs EXCEPT ![url].embedded = TRUE]
  /\ toEmbed' = toEmbed \ {url}
  /\ pc' = IF toEmbed # {url} THEN "save"
           ELSE IF Pending = {url} THEN "idle" ELSE "embed"
  /\ UNCHANGED <<now, tagTable, applied, tailored, batch, pruneAgain, doomed, locked,
                 writeStart, faults, histVars>>

\* A cancelled fetch, a failed write, a failed embedding pass, a panic or a
\* crash: the cycle ends where it is, its open transaction rolled back.
EndEarly ==
  /\ pc # "idle"
  /\ faults < MaxFaults
  /\ faults' = faults + 1
  /\ pc' = "idle"
  /\ batch' = {}
  /\ doomed' = {}
  /\ locked' = {}
  /\ writeStart' = 0
  /\ toEmbed' = {}
  /\ held' = {}
  /\ pruneAgain' = FALSE
  /\ UNCHANGED <<now, storeVars, touched, backlog>>

-----------------------------------------------------------------------------
(* Users.  An INSERT into either table takes a key-share lock on the job   *)
(* row, so it waits for a prune that has locked that row and then fails.   *)

MarkJobApplied(user, url) ==
  /\ url \in Stored \ locked
  /\ applied' = applied \cup {<<user, url>>}
  /\ touched' = touched \cup {url}
  /\ UNCHANGED <<now, jobs, tagTable, tailored, cycleVars, held, backlog>>

UnmarkJobApplied(user, url) ==
  /\ <<user, url>> \in applied
  /\ applied' = applied \ {<<user, url>>}
  /\ held' = {kept \in held : kept # url \/ HasClaim(url, applied' \cup tailored)}
  /\ UNCHANGED <<now, jobs, tagTable, tailored, cycleVars, touched, backlog>>

UpsertTailoredResume(user, url) ==
  /\ url \in Stored \ locked
  /\ tailored' = tailored \cup {<<user, url>>}
  /\ touched' = touched \cup {url}
  /\ UNCHANGED <<now, jobs, tagTable, applied, cycleVars, held, backlog>>

Tick ==
  /\ now < MaxTime
  /\ now' = now + 1
  /\ UNCHANGED <<storeVars, cycleVars, histVars>>

-----------------------------------------------------------------------------
Prune == PruneScan \/ PruneScanOverCap \/ PruneCommit
Write == WriteBegin \/ WriteCommit
Embed == EmbedSelect \/ \E url \in Urls : EmbedSave(url)

Cycle == Fetch \/ Prune \/ Write \/ Embed

Faults == PruneFail \/ EndEarly

UserStep ==
  \E user \in Users, url \in Urls :
    \/ MarkJobApplied(user, url)
    \/ UnmarkJobApplied(user, url)
    \/ UpsertTailoredResume(user, url)

Next == Cycle \/ Faults \/ UserStep \/ Tick

Spec == Init /\ [][Next]_vars

-----------------------------------------------------------------------------
(* Properties.                                                             *)

\* The retention cap, at every moment: the postings nobody ever claimed number
\* at most MaxJobs, and MaxJobs more for each batch written since the last
\* prune that committed, however prunes fail, cycles die and users come and
\* go.  (retention.go: "caps how many unprotected jobs are stored"; the cycle
\* writes before its second prune, and a failed prune does not stop the write.)
StoreBounded ==
  Cardinality(Stored \ touched) <= MaxJobs * (backlog + 1)

\* The prune keeps what users hold: a posting that was applied to or tailored
\* for when the prune began, and is still, is not deleted by it.
HeldPostingsKept ==
  [][PruneCommit => held \subseteq DOMAIN jobs']_vars

\* The oldest go first: no prune deletes a posting and keeps an older one that
\* nobody ever claimed, although the two statements read different snapshots
\* and claims arrive between them.
OldestDeletedFirst ==
  [][PruneCommit =>
       \A gone \in Stored \ DOMAIN jobs', kept \in DOMAIN jobs' \ touched :
         AgeDate(jobs[gone]) <= AgeDate(jobs[kept])]_vars

\* What the tables refer to exists: an application and a tailored resume name
\* a stored job, and every tag of a job is in the tag table, so the removal of
\* unused tags never takes one that a row still carries.
ReferencesHold ==
  /\ \A claim \in applied \cup tailored : claim[2] \in Stored
  /\ \A url \in Stored : jobs[url].tags \subseteq tagTable

\* A row never loses its date or its first_seen_at while it is stored, so its
\* age only changes when a source gives it a new date: a scrape without one, or with one
\* in the future, does not make a dated posting look new to the prune.
NeverRejuvenatedByUndated ==
  [][\A url \in Stored \cap DOMAIN jobs' :
       /\ jobs'[url].firstSeen = jobs[url].firstSeen
       /\ AgeDate(jobs'[url]) # AgeDate(jobs[url]) =>
            \E p \in batch : p.url = url /\ p.posted = AgeDate(jobs'[url])]_vars

\* README.md: postings are deleted "except ones someone marked applied or
\* tailored a resume for": a posting with a claim is not deleted.
ClaimedPostingsKept ==
  [][\A url \in Stored : Protected(url) => url \in DOMAIN jobs']_vars

\* Cycles keep running: the goroutine that runs them is never starved.
FairSpec == Spec /\ WF_vars(Cycle)

ExpiredRow(url) ==
  url \in Stored /\ AgeDate(jobs[url]) < now - MaxAge

\* Retention happens: once a posting's last claim is gone for good, it does not
\* stay listed past its age, whichever prunes failed before.
ExpiredAreDeleted ==
  \A url \in Urls : <>[](~Protected(url)) => []<>(~ExpiredRow(url))

\* The embedding pass catches up: again and again every stored posting has an
\* embedding, although a pass takes the rows batch by batch and may die
\* between any two of them.
EmbeddingCatchesUp == []<>(Pending = {})

=============================================================================
