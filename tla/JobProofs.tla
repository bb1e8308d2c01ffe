----------------------------- MODULE JobProofs ------------------------------
(***************************************************************************)
(* Proofs about the stored postings, for every value of the constants:     *)
(* JobStore's scrape cycle with its retention, the digest that JobDigest   *)
(* runs beside it, and the searches of JobSearch.                          *)
(***************************************************************************)
EXTENDS JobDigest, FiniteSetTheorems, FunctionTheorems, TLAPS

-----------------------------------------------------------------------------
(* JobStore: the scrape cycle, the prunes and the claims.                  *)

\* What only some steps of a cycle use is empty in the others.
OnlyWhereUsed ==
  /\ pc # "save" => toEmbed = {}
  /\ pc \notin {"deleteExpired", "deleteOverCap"} => doomed = {}
  /\ pc # "deleteOverCap" => locked = {}

Shape == TypeOK /\ OnlyWhereUsed

\* The row an upsert leaves is a row, whatever date the posting came with.
LEMMA UpsertIsRow ==
  ASSUME TypeOK, NEW p \in Postings
  PROVE  Upsert(p) \in Row
<1>1. p.posted \in Dates /\ p.tags \in SUBSET Tags
  BY PostingAssumption
<1>2. StoredDate(p.posted, writeStart) \in Dates
  BY <1>1 DEF StoredDate, Dates
<1>3. CASE p.url \in Stored
  <2>1. jobs[p.url] \in Row
    BY <1>3 DEF TypeOK
  <2> QED BY <1>1, <1>2, <1>3, <2>1 DEF Upsert, Row
<1>4. CASE p.url \notin Stored
  BY <1>1, <1>2, <1>4 DEF Upsert, Row, TypeOK
<1> QED BY <1>3, <1>4

\* The posting an upsert uses for a URL of the batch is in the batch.
LEMMA PostingOfBatch ==
  ASSUME TypeOK, NEW url \in BatchUrls
  PROVE  /\ PostingOf(url) \in batch
         /\ PostingOf(url) \in Postings
         /\ PostingOf(url).url = url
         /\ url \in Urls
<1>1. PICK p \in batch : p.url = url
  BY DEF BatchUrls
<1>2. PostingOf(url) \in batch /\ PostingOf(url).url = url
  BY <1>1 DEF PostingOf
<1>3. batch \subseteq Postings
  BY DEF TypeOK
<1> QED BY <1>2, <1>3, PostingAssumption

LEMMA ShapeInit == Init => Shape
<1> SUFFICES ASSUME Init PROVE Shape
  OBVIOUS
<1>1. Stored = {} /\ jobs \in [Stored -> Row]
  BY DEF Init, Stored
<1>2. /\ pc \in Steps
      /\ now \in Int /\ writeStart \in Int /\ faults \in Nat /\ backlog \in Nat
  BY DEF Init, Steps
<1>3. /\ tagTable \subseteq Tags /\ batch \subseteq Postings
      /\ applied \subseteq Users \X Stored /\ tailored \subseteq Users \X Stored
      /\ doomed \subseteq Stored /\ locked \subseteq Stored /\ toEmbed \subseteq Stored
      /\ touched \subseteq Stored /\ held \subseteq Stored
  BY DEF Init
<1>4. pruneAgain \in BOOLEAN
  BY DEF Init
<1>5. TypeOK
  BY <1>1, <1>2, <1>3, <1>4 DEF TypeOK
<1> QED BY <1>5 DEF Init, Shape, OnlyWhereUsed

LEMMA ShapeStep == Shape /\ [Next]_vars => Shape'
<1> SUFFICES ASSUME Shape, [Next]_vars PROVE Shape'
  OBVIOUS
<1> USE DEF Shape, OnlyWhereUsed, TypeOK, Stored, Steps, PruneSteps
<1>1. CASE Fetch
  <2>1. \A fetched \in SUBSET Postings : \A kept \in CapNewest(DropExpired(fetched, now - MaxAge)) :
          \A unique \in OnePerUrl(kept) : unique \subseteq Postings
    BY DEF CapNewest, DropExpired, OnePerUrl
  <2>2. batch' \subseteq Postings
    BY <1>1, <2>1 DEF Fetch
  <2> QED BY <1>1, <2>2 DEF Fetch, storeVars, histVars
<1>2. CASE PruneScan
  BY <1>2 DEF PruneScan, storeVars, Expired, ProtectedUrls
<1>3. CASE PruneScanOverCap
  <2>1. doomed' \subseteq Stored
    BY <1>3 DEF PruneScanOverCap, OverCap
  <2> QED BY <1>3, <2>1 DEF PruneScanOverCap, storeVars, histVars
<1>4. CASE PruneCommit
  <2>1. DOMAIN jobs' = Stored \ Pruned /\ jobs' \in [Stored \ Pruned -> Row]
    BY <1>4 DEF PruneCommit
  <2>2. /\ applied' \subseteq Users \X (Stored \ Pruned)
        /\ tailored' \subseteq Users \X (Stored \ Pruned)
    BY <1>4 DEF PruneCommit, Cascaded
  <2>3. /\ tagTable' \subseteq Tags
        /\ pc' \in Steps \ {"save", "deleteExpired", "deleteOverCap"}
        /\ doomed' = {} /\ locked' = {} /\ held' = {} /\ backlog' = 0
        /\ touched' \subseteq Stored \ Pruned
        /\ toEmbed' = {}
        /\ UNCHANGED <<now, batch, writeStart, faults>>
    BY <1>4 DEF PruneCommit, AfterPrune, UsedTags
  <2>4. TypeOK'
    <3>1. Stored' = Stored \ Pruned
      BY <2>1
    <3>2. jobs' \in [Stored' -> Row]
      BY <2>1, <3>1
    <3>3. pruneAgain' \in BOOLEAN
      BY <1>4 DEF PruneCommit
    <3> QED BY <2>2, <2>3, <3>1, <3>2, <3>3
  <2> QED BY <2>3, <2>4
<1>5. CASE PruneFail
  <2>1. pruneAgain' \in BOOLEAN
    BY <1>5 DEF PruneFail
  <2>2. /\ pc' \in {"embed", "write"} /\ faults' = faults + 1
        /\ doomed' = {} /\ locked' = {} /\ held' = {} /\ toEmbed' = {}
        /\ UNCHANGED <<now, jobs, tagTable, applied, tailored, batch, writeStart,
                       touched, backlog>>
    BY <1>5 DEF PruneFail, storeVars, AfterPrune
  <2>3. Stored' = Stored
    BY <2>2
  <2> QED BY <2>1, <2>2, <2>3
<1>6. CASE WriteBegin
  BY <1>6 DEF WriteBegin, storeVars, histVars
<1>7. CASE WriteCommit
  <2>1. BatchUrls \subseteq Urls
    BY PostingOfBatch
  <2>2. \A url \in BatchUrls : Upsert(PostingOf(url)) \in Row
    BY PostingOfBatch, UpsertIsRow
  <2>3. /\ DOMAIN jobs' = Stored \cup BatchUrls
        /\ jobs' \in [Stored \cup BatchUrls -> Row]
    BY <1>7, <2>2 DEF WriteCommit
  <2>4. tagTable' \subseteq Tags
    BY <1>7, PostingAssumption DEF WriteCommit
  <2> QED BY <1>7, <2>1, <2>3, <2>4 DEF WriteCommit
<1>8. CASE EmbedSelect
  <2>1. Pending \subseteq Stored
    BY DEF Pending
  <2> QED BY <1>8, <2>1 DEF EmbedSelect, storeVars, histVars
<1>9. ASSUME NEW url \in Urls, EmbedSave(url) PROVE Shape'
  <2>1. jobs' \in [Stored -> Row] /\ DOMAIN jobs' = Stored
    BY <1>9 DEF EmbedSave, Row
  <2>2. /\ toEmbed' \subseteq Stored
        /\ pc' \in {"save", "idle", "embed"}
        /\ pc' # "save" => toEmbed' = {}
    BY <1>9 DEF EmbedSave
  <2>3. Stored' = Stored
    BY <2>1
  <2>4. jobs' \in [Stored' -> Row]
    BY <2>1, <2>3
  <2>5. /\ doomed' = {} /\ locked' = {}
        /\ UNCHANGED <<now, tagTable, applied, tailored, batch, pruneAgain, writeStart,
                       faults, touched, held, backlog>>
    BY <1>9 DEF EmbedSave, histVars
  <2> QED BY <2>2, <2>3, <2>4, <2>5
<1>10. CASE EndEarly
  <2>1. /\ pc' = "idle" /\ writeStart' = 0 /\ faults' = faults + 1
        /\ batch' = {} /\ doomed' = {} /\ locked' = {} /\ toEmbed' = {} /\ held' = {}
        /\ UNCHANGED <<now, jobs, tagTable, applied, tailored, touched, backlog>>
    BY <1>10 DEF EndEarly, storeVars
  <2>2. Stored' = Stored
    BY <2>1
  <2>3. pruneAgain' \in BOOLEAN
    BY <1>10 DEF EndEarly
  <2> QED BY <2>1, <2>2, <2>3
<1>11. CASE UserStep
  <2> SUFFICES ASSUME NEW user \in Users, NEW url \in Urls,
                      \/ MarkJobApplied(user, url)
                      \/ UnmarkJobApplied(user, url)
                      \/ UpsertTailoredResume(user, url)
               PROVE  Shape'
    BY <1>11 DEF UserStep
  <2>1. CASE MarkJobApplied(user, url)
    BY <2>1 DEF MarkJobApplied, cycleVars
  <2>2. CASE UnmarkJobApplied(user, url)
    BY <2>2 DEF UnmarkJobApplied, cycleVars
  <2>3. CASE UpsertTailoredResume(user, url)
    BY <2>3 DEF UpsertTailoredResume, cycleVars
  <2> QED BY <2>1, <2>2, <2>3
<1>12. CASE Tick
  BY <1>12 DEF Tick, storeVars, cycleVars, histVars
<1>13. CASE UNCHANGED vars
  BY <1>13 DEF vars, storeVars, cycleVars, histVars
<1> QED
  BY <1>1, <1>2, <1>3, <1>4, <1>5, <1>6, <1>7, <1>8, <1>9, <1>10, <1>11, <1>12, <1>13
  DEF Next, Cycle, Prune, Write, Embed, Faults

LEMMA ShapeInvariant == Spec => []Shape
  BY ShapeInit, ShapeStep, PTL DEF Spec

\* Every variable keeps its type in every reachable state; in particular the
\* claims, the rows a prune has locked and those the embedding pass still has
\* to save are all rows that exist.
THEOREM TypeCorrect == Spec => []TypeOK
<1>1. Shape => TypeOK
  BY DEF Shape
<1> QED BY <1>1, ShapeInvariant, PTL

-----------------------------------------------------------------------------
(* The retention cap.                                                      *)

\* A posting with a claim now was claimed at some time.
ClaimsTouched == \A url \in Stored : Protected(url) => url \in touched

BatchBounded == Cardinality(batch) <= MaxJobs

\* Once the second DELETE has read its snapshot, what the prune will leave of
\* the postings nobody ever claimed fits the cap.
CapApplied ==
  pc = "deleteOverCap" => Cardinality((Stored \ touched) \ Pruned) <= MaxJobs

Bounded == Shape /\ ClaimsTouched /\ BatchBounded /\ CapApplied /\ StoreBounded

LEMMA SubsetOfUrls ==
  ASSUME NEW S \in SUBSET Urls, NEW T \in SUBSET S
  PROVE  /\ IsFiniteSet(S) /\ Cardinality(S) \in Nat
         /\ IsFiniteSet(T) /\ Cardinality(T) \in Nat
         /\ Cardinality(T) <= Cardinality(S)
<1>1. IsFiniteSet(S)
  BY FiniteAssumption, FS_Subset
<1> QED BY <1>1, FS_Subset, FS_CardinalityType

\* The upserted URLs are no more than the batch.
LEMMA BatchUrlsBounded ==
  ASSUME TypeOK, BatchBounded
  PROVE  /\ BatchUrls \subseteq Urls
         /\ Cardinality(BatchUrls) \in Nat
         /\ Cardinality(BatchUrls) <= MaxJobs
<1>1. IsFiniteSet(batch)
  BY FiniteAssumption, FS_Subset DEF TypeOK
<1> DEFINE url == [p \in batch |-> p.url]
<1>2. url \in Surjection(batch, BatchUrls)
  BY DEF Surjection, BatchUrls
<1>3. IsFiniteSet(BatchUrls) /\ Cardinality(BatchUrls) <= Cardinality(batch)
  <2> HIDE DEF url
  <2> QED BY <1>1, <1>2, FS_Surjection
<1>4. Cardinality(BatchUrls) \in Nat /\ Cardinality(batch) \in Nat
  BY <1>1, <1>3, FS_CardinalityType
<1> QED BY <1>3, <1>4, PostingOfBatch, CapAssumption DEF BatchBounded

\* Whatever the sources return, the batch a fetch keeps fits the cap.
LEMMA FetchedBatchBounded ==
  ASSUME NEW fetched \in SUBSET Postings, NEW kept \in CapNewest(fetched),
         NEW unique \in OnePerUrl(kept)
  PROVE  Cardinality(unique) <= MaxJobs
<1>1. kept \subseteq fetched /\ unique \subseteq kept
  BY DEF CapNewest, OnePerUrl
<1>2. IsFiniteSet(fetched) /\ IsFiniteSet(kept)
  BY <1>1, FiniteAssumption, FS_Subset
<1>3. IsFiniteSet(unique) /\ Cardinality(unique) <= Cardinality(kept)
  BY <1>1, <1>2, FS_Subset
<1>4. /\ Cardinality(fetched) \in Nat /\ Cardinality(kept) \in Nat
      /\ Cardinality(unique) \in Nat
  BY <1>2, <1>3, FS_CardinalityType
<1>5. Cardinality(kept) <= MaxJobs
  BY <1>4, CapAssumption DEF CapNewest
<1> QED BY <1>3, <1>4, <1>5, CapAssumption

LEMMA BoundedInit == Init => Bounded
<1> SUFFICES ASSUME Init PROVE Bounded
  OBVIOUS
<1>1. Shape
  BY ShapeInit
<1>2. Stored = {} /\ touched = {} /\ batch = {} /\ backlog = 0 /\ pc = "idle"
  BY DEF Init, Stored
<1>3. Stored \ touched = {}
  BY <1>2
<1> QED BY <1>1, <1>2, <1>3, FS_EmptySet, CapAssumption
        DEF Bounded, ClaimsTouched, BatchBounded, CapApplied, StoreBounded

\* A step that inserts no row, forgets no claim and does not end a prune keeps
\* the bound and the cap.
LEMMA BoundKept ==
  ASSUME Bounded, Stored' = Stored, touched \subseteq touched', backlog' = backlog,
         TypeOK',
         pc' = "deleteOverCap" => pc = "deleteOverCap" /\ UNCHANGED <<locked, doomed>>
  PROVE  StoreBounded' /\ CapApplied'
<1> USE DEF Bounded, Shape
<1>1. /\ Cardinality(Stored' \ touched') \in Nat /\ Cardinality(Stored \ touched) \in Nat
      /\ Cardinality(Stored' \ touched') <= Cardinality(Stored \ touched)
  <2>1. Stored \ touched \in SUBSET Urls
    BY DEF TypeOK
  <2>2. Stored' \ touched' \in SUBSET (Stored \ touched)
    OBVIOUS
  <2> QED BY <2>1, <2>2, SubsetOfUrls
<1>2. StoreBounded'
  <2> DEFINE bound == MaxJobs * (backlog + 1)
  <2>1. bound \in Nat
    BY CapAssumption DEF TypeOK
  <2>2. Cardinality(Stored \ touched) <= bound
    BY DEF StoreBounded
  <2>3. Cardinality(Stored' \ touched') <= bound
    <3> HIDE DEF bound
    <3> QED BY <1>1, <2>1, <2>2
  <2> QED BY <2>3 DEF StoreBounded
<1>3. CapApplied'
  <2> SUFFICES ASSUME pc' = "deleteOverCap"
               PROVE  Cardinality((Stored' \ touched') \ Pruned') <= MaxJobs
    BY DEF CapApplied
  <2>1. Pruned' = Pruned
    BY DEF Pruned
  <2>2. (Stored \ touched) \ Pruned \in SUBSET Urls
    BY DEF TypeOK
  <2>3. (Stored' \ touched') \ Pruned' \in SUBSET ((Stored \ touched) \ Pruned)
    BY <2>1
  <2>4. Cardinality((Stored \ touched) \ Pruned) <= MaxJobs
    BY DEF CapApplied
  <2> HIDE DEF Bounded, Shape
  <2> QED BY <2>2, <2>3, <2>4, SubsetOfUrls, CapAssumption
<1> QED BY <1>2, <1>3

LEMMA ClaimsTouchedStep == Shape /\ ClaimsTouched /\ [Next]_vars => ClaimsTouched'
<1> SUFFICES ASSUME Shape, ClaimsTouched, [Next]_vars,
                    NEW url \in Stored', Protected(url)'
             PROVE  url \in touched'
  BY DEF ClaimsTouched
<1> USE DEF ClaimsTouched, Protected, HasClaim
\* Most steps change neither the claims nor the history.
<1>1. CASE UNCHANGED <<applied, tailored, touched>> /\ Stored' = Stored
  BY <1>1
<1>2. CASE PruneCommit
  <2>1. Stored' = Stored \ Pruned /\ touched' = touched \ Pruned
    BY <1>2 DEF PruneCommit, Stored
  <2>2. applied' \subseteq applied /\ tailored' \subseteq tailored
    BY <1>2 DEF PruneCommit, Cascaded
  <2> QED BY <2>1, <2>2
<1>3. CASE WriteCommit
  <2>1. applied' = applied /\ tailored' = tailored /\ touched' = touched
    BY <1>3 DEF WriteCommit
  <2>2. applied \subseteq Users \X Stored /\ tailored \subseteq Users \X Stored
    BY DEF Shape, TypeOK
  <2>3. url \in Stored
    BY <2>1, <2>2
  <2> QED BY <2>1, <2>3
<1>4. CASE UserStep
  <2> SUFFICES ASSUME NEW user \in Users, NEW claimed \in Urls,
                      \/ MarkJobApplied(user, claimed)
                      \/ UnmarkJobApplied(user, claimed)
                      \/ UpsertTailoredResume(user, claimed)
               PROVE  url \in touched'
    BY <1>4 DEF UserStep
  <2>1. Stored' = Stored
    BY DEF MarkJobApplied, UnmarkJobApplied, UpsertTailoredResume, Stored
  <2>2. CASE MarkJobApplied(user, claimed)
    BY <2>1, <2>2 DEF MarkJobApplied
  <2>3. CASE UnmarkJobApplied(user, claimed)
    BY <2>1, <2>3 DEF UnmarkJobApplied
  <2>4. CASE UpsertTailoredResume(user, claimed)
    BY <2>1, <2>4 DEF UpsertTailoredResume
  <2> QED BY <2>2, <2>3, <2>4
<1>5. CASE \/ Fetch \/ PruneScan \/ PruneScanOverCap \/ PruneFail \/ WriteBegin
           \/ EmbedSelect \/ (\E saved \in Urls : EmbedSave(saved)) \/ EndEarly \/ Tick
           \/ UNCHANGED vars
  <2>1. UNCHANGED <<applied, tailored, touched>>
    BY <1>5 DEF Fetch, PruneScan, PruneScanOverCap, PruneFail, WriteBegin, EmbedSelect,
      EmbedSave, EndEarly, Tick, vars, storeVars, histVars
  <2>2. Stored' = Stored
    BY <1>5 DEF Fetch, PruneScan, PruneScanOverCap, PruneFail, WriteBegin, EmbedSelect,
      EmbedSave, EndEarly, Tick, vars, storeVars, Stored
  <2> QED BY <1>1, <2>1, <2>2
<1> QED BY <1>2, <1>3, <1>4, <1>5 DEF Next, Cycle, Prune, Write, Embed, Faults

LEMMA BatchBoundedStep == BatchBounded /\ [Next]_vars => BatchBounded'
<1> SUFFICES ASSUME BatchBounded, [Next]_vars PROVE Cardinality(batch') <= MaxJobs
  BY DEF BatchBounded
<1>1. CASE Fetch
  <2>1. PICK fetched \in SUBSET Postings :
          \E kept \in CapNewest(DropExpired(fetched, now - MaxAge)) :
            batch' \in OnePerUrl(kept)
    BY <1>1 DEF Fetch
  <2>2. DropExpired(fetched, now - MaxAge) \in SUBSET Postings
    BY DEF DropExpired
  <2> QED BY <2>1, <2>2, FetchedBatchBounded
<1>2. CASE batch' = {}
  BY <1>2, FS_EmptySet, CapAssumption
<1>3. CASE batch' = batch
  BY <1>3 DEF BatchBounded
<1>4. CASE \/ PruneScan \/ PruneScanOverCap \/ PruneCommit \/ PruneFail \/ WriteBegin
           \/ EmbedSelect \/ (\E url \in Urls : EmbedSave(url)) \/ Tick \/ UserStep
           \/ UNCHANGED vars
  <2>1. batch' = batch
    BY <1>4 DEF PruneScan, PruneScanOverCap, PruneCommit, PruneFail, WriteBegin,
      EmbedSelect, EmbedSave, Tick, UserStep, MarkJobApplied, UnmarkJobApplied,
      UpsertTailoredResume, vars, cycleVars
  <2> QED BY <1>3, <2>1
<1>5. CASE WriteCommit \/ EndEarly
  BY <1>2, <1>5 DEF WriteCommit, EndEarly
<1> QED BY <1>1, <1>4, <1>5 DEF Next, Cycle, Prune, Write, Embed, Faults

LEMMA BoundedStep == Bounded /\ [Next]_vars => Bounded'
<1> SUFFICES ASSUME Bounded, [Next]_vars PROVE Bounded'
  OBVIOUS
<1>1. Shape /\ TypeOK
  BY DEF Bounded, Shape
<1>2. Shape' /\ TypeOK'
  BY <1>1, ShapeStep DEF Shape
<1>3. ClaimsTouched' /\ BatchBounded'
  BY <1>1, ClaimsTouchedStep, BatchBoundedStep DEF Bounded
<1>4. StoreBounded' /\ CapApplied'
  <2>1. CASE PruneScanOverCap
    <3>1. /\ Stored' = Stored /\ touched' = touched /\ backlog' = backlog
          /\ locked' = doomed /\ doomed' \in OverCap(doomed)
      BY <2>1 DEF PruneScanOverCap, storeVars, histVars, Stored
    <3>2. StoreBounded'
      BY <3>1 DEF Bounded, StoreBounded
    <3> DEFINE candidates == {url \in Stored \ doomed : ~Protected(url)}
    <3>3. /\ doomed' \in SUBSET candidates
          /\ \/ Cardinality(candidates) <= MaxJobs /\ doomed' = {}
             \/ Cardinality(candidates \ doomed') = MaxJobs
      BY <3>1 DEF OverCap
    <3>4. candidates \in SUBSET Urls
      BY <1>1 DEF TypeOK
    <3>5. Cardinality(candidates \ doomed') <= MaxJobs
      <4>1. candidates \ doomed' \in SUBSET candidates
        OBVIOUS
      <4> HIDE DEF candidates
      <4> QED BY <3>3, <3>4, <4>1, SubsetOfUrls, CapAssumption
    <3>6. (Stored \ touched) \ (doomed \cup doomed') \in SUBSET (candidates \ doomed')
      BY DEF Bounded, ClaimsTouched
    <3>7. Cardinality((Stored \ touched) \ (doomed \cup doomed')) <= MaxJobs
      <4>1. candidates \ doomed' \in SUBSET Urls
        BY <3>4
      <4> HIDE DEF candidates
      <4> QED BY <3>5, <3>6, <4>1, SubsetOfUrls, CapAssumption
    <3>8. CapApplied'
      BY <3>1, <3>7 DEF CapApplied, Pruned
    <3> QED BY <3>2, <3>8
  <2>2. CASE PruneCommit
    <3>1. /\ Stored' = Stored \ Pruned /\ touched' = touched \ Pruned /\ backlog' = 0
          /\ pc = "deleteOverCap" /\ pc' # "deleteOverCap"
      BY <2>2 DEF PruneCommit, Stored, AfterPrune
    <3>2. Stored' \ touched' = (Stored \ touched) \ Pruned
      BY <3>1
    <3>3. Cardinality((Stored \ touched) \ Pruned) <= MaxJobs
      BY <3>1 DEF Bounded, CapApplied
    <3> QED BY <3>1, <3>2, <3>3, CapAssumption DEF StoreBounded, CapApplied
  <2>3. CASE WriteCommit
    <3>1. /\ Stored' = Stored \cup BatchUrls /\ touched' = touched
          /\ backlog' = backlog + 1 /\ pc' # "deleteOverCap"
      BY <2>3 DEF WriteCommit, Stored
    <3> DEFINE old == Stored \ touched
    <3>2. old \in SUBSET Urls /\ BatchUrls \in SUBSET Urls
          /\ Cardinality(BatchUrls) \in Nat /\ Cardinality(BatchUrls) <= MaxJobs
      BY <1>1, BatchUrlsBounded DEF Bounded, TypeOK
    <3>3. Stored' \ touched' \in SUBSET (old \cup BatchUrls)
      BY <3>1
    <3>4. Cardinality(old) <= MaxJobs * (backlog + 1)
      BY DEF Bounded, StoreBounded
    <3>5. Cardinality(Stored' \ touched') <= Cardinality(old) + Cardinality(BatchUrls)
      <4> HIDE DEF old
      <4>1. /\ IsFiniteSet(old) /\ IsFiniteSet(BatchUrls)
            /\ Cardinality(old) \in Nat
        BY <3>2, SubsetOfUrls
      <4>2. /\ Cardinality(old \cup BatchUrls) =
                 Cardinality(old) + Cardinality(BatchUrls) - Cardinality(old \cap BatchUrls)
            /\ Cardinality(old \cap BatchUrls) \in Nat
        BY <3>2, <4>1, FS_Union, SubsetOfUrls
      <4>3. /\ Cardinality(Stored' \ touched') \in Nat
            /\ Cardinality(old \cup BatchUrls) \in Nat
            /\ Cardinality(Stored' \ touched') <= Cardinality(old \cup BatchUrls)
        BY <3>2, <3>3, SubsetOfUrls
      <4> QED BY <3>2, <4>1, <4>2, <4>3
    <3>6. Cardinality(old) \in Nat /\ Cardinality(Stored' \ touched') \in Nat
      BY <3>2, <3>3, SubsetOfUrls
    <3>7. MaxJobs * (backlog' + 1) = MaxJobs * (backlog + 1) + MaxJobs
      BY <1>1, <3>1, CapAssumption DEF TypeOK
    <3>8. MaxJobs * (backlog + 1) \in Nat
      BY <1>1, CapAssumption DEF TypeOK
    <3>9. StoreBounded'
      <4> HIDE DEF old
      <4>1. Cardinality(Stored' \ touched') <= MaxJobs * (backlog + 1) + MaxJobs
        <5> DEFINE bound == MaxJobs * (backlog + 1)
        <5> HIDE DEF bound
        <5>1. bound \in Nat /\ Cardinality(old) <= bound
          BY <3>4, <3>8 DEF bound
        <5>2. Cardinality(Stored' \ touched') <= bound + MaxJobs
          BY <3>2, <3>5, <3>6, <5>1, CapAssumption
        <5> QED BY <5>2 DEF bound
      <4> QED BY <3>7, <4>1 DEF StoreBounded
    <3> QED BY <3>1, <3>9 DEF CapApplied
  <2>4. CASE \/ Fetch \/ PruneScan \/ PruneFail \/ WriteBegin \/ EmbedSelect
             \/ (\E url \in Urls : EmbedSave(url)) \/ EndEarly \/ Tick \/ UserStep
             \/ UNCHANGED vars
    <3>1. Stored' = Stored /\ touched \subseteq touched' /\ backlog' = backlog
      BY <2>4 DEF Fetch, PruneScan, PruneFail, WriteBegin, EmbedSelect, EmbedSave,
        EndEarly, Tick, UserStep, MarkJobApplied, UnmarkJobApplied, UpsertTailoredResume,
        vars, storeVars, histVars, Stored
    <3>2. pc' = "deleteOverCap" =>
            pc = "deleteOverCap" /\ UNCHANGED <<locked, doomed>>
      BY <2>4 DEF Fetch, PruneScan, PruneFail, WriteBegin, EmbedSelect, EmbedSave,
        EndEarly, Tick, UserStep, MarkJobApplied, UnmarkJobApplied, UpsertTailoredResume,
        vars, cycleVars, AfterPrune
    <3> QED BY <1>2, <3>1, <3>2, BoundKept
  <2> QED BY <2>1, <2>2, <2>3, <2>4 DEF Next, Cycle, Prune, Write, Embed, Faults
<1> QED BY <1>2, <1>3, <1>4 DEF Bounded

LEMMA BoundedInvariant == Spec => []Bounded
  BY BoundedInit, BoundedStep, PTL DEF Spec

\* The retention cap holds at every moment: whatever prunes fail and whatever
\* claims come and go, the postings nobody ever claimed number at most MaxJobs
\* for each batch written since the last committed prune, and MaxJobs more.
THEOREM StoreIsBounded == Spec => []StoreBounded
<1>1. Bounded => StoreBounded
  BY DEF Bounded
<1> QED BY <1>1, BoundedInvariant, PTL

-----------------------------------------------------------------------------
(* What a prune may delete.                                                *)

Deleting == pc \in {"deleteExpired", "deleteOverCap"}

\* While a prune is open, what it has chosen is held by nobody, and what is
\* held has its claim.
HeldSpared ==
  Deleting => \A url \in held : url \notin Pruned /\ Protected(url)

\* While a prune is open, what it has chosen is older than what it leaves of
\* the postings nobody ever claimed.
OldestChosen ==
  Deleting => \A gone \in Pruned, kept \in Stored \ (Pruned \cup touched) :
                AgeDate(jobs[gone]) <= AgeDate(jobs[kept])

Chosen == Shape /\ ClaimsTouched /\ HeldSpared /\ OldestChosen

LEMMA AgeIsInt ==
  ASSUME TypeOK, NEW url \in Stored
  PROVE  AgeDate(jobs[url]) \in Int
  BY UndatedAssumption DEF TypeOK, Row, Dates, AgeDate

LEMMA ChosenStep == Chosen /\ [Next]_vars => Chosen'
<1> SUFFICES ASSUME Chosen, [Next]_vars PROVE Chosen'
  OBVIOUS
<1>1. Shape /\ TypeOK /\ OnlyWhereUsed /\ ClaimsTouched
  BY DEF Chosen, Shape
<1>2. Shape' /\ ClaimsTouched'
  BY <1>1, ShapeStep, ClaimsTouchedStep
<1>3. HeldSpared' /\ OldestChosen'
  <2>1. CASE PruneScan
    <3>1. /\ pc' = "deleteExpired" /\ doomed' = Expired /\ held' = ProtectedUrls
          /\ UNCHANGED <<jobs, applied, tailored, locked, touched>>
      BY <2>1 DEF PruneScan, storeVars
    <3>2. Pruned' = Expired
      BY <1>1, <2>1, <3>1 DEF Pruned, OnlyWhereUsed, PruneScan
    <3>3. Stored' = Stored /\ \A url : Protected(url)' <=> Protected(url)
      BY <3>1 DEF Stored, Protected, HasClaim
    <3>4. HeldSpared'
      BY <3>1, <3>2, <3>3 DEF HeldSpared, ProtectedUrls, Expired
    <3>5. ASSUME NEW gone \in Expired, NEW kept \in Stored \ (Expired \cup touched)
          PROVE  AgeDate(jobs[gone]) <= AgeDate(jobs[kept])
      <4>1. ~Protected(kept)
        BY <1>1 DEF ClaimsTouched
      <4>2. /\ AgeDate(jobs[gone]) < now - MaxAge
            /\ ~(AgeDate(jobs[kept]) < now - MaxAge)
            /\ gone \in Stored
        BY <4>1 DEF Expired
      <4>3. AgeDate(jobs[gone]) \in Int /\ AgeDate(jobs[kept]) \in Int
        BY <1>1, <4>2, AgeIsInt
      <4> QED BY <1>1, <4>2, <4>3, AgeAssumption DEF TypeOK
    <3>6. OldestChosen'
      BY <3>1, <3>2, <3>3, <3>5 DEF OldestChosen
    <3> QED BY <3>4, <3>6
  <2>2. CASE PruneScanOverCap
    <3>1. /\ Deleting /\ pc = "deleteExpired"
          /\ locked' = doomed /\ doomed' \in OverCap(doomed)
          /\ UNCHANGED <<jobs, applied, tailored, held, touched>>
      BY <2>2 DEF PruneScanOverCap, storeVars, histVars, Deleting
    <3>2. Pruned = doomed /\ Pruned' = doomed \cup doomed'
      BY <1>1, <3>1 DEF Pruned, OnlyWhereUsed
    <3>3. Stored' = Stored /\ \A url : Protected(url)' <=> Protected(url)
      BY <3>1 DEF Stored, Protected, HasClaim
    <3>4. \A url \in doomed' : url \in Stored /\ ~Protected(url)
      BY <3>1 DEF OverCap
    <3>5. HeldSpared'
      BY <3>1, <3>2, <3>3, <3>4 DEF Chosen, HeldSpared
    <3>6. ASSUME NEW gone \in doomed \cup doomed',
                 NEW kept \in Stored \ (doomed \cup doomed' \cup touched)
          PROVE  AgeDate(jobs[gone]) <= AgeDate(jobs[kept])
      <4>1. CASE gone \in doomed
        BY <3>1, <3>2, <4>1 DEF Chosen, OldestChosen
      <4>2. CASE gone \in doomed'
        <5>1. ~Protected(kept)
          BY <1>1 DEF ClaimsTouched
        <5> QED BY <3>1, <4>2, <5>1 DEF OverCap
      <4> QED BY <4>1, <4>2
    <3>7. OldestChosen'
      BY <3>1, <3>2, <3>3, <3>6 DEF OldestChosen
    <3> QED BY <3>5, <3>7
  <2>3. CASE UserStep
    <3> SUFFICES ASSUME NEW user \in Users, NEW claimed \in Urls,
                        \/ MarkJobApplied(user, claimed)
                        \/ UnmarkJobApplied(user, claimed)
                        \/ UpsertTailoredResume(user, claimed)
                 PROVE  HeldSpared' /\ OldestChosen'
      BY <2>3 DEF UserStep
    <3>1. /\ UNCHANGED <<jobs, pc, doomed, locked>> /\ held' \subseteq held
          /\ touched \subseteq touched'
      BY DEF MarkJobApplied, UnmarkJobApplied, UpsertTailoredResume, cycleVars
    <3>2. (Deleting' <=> Deleting) /\ Pruned' = Pruned /\ Stored' = Stored
      BY <3>1 DEF Deleting, Pruned, Stored
    <3>3. ASSUME NEW url \in held', Protected(url) PROVE Protected(url)'
      <4>1. CASE MarkJobApplied(user, claimed)
        BY <3>3, <4>1 DEF MarkJobApplied, Protected, HasClaim
      <4>2. CASE UnmarkJobApplied(user, claimed)
        BY <3>3, <4>2 DEF UnmarkJobApplied, Protected, HasClaim
      <4>3. CASE UpsertTailoredResume(user, claimed)
        BY <3>3, <4>3 DEF UpsertTailoredResume, Protected, HasClaim
      <4> QED BY <4>1, <4>2, <4>3
    <3>4. HeldSpared'
      BY <3>1, <3>2, <3>3 DEF Chosen, HeldSpared
    <3>5. OldestChosen'
      BY <3>1, <3>2 DEF Chosen, OldestChosen
    <3> QED BY <3>4, <3>5
  <2>4. CASE Tick \/ UNCHANGED vars
    <3>1. UNCHANGED <<jobs, applied, tailored, pc, doomed, locked, held, touched>>
      BY <2>4 DEF Tick, vars, storeVars, cycleVars, histVars
    <3> QED BY <3>1 DEF Chosen, HeldSpared, OldestChosen, Deleting, Pruned, Stored,
      Protected, HasClaim
  <2>5. CASE \/ Fetch \/ PruneCommit \/ PruneFail \/ WriteBegin \/ WriteCommit
             \/ EmbedSelect \/ (\E url \in Urls : EmbedSave(url)) \/ EndEarly
    <3>1. ~Deleting'
      BY <2>5 DEF Fetch, PruneCommit, PruneFail, WriteBegin, WriteCommit, EmbedSelect,
        EmbedSave, EndEarly, AfterPrune, Deleting
    <3> QED BY <3>1 DEF HeldSpared, OldestChosen, Deleting
  <2> QED BY <2>1, <2>2, <2>3, <2>4, <2>5 DEF Next, Cycle, Prune, Write, Embed, Faults
<1> QED BY <1>2, <1>3 DEF Chosen

LEMMA ChosenInvariant == Spec => []Chosen
<1>1. Init => Chosen
  <2> SUFFICES ASSUME Init PROVE Chosen
    OBVIOUS
  <2>1. Shape /\ ClaimsTouched
    BY BoundedInit DEF Bounded
  <2>2. ~Deleting
    BY DEF Init, Deleting
  <2> QED BY <2>1, <2>2 DEF Chosen, HeldSpared, OldestChosen
<1> QED BY <1>1, ChosenStep, PTL DEF Spec

\* A posting that was claimed when a prune began, and is claimed still, survives
\* it: the prune's two snapshots are as old as they are, but no claim older
\* than the prune is lost.
THEOREM HeldPostingsAreKept == Spec => HeldPostingsKept
<1>1. Chosen => [PruneCommit => held \subseteq DOMAIN jobs']_vars
  <2> SUFFICES ASSUME Chosen, PruneCommit PROVE held \subseteq DOMAIN jobs'
    OBVIOUS
  <2>1. DOMAIN jobs' = Stored \ Pruned /\ Deleting
    BY DEF PruneCommit, Deleting
  <2> QED BY <2>1 DEF Chosen, HeldSpared, Shape, TypeOK
<1> QED BY <1>1, ChosenInvariant, PTL DEF HeldPostingsKept

\* Postings go in the order of their age: no prune deletes one and keeps an
\* older one that nobody ever claimed.
THEOREM OldestAreDeletedFirst == Spec => OldestDeletedFirst
<1>1. Chosen =>
        [PruneCommit =>
           \A gone \in Stored \ DOMAIN jobs', kept \in DOMAIN jobs' \ touched :
             AgeDate(jobs[gone]) <= AgeDate(jobs[kept])]_vars
  <2> SUFFICES ASSUME Chosen, PruneCommit,
                      NEW gone \in Stored \ DOMAIN jobs',
                      NEW kept \in DOMAIN jobs' \ touched
               PROVE  AgeDate(jobs[gone]) <= AgeDate(jobs[kept])
    OBVIOUS
  <2>1. DOMAIN jobs' = Stored \ Pruned /\ Deleting
    BY DEF PruneCommit, Deleting
  <2> QED BY <2>1 DEF Chosen, OldestChosen
<1> QED BY <1>1, ChosenInvariant, PTL DEF OldestDeletedFirst

-----------------------------------------------------------------------------
(* References, and the age of a stored row.                                *)

TagsKnown == \A url \in Stored : jobs[url].tags \subseteq tagTable

LEMMA TagsKnownStep == Shape /\ TagsKnown /\ [Next]_vars => TagsKnown'
<1> SUFFICES ASSUME Shape, TagsKnown, [Next]_vars PROVE TagsKnown'
  OBVIOUS
<1> USE DEF TagsKnown
<1>1. CASE PruneCommit
  <2>1. /\ Stored' = Stored \ Pruned
        /\ \A url \in Stored' : jobs'[url] = jobs[url]
    BY <1>1 DEF PruneCommit, Stored
  <2>2. tagTable' = {tag \in tagTable : \E url \in Stored' : tag \in jobs[url].tags}
    BY <1>1, <2>1 DEF PruneCommit, UsedTags
  <2> QED BY <2>1, <2>2
<1>2. CASE WriteCommit
  <2>1. /\ Stored' = Stored \cup BatchUrls
        /\ tagTable' = tagTable \cup UNION {p.tags : p \in batch}
    BY <1>2 DEF WriteCommit, Stored
  <2>2. ASSUME NEW url \in BatchUrls PROVE jobs'[url].tags \subseteq tagTable'
    <3>1. jobs'[url] = Upsert(PostingOf(url))
      BY <1>2 DEF WriteCommit
    <3>2. PostingOf(url) \in batch /\ PostingOf(url).url = url
      BY PostingOfBatch DEF Shape
    <3>3. jobs'[url].tags = PostingOf(url).tags
      <4>1. CASE url \in Stored
        <5>1. jobs[url] \in Row
          BY <4>1 DEF Shape, TypeOK
        <5> QED BY <3>1, <3>2, <4>1, <5>1 DEF Upsert, Row
      <4>2. CASE url \notin Stored
        BY <3>1, <3>2, <4>2 DEF Upsert
      <4> QED BY <4>1, <4>2
    <3> QED BY <2>1, <3>2, <3>3
  <2>3. ASSUME NEW url \in Stored \ BatchUrls PROVE jobs'[url].tags \subseteq tagTable'
    BY <1>2, <2>1 DEF WriteCommit
  <2> QED BY <2>1, <2>2, <2>3
<1>3. ASSUME NEW url \in Urls, EmbedSave(url) PROVE TagsKnown'
  <2>1. Stored' = Stored /\ tagTable' = tagTable
    BY <1>3 DEF EmbedSave, Stored
  <2>2. \A other \in Stored : jobs'[other].tags = jobs[other].tags
    BY <1>3 DEF EmbedSave, Shape, TypeOK, Row, Stored
  <2> QED BY <2>1, <2>2
<1>4. CASE \/ Fetch \/ PruneScan \/ PruneScanOverCap \/ PruneFail \/ WriteBegin
           \/ EmbedSelect \/ EndEarly \/ Tick \/ UserStep \/ UNCHANGED vars
  BY <1>4 DEF Fetch, PruneScan, PruneScanOverCap, PruneFail, WriteBegin, EmbedSelect,
    EndEarly, Tick, UserStep, MarkJobApplied, UnmarkJobApplied, UpsertTailoredResume,
    vars, storeVars, Stored
<1> QED BY <1>1, <1>2, <1>3, <1>4 DEF Next, Cycle, Prune, Write, Embed, Faults

\* Nothing refers to what is gone: every claim names a stored posting although
\* prunes cascade, and no tag a posting carries is ever removed as unused.
THEOREM ReferencesAlwaysHold == Spec => []ReferencesHold
<1>1. Init => TagsKnown
  BY DEF Init, TagsKnown, Stored
<1>2. Shape /\ TagsKnown => ReferencesHold
  BY DEF Shape, TypeOK, TagsKnown, ReferencesHold
<1> QED BY <1>1, <1>2, TagsKnownStep, ShapeInvariant, PTL DEF Spec

LEMMA UpsertKeepsAge ==
  ASSUME TypeOK, NEW p \in Postings, p.url \in Stored
  PROVE  LET row == Upsert(p)
         IN /\ row.firstSeen = jobs[p.url].firstSeen
            /\ AgeDate(row) # AgeDate(jobs[p.url]) => p.posted = AgeDate(row)
<1>1. jobs[p.url] \in Row
  BY DEF TypeOK
<1> DEFINE date == StoredDate(p.posted, writeStart)
<1>2. CASE date = Undated
  <2>1. Upsert(p) = [jobs[p.url] EXCEPT !.tags = p.tags]
    BY <1>1, <1>2 DEF Upsert, Row
  <2> QED BY <1>1, <2>1 DEF AgeDate, Row
<1>3. CASE date # Undated
  <2>1. date = p.posted
    BY <1>3 DEF StoredDate
  <2>2. Upsert(p) = [jobs[p.url] EXCEPT !.posted = p.posted, !.tags = p.tags]
    BY <1>3, <2>1 DEF Upsert
  <2> QED BY <1>1, <1>3, <2>1, <2>2 DEF AgeDate, Row
<1> QED BY <1>2, <1>3

\* While a row is stored its first_seen_at stands and only a date some source
\* published changes its age.
THEOREM RowsAreNotRejuvenated == Spec => NeverRejuvenatedByUndated
<1> DEFINE KeepsAge ==
      \A url \in Stored \cap DOMAIN jobs' :
        /\ jobs'[url].firstSeen = jobs[url].firstSeen
        /\ AgeDate(jobs'[url]) # AgeDate(jobs[url]) =>
             \E p \in batch : p.url = url /\ p.posted = AgeDate(jobs'[url])
<1>1. Shape /\ [Next]_vars => [KeepsAge]_vars
  <2> SUFFICES ASSUME Shape, [Next]_vars,
                      NEW url \in Stored, url \in DOMAIN jobs'
               PROVE  \/ UNCHANGED vars
                      \/ /\ jobs'[url].firstSeen = jobs[url].firstSeen
                         /\ AgeDate(jobs'[url]) # AgeDate(jobs[url]) =>
                              \E p \in batch : p.url = url /\ p.posted = AgeDate(jobs'[url])
    OBVIOUS
  <2>1. CASE jobs'[url] = jobs[url]
    BY <2>1
  <2>2. CASE WriteCommit
    <3>1. CASE url \in BatchUrls
      <4>1. /\ PostingOf(url) \in batch /\ PostingOf(url) \in Postings
            /\ PostingOf(url).url = url
        BY <3>1, PostingOfBatch DEF Shape
      <4>2. jobs'[url] = Upsert(PostingOf(url))
        BY <2>2, <3>1 DEF WriteCommit
      <4> QED BY <4>1, <4>2, UpsertKeepsAge DEF Shape
    <3>2. CASE url \notin BatchUrls
      BY <2>1, <2>2, <3>2 DEF WriteCommit
    <3> QED BY <3>1, <3>2
  <2>3. ASSUME NEW saved \in Urls, EmbedSave(saved) PROVE KeepsAge
    BY <2>3 DEF EmbedSave, Shape, TypeOK, Row, Stored, AgeDate
  <2>4. CASE PruneCommit
    BY <2>1, <2>4 DEF PruneCommit
  <2>5. CASE \/ Fetch \/ PruneScan \/ PruneScanOverCap \/ PruneFail \/ WriteBegin
             \/ EmbedSelect \/ EndEarly \/ Tick \/ UserStep \/ UNCHANGED vars
    <3>1. jobs' = jobs
      BY <2>5 DEF Fetch, PruneScan, PruneScanOverCap, PruneFail, WriteBegin, EmbedSelect,
        EndEarly, Tick, UserStep, MarkJobApplied, UnmarkJobApplied, UpsertTailoredResume,
        vars, storeVars
    <3> QED BY <2>1, <3>1
  <2> QED BY <2>2, <2>3, <2>4, <2>5 DEF Next, Cycle, Prune, Write, Embed, Faults, Stored
<1>2. NeverRejuvenatedByUndated <=> [][KeepsAge]_vars
  BY DEF NeverRejuvenatedByUndated
<1> QED BY <1>1, <1>2, ShapeInvariant, PTL DEF Spec

-----------------------------------------------------------------------------
(* JobDigest: the digest beside the cycles; JobSearch: what it searches.   *)

\* A row was first seen, and an open write began, at a time that has come.
SeenInThePast ==
  /\ 0 <= now /\ writeStart <= now
  /\ \A url \in Stored : jobs[url].firstSeen <= now

\* What was found was there to be seen, after the last mark, and is only held
\* while it is being sent.
FoundAfterMark ==
  /\ matched # {} => dpc \in {"send", "mark"}
  /\ \A row \in matched : row[2] <= now
  /\ dpc = "send" /\ lastSent[current] # Never =>
       \A row \in matched : row[2] > lastSent[current]

\* What was mailed to a profile was first seen by the time its mark was read, or the
\* mark of its last email is still to come.
MailedBeforeMark ==
  /\ \A pair \in mailed : pair[2][2] <= now
  /\ dpc = "mark" => \A pair \in mailed : pair[1] = current => pair[2][2] <= takenAt
  /\ \A pair \in mailed :
       \/ pair[1] \in unmarked
       \/ lastSent[pair[1]] # Never /\ pair[2][2] <= markedAt[pair[1]]

\* A mark is the database's time at which it was read, but for a drift.
MarksDrift ==
  /\ dpc = "mark" => sentAt - takenAt \in Drifts
  /\ \A profile \in Profiles :
       lastSent[profile] # Never => lastSent[profile] - markedAt[profile] \in Drifts

Marked == DigestTypeOK /\ SeenInThePast /\ FoundAfterMark /\ MailedBeforeMark /\ MarksDrift

-----------------------------------------------------------------------------
(* What a search shows of a row.                                           *)

\* What a row shows depends on the caller, and on nothing else a search says:
\* its score and its place among all that search can list (buildJobSearchSelect).
LEMMA ShownByCaller ==
  ASSUME NEW p, NEW other, p.caller = other.caller, p.at = other.at, NEW url
  PROVE  Shown(p, url) = Shown(other, url)
<1>1. \A row : Fit(p, row) = Fit(other, row)
  BY DEF Fit
<1>2. Ranked(p) = Ranked(other)
  BY <1>1 DEF Ranked, Listable
<1>3. Percent(p, url) = Percent(other, url)
  <2>1. {row \in Ranked(p) : Fit(p, row) < Fit(p, url)}
          = {row \in Ranked(other) : Fit(other, row) < Fit(other, url)}
    BY <1>1, <1>2
  <2> QED BY <1>2, <2>1 DEF Percent
<1> QED BY <1>1, <1>3, Zenon DEF Shown

LEMMA RowsRead == RowsReadTheSame
<1> SUFFICES ASSUME NEW raw, NEW caller, NEW row \in SearchForJobs(Params(raw, caller)).jobs
             PROVE  row = Detail(row.url, caller)
  BY DEF RowsReadTheSame
<1> DEFINE p == Params(raw, caller)
           everything == [q |-> Null, workplace |-> Null, jobType |-> Null, minSalary |-> 0,
                          maxSalary |-> 0, postedAfter |-> Null, seenAfter |-> Null,
                          tags |-> <<>>, caller |-> caller, at |-> now]
<1>1. p.caller = caller /\ everything.caller = caller /\ p.at = now /\ everything.at = now
  BY DEF Params
<1>2. PICK url : row = Shown(p, url)
  BY DEF SearchForJobs
<1>3. row.url = url
  BY <1>2 DEF Shown
<1>4. Detail(url, caller) = Shown(everything, url)
  BY Zenon DEF Detail
<1> HIDE DEF p, everything
<1> QED BY <1>1, <1>2, <1>3, <1>4, ShownByCaller

-----------------------------------------------------------------------------
(* The pages of a search.                                                  *)

\* How many of S come before x, when r orders S: x's place.
Place(S, r, x) == Cardinality({y \in S : <<y, x>> \in r})

Orders(r, S) ==
  /\ \A x \in S : <<x, x>> \notin r
  /\ \A x, y \in S : x = y \/ <<x, y>> \in r \/ <<y, x>> \in r
  /\ \A x, y, z \in S : <<x, y>> \in r /\ <<y, z>> \in r => <<x, z>> \in r

\* The places of a finite ordered set are 0, 1, ... one after another.
LEMMA PlacesCount ==
  ASSUME NEW S, IsFiniteSet(S), NEW r, Orders(r, S)
  PROVE  /\ Cardinality(S) \in Nat
         /\ \A x \in S : Place(S, r, x) \in 0..(Cardinality(S) - 1)
         /\ \A x, y \in S : Place(S, r, x) = Place(S, r, y) => x = y
         /\ S # {} => \E x \in S : Place(S, r, x) = 0
<1> DEFINE before(x) == {y \in S : <<y, x>> \in r}
           n == Cardinality(S)
<1>1. n \in Nat
  BY FS_CardinalityType
<1>2. ASSUME NEW x \in S
      PROVE  IsFiniteSet(before(x)) /\ Place(S, r, x) \in 0..(n - 1)
  <2>1. before(x) \in SUBSET (S \ {x})
    BY DEF Orders
  <2>2. IsFiniteSet(S \ {x}) /\ Cardinality(S \ {x}) = n - 1
    BY FS_RemoveElement
  <2>3. /\ IsFiniteSet(before(x)) /\ Cardinality(before(x)) <= n - 1
        /\ Cardinality(before(x)) \in Nat
    BY <2>1, <2>2, FS_Subset, FS_CardinalityType
  <2> QED BY <1>1, <2>3 DEF Place
<1>3. ASSUME NEW x \in S, NEW y \in S, <<x, y>> \in r
      PROVE  Place(S, r, x) # Place(S, r, y)
  <2>1. before(x) \in SUBSET before(y) /\ x \in before(y) /\ x \notin before(x)
    BY <1>3 DEF Orders
  <2>2. before(x) # before(y)
    BY <2>1
  <2> QED BY <1>2, <2>1, <2>2, FS_Subset DEF Place
<1>4. \A x, y \in S : Place(S, r, x) = Place(S, r, y) => x = y
  BY <1>3 DEF Orders
<1>5. ASSUME S # {} PROVE \E x \in S : Place(S, r, x) = 0
  <2> DEFINE place == [x \in S |-> Place(S, r, x)]
             T == 0..(n - 1)
  <2>1. n # 0
    BY <1>5, FS_EmptySet
  <2>2. place \in Injection(S, T)
    <3>1. place \in [S -> T]
      BY <1>2
    <3>2. \A x, y \in S : place[x] = place[y] => x = y
      BY <1>4
    <3> QED BY <3>1, <3>2 DEF Injection, IsInjective
  <2>3. IsFiniteSet(T) /\ Cardinality(T) = n
    BY <1>1, <2>1, FS_Interval
  <2>4. place \in Surjection(S, T)
    BY <2>2, <2>3, FS_Injection
  <2>5. 0 \in T
    BY <1>1, <2>1
  <2>6. PICK x \in S : place[x] = 0
    BY <2>4, <2>5 DEF Surjection
  <2> QED BY <2>6
<1> QED BY <1>1, <1>2, <1>4, <1>5

\* Of the pages of limit places, one and only one has a place, and it is one of
\* the first n divided by limit, rounded up.
LEMMA OnePageHasIt ==
  ASSUME NEW limit \in Nat \ {0}, NEW n \in Nat, NEW x \in 0..(n - 1)
  PROVE  \E k \in 0..((n + limit - 1) \div limit) :
           /\ x \in (k * limit)..(k * limit + limit - 1)
           /\ \A j \in Nat : x \in (j * limit)..(j * limit + limit - 1) => j = k
<1> DEFINE k == x \div limit
           last == (n + limit - 1) \div limit
<1>1. k \in Nat /\ k * limit <= x /\ x < (k + 1) * limit
  OBVIOUS
<1>2. last \in Nat /\ n + limit - 1 < (last + 1) * limit
  OBVIOUS
<1>3. (k + 1) * limit = k * limit + limit /\ (last + 1) * limit = last * limit + limit
  BY <1>1, <1>2
<1>4. \A i, j \in Nat : i * limit < j * limit + limit => i <= j
  <2> SUFFICES ASSUME NEW i \in Nat, NEW j \in Nat, i > j PROVE i * limit >= j * limit + limit
    OBVIOUS
  <2>1. PICK d \in Nat : i = j + 1 + d
    <3>1. i - j - 1 \in Nat
      OBVIOUS
    <3> QED BY <3>1
  <2>2. i * limit = j * limit + limit + d * limit
    BY <2>1
  <2>3. d * limit >= 0
    BY <2>1
  <2> QED BY <2>2, <2>3
<1> HIDE DEF k, last
<1>5. k * limit \in Nat /\ last * limit \in Nat
  BY <1>1, <1>2
<1>6. k \in 0..last
  <2>1. k * limit < last * limit + limit
    BY <1>1, <1>2, <1>3, <1>5
  <2> QED BY <1>1, <1>2, <1>4, <2>1
<1>7. x \in (k * limit)..(k * limit + limit - 1)
  BY <1>1, <1>3, <1>5
<1>8. ASSUME NEW j \in Nat, x \in (j * limit)..(j * limit + limit - 1) PROVE j = k
  <2>1. j * limit \in Nat
    OBVIOUS
  <2>2. k * limit < j * limit + limit /\ j * limit < k * limit + limit
    BY <1>1, <1>3, <1>5, <1>8, <2>1
  <2> QED BY <1>1, <1>4, <2>2
<1> QED BY <1>6, <1>7, <1>8 DEF last

\* A search is for a typed query that was looked up, and on behalf of a caller.
IsSearch(p) == p.q \in DOMAIN TextRank \cup {Null} /\ p.caller \in Callers

LEMMA KeyIsNumber ==
  ASSUME TypeOK, NEW p, IsSearch(p), NEW url \in Matches(p)
  PROVE  SortKey(p, url) \in Int \cup {Null} /\ jobs[url].firstSeen \in Int /\ url \in Urls
<1>1. url \in Stored /\ (p.q # Null => url \in DOMAIN TextRank[p.q])
  BY DEF Matches, Listable
<1>2. url \in Urls /\ jobs[url] \in Row
  BY <1>1 DEF TypeOK
<1>3. jobs[url].firstSeen \in Int /\ AgeDate(jobs[url]) \in Int
  BY <1>2 DEF AgeDate, Row, Dates
<1>4. Fit(p, url) \in Nat \cup {Null}
  <2>1. p.caller.by # "nothing" => p.caller.resume \in Profiles
    BY CallerAssumption DEF IsSearch, Caller
  <2>2. p.caller.by # "nothing" => Score[p.caller.resume, url] \in Nat
    BY <1>2, <2>1, ScoreAssumption
  <2> QED BY <2>2 DEF Fit
<1>5. p.q # Null => TextRank[p.q][url] \in Nat
  BY <1>1, TextRankAssumption DEF IsSearch
<1>6. Or(Fit(p, url), 0) \in Nat
  BY <1>4 DEF Or
<1> QED BY <1>2, <1>3, <1>4, <1>5, <1>6 DEF SortKey

\* The order of the matches, as pairs.
OrderOf(p) == {pair \in Matches(p) \X Matches(p) : Before(p, pair[1], pair[2])}

\* Equal keys are told apart by the id, and rows without a key come last: any
\* two matches are in order (the ORDER BY of SearchForJobs).
LEMMA MatchesAreOrdered ==
  ASSUME TypeOK, NEW p, IsSearch(p)
  PROVE  Orders(OrderOf(p), Matches(p))
<1> DEFINE S == Matches(p)
<1>1. \A x, y : <<x, y>> \in OrderOf(p) <=> x \in S /\ y \in S /\ Before(p, x, y)
  BY DEF OrderOf
<1>2. \A x \in S : /\ SortKey(p, x) \in Int \cup {Null}
                   /\ jobs[x].firstSeen \in Int /\ Turn[x] \in Nat /\ x \in Urls
  BY KeyIsNumber, TurnAssumption
<1>3. \A x \in S : ~Before(p, x, x)
  BY <1>2, NullAssumption DEF Before, Above, IdAbove
<1>4. ASSUME NEW x \in S, NEW y \in S, x # y
      PROVE  Before(p, x, y) \/ Before(p, y, x)
  <2>1. Turn[x] # Turn[y]
    BY <1>2, <1>4, TurnAssumption
  <2>2. IdAbove(x, y) \/ IdAbove(y, x)
    BY <1>2, <2>1 DEF IdAbove
  <2> QED BY <1>2, <2>2, NullAssumption DEF Before, Above
<1>5. ASSUME NEW x \in S, NEW y \in S, NEW z \in S, Before(p, x, y), Before(p, y, z)
      PROVE  Before(p, x, z)
  <2>1. IdAbove(x, y) /\ IdAbove(y, z) => IdAbove(x, z)
    BY <1>2 DEF IdAbove
  <2> QED BY <1>2, <1>5, <2>1, NullAssumption DEF Before, Above
<1> HIDE DEF S
<1> QED BY <1>1, <1>3, <1>4, <1>5 DEF Orders, S

LEMMA PagesCover == TypeOK => PagesCoverMatches
<1> SUFFICES ASSUME TypeOK, NEW raw \in Searches, NEW caller \in Callers, ~Refused(raw)
             PROVE
      LET limit == SetLimit(raw)
          Turned(k) == Params([raw EXCEPT !.offset = k * limit], caller)
          matches == Matches(Turned(0))
          page == [k \in 0..((Cardinality(matches) + limit - 1) \div limit) |->
                     Page(Turned(k), matches)]
      IN /\ \A k \in DOMAIN page :
              /\ Total(Turned(k), matches, page[k]) = Cardinality(matches)
              /\ Cardinality(page[k]) <= limit
         /\ \A url \in matches :
              Cardinality({k \in DOMAIN page : url \in page[k]}) = 1
  BY Zenon DEF PagesCoverMatches
<1> DEFINE limit == SetLimit(raw)
           Turned(k) == Params([raw EXCEPT !.offset = k * limit], caller)
           matches == Matches(Turned(0))
           n == Cardinality(matches)
           last == (n + limit - 1) \div limit
           page == [k \in 0..last |-> Page(Turned(k), matches)]
           place(url) == Place(matches, OrderOf(Turned(0)), url)
<1>1. raw \in Raw
  BY SearchAssumption
<1>2. limit \in 1..MaxSearchLimit /\ limit \in Nat \ {0}
  BY <1>1, LimitAssumption, NullAssumption DEF Raw, Refused, SetLimit, Or
<1>3. ASSUME NEW k \in Nat
      PROVE  /\ Turned(k).q = raw.q /\ Turned(k).sort = raw.sort
             /\ Turned(k).caller = caller /\ Turned(k).limit = limit
             /\ Turned(k).offset = k * limit
  <2>1. k * limit \in Int
    BY <1>2
  <2> HIDE DEF limit
  <2>2. PICK other : other = [raw EXCEPT !.offset = k * limit]
    OBVIOUS
  <2>3. /\ other.q = raw.q /\ other.sort = raw.sort /\ other.limit = raw.limit
        /\ other.offset = k * limit
    BY <1>1, <2>1, <2>2 DEF Raw
  <2>4. SetLimit(other) = limit /\ Or(other.offset, 0) = k * limit
    BY <2>1, <2>3, NullAssumption DEF SetLimit, Or, limit
  <2>5. Turned(k) = Params(other, caller)
    BY <2>2
  <2> QED BY <2>3, <2>4, <2>5 DEF Params
<1> HIDE DEF Turned, limit
<1>4. ASSUME NEW k \in Nat
      PROVE  /\ \A url, other : Before(Turned(k), url, other) <=> Before(Turned(0), url, other)
             /\ Limit(Turned(k)) = limit /\ Turned(k).offset = k * limit
  <2>1. \A url : Fit(Turned(k), url) = Fit(Turned(0), url)
    BY <1>3 DEF Fit
  <2>2. \A url : SortKey(Turned(k), url) = SortKey(Turned(0), url)
    BY <1>3, <2>1 DEF SortKey
  <2> QED BY <1>2, <1>3, <2>2 DEF Before, Limit
<1>5. IsSearch(Turned(0))
  BY <1>1, <1>3 DEF IsSearch, Raw
<1>6. IsFiniteSet(matches) /\ Orders(OrderOf(Turned(0)), matches)
  <2>1. matches \in SUBSET Urls
    BY DEF Matches, Listable, TypeOK
  <2> QED BY <1>5, <2>1, FiniteAssumption, FS_Subset, MatchesAreOrdered
<1>7. ASSUME NEW k \in Nat
      PROVE  Page(Turned(k), matches)
               = {url \in matches : place(url) \in (k * limit)..(k * limit + limit - 1)}
  <2>1. ASSUME NEW url \in matches
        PROVE  place(url) = Cardinality({other \in matches : Before(Turned(k), other, url)})
    <3>1. {other \in matches : <<other, url>> \in OrderOf(Turned(0))}
            = {other \in matches : Before(Turned(k), other, url)}
      BY <1>4, <2>1 DEF OrderOf
    <3> QED BY <3>1 DEF Place
  <2> HIDE DEF place, matches
  <2> QED BY <1>4, <2>1 DEF Page
<1> HIDE DEF matches, place
<1>8. /\ n \in Nat
      /\ \A url \in matches : place(url) \in 0..(n - 1)
      /\ \A url, other \in matches : place(url) = place(other) => url = other
      /\ matches # {} => \E url \in matches : place(url) = 0
  BY <1>6, PlacesCount DEF place
<1> HIDE DEF n
<1>9. ASSUME NEW k \in 0..last
      PROVE  /\ Total(Turned(k), matches, page[k]) = n
             /\ Cardinality(page[k]) <= limit
  <2>1. k \in Nat /\ page[k] = Page(Turned(k), matches)
    OBVIOUS
  <2>2. k * limit \in Nat /\ (k # 0 => k * limit # 0)
    BY <1>2, <2>1
  <2>3. ASSUME page[k] = {}, k * limit = 0 PROVE n = 0
    <3>1. SUFFICES ASSUME matches # {} PROVE FALSE
      BY FS_EmptySet DEF n
    <3>2. PICK url \in matches : place(url) = 0
      BY <1>8, <3>1
    <3>3. url \in page[k]
      BY <1>2, <1>7, <2>1, <2>3, <3>2
    <3> QED BY <2>3, <3>3
  <2>4. Total(Turned(k), matches, page[k]) = n
    BY <1>4, <2>1, <2>3 DEF Total, n
  <2>5. Cardinality(page[k]) <= limit
    <3> DEFINE T == (k * limit)..(k * limit + limit - 1)
               f == [url \in page[k] |-> place(url)]
    <3>1. IsFiniteSet(T) /\ Cardinality(T) = limit
      <4>1. PICK first \in Int, end \in Int : first = k * limit /\ end = k * limit + limit - 1
        BY <1>2, <2>2
      <4>2. IsFiniteSet(first..end) /\ Cardinality(first..end) = IF first > end THEN 0 ELSE end - first + 1
        BY FS_Interval
      <4>3. ~(first > end) /\ end - first + 1 = limit
        BY <1>2, <2>2, <4>1
      <4> QED BY <4>1, <4>2, <4>3
    <3>2. f \in Injection(page[k], T)
      <4>1. \A url \in page[k] : url \in matches /\ place(url) \in T
        BY <1>7, <2>1
      <4>2. f \in [page[k] -> T]
        BY <4>1
      <4>3. \A url, other \in page[k] : f[url] = f[other] => url = other
        BY <1>8, <4>1
      <4> HIDE DEF f
      <4> QED BY <4>2, <4>3 DEF Injection, IsInjective
    <3> HIDE DEF f, T, page
    <3> QED BY <3>1, <3>2, FS_Injection
  <2> QED BY <2>4, <2>5
<1>10. ASSUME NEW url \in matches
       PROVE  Cardinality({k \in 0..last : url \in page[k]}) = 1
  <2>1. PICK k \in 0..last :
          /\ place(url) \in (k * limit)..(k * limit + limit - 1)
          /\ \A j \in Nat : place(url) \in (j * limit)..(j * limit + limit - 1) => j = k
    BY <1>2, <1>8, OnePageHasIt
  <2>2. \A j \in 0..last : j \in Nat /\ page[j] = Page(Turned(j), matches)
    OBVIOUS
  <2> HIDE DEF page, last
  <2>3. \A j \in 0..last : url \in page[j] <=> j = k
    BY <1>7, <2>1, <2>2
  <2>4. {j \in 0..last : url \in page[j]} = {k}
    BY <2>1, <2>3
  <2> QED BY <2>4, FS_Singleton
<1>11. DOMAIN page = 0..last
  OBVIOUS
<1> HIDE DEF page, last
<1> QED BY <1>9, <1>10, <1>11, Zenon DEF page, last, n, matches, limit, Turned

-----------------------------------------------------------------------------
\* A row that a search finds is stored and was seen after its window opened.
LEMMA FoundIsStored ==
  ASSUME NEW p, NEW row \in SearchForJobs(p).jobs
  PROVE  row.url \in Stored /\ SeenSince(row.url, p)
<1>1. PICK url \in Page(p, Matches(p)) : row = Shown(p, url)
  BY DEF SearchForJobs
<1>2. url \in Matches(p)
  BY <1>1 DEF Page
<1>3. url \in Stored /\ SeenSince(url, p)
  BY <1>2 DEF Matches, Listable
<1>4. row.url = url
  BY <1>1 DEF Shown
<1> QED BY <1>3, <1>4

LEMMA DigestInitHolds == DigestInit => Shape /\ Marked
<1> SUFFICES ASSUME DigestInit PROVE Shape /\ Marked
  OBVIOUS
<1>1. Shape
  BY ShapeInit DEF DigestInit
<1>2. SeenInThePast
  BY DEF DigestInit, Init, SeenInThePast, Stored
<1>3. DigestTypeOK
  BY DEF DigestInit, DigestTypeOK
<1>4. FoundAfterMark /\ MailedBeforeMark
  BY DEF DigestInit, FoundAfterMark, MailedBeforeMark
<1>5. MarksDrift
  BY DEF DigestInit, MarksDrift
<1> QED BY <1>1, <1>2, <1>3, <1>4, <1>5 DEF Marked

\* A step of the store lets time pass and rows appear, and touches no digest.
LEMMA StoreStepKeeps ==
  ASSUME Shape, Shape', Marked, Next, UNCHANGED digestVars
  PROVE  Marked' /\ now <= now'
<1>1. now \in Int /\ now' \in Int /\ now <= now'
  <2>1. now \in Int
    BY DEF Shape, TypeOK
  <2>2. CASE Tick
    BY <2>1, <2>2 DEF Tick
  <2>3. CASE Cycle
    BY <2>1, <2>3 DEF Cycle, Fetch, Prune, PruneScan, PruneScanOverCap, PruneCommit,
                      Write, WriteBegin, WriteCommit, Embed, EmbedSelect, EmbedSave
  <2>4. CASE Faults
    BY <2>1, <2>4 DEF Faults, PruneFail, EndEarly
  <2>5. CASE UserStep
    BY <2>1, <2>5 DEF UserStep, MarkJobApplied, UnmarkJobApplied, UpsertTailoredResume
  <2> QED BY <2>2, <2>3, <2>4, <2>5 DEF Next
<1>2. SeenInThePast'
  <2> USE DEF SeenInThePast, Stored
  <2>0. /\ writeStart \in Int /\ 0 <= now /\ writeStart <= now
        /\ \A url \in Stored : jobs[url] \in Row /\ jobs[url].firstSeen <= now
    BY DEF Marked, Shape, TypeOK
  <2>1. CASE UNCHANGED <<jobs, writeStart>>
    BY <1>1, <2>0, <2>1 DEF Row
  <2>2. CASE PruneCommit
    BY <1>1, <2>0, <2>2 DEF PruneCommit, Row
  <2>3. CASE WriteBegin
    BY <1>1, <2>0, <2>3 DEF WriteBegin, storeVars, Row
  <2>4. CASE WriteCommit
    <3>1. \A url \in DOMAIN jobs' : jobs'[url].firstSeen <= now
      <4> TAKE url \in DOMAIN jobs'
      <4>1. CASE url \notin BatchUrls
        BY <2>0, <2>4, <4>1 DEF WriteCommit
      <4>2. CASE url \in BatchUrls
        <5>1. PostingOf(url).url = url /\ jobs'[url] = Upsert(PostingOf(url))
          BY <2>4, <4>2, PostingOfBatch DEF WriteCommit, Shape
        <5>2. CASE url \in Stored
          BY <2>0, <5>1, <5>2 DEF Upsert, Row
        <5>3. CASE url \notin Stored
          BY <2>0, <5>1, <5>3 DEF Upsert
        <5> QED BY <5>2, <5>3
      <4> QED BY <4>1, <4>2
    <3>2. writeStart' = 0 /\ now' = now /\ 0 <= now
      BY <2>0, <2>4 DEF WriteCommit
    <3> QED BY <3>1, <3>2
  <2>5. ASSUME NEW url \in Urls, EmbedSave(url) PROVE SeenInThePast'
    BY <1>1, <2>0, <2>5 DEF EmbedSave, Row
  <2>6. CASE EndEarly
    BY <1>1, <2>0, <2>6 DEF EndEarly, storeVars, Row
  <2>7. CASE Fetch \/ PruneScan \/ PruneScanOverCap \/ EmbedSelect \/ PruneFail \/ UserStep \/ Tick
    BY <2>1, <2>7 DEF Fetch, PruneScan, PruneScanOverCap, EmbedSelect, PruneFail, UserStep,
         MarkJobApplied, UnmarkJobApplied, UpsertTailoredResume, Tick, storeVars, cycleVars
  <2> QED BY <2>2, <2>3, <2>4, <2>5, <2>6, <2>7 DEF Next, Cycle, Prune, Write, Embed, Faults
<1>3. DigestTypeOK'
  BY DEF Marked, DigestTypeOK, digestVars
<1>4. FoundAfterMark'
  <2>1. \A row \in matched : row[2] \in Int
    BY DEF Marked, DigestTypeOK
  <2> QED BY <1>1, <2>1 DEF Marked, FoundAfterMark, digestVars
<1>5. MailedBeforeMark'
  <2>1. \A pair \in mailed : pair[2][2] \in Int
    BY DEF Marked, DigestTypeOK
  <2> QED BY <1>1, <2>1 DEF Marked, MailedBeforeMark, digestVars
<1>6. MarksDrift'
  BY DEF Marked, MarksDrift, digestVars
<1> QED BY <1>1, <1>2, <1>3, <1>4, <1>5, <1>6 DEF Marked

\* A step of the digest touches no table of the store, and the clock stands.
LEMMA DigestStepKeeps ==
  ASSUME Shape, Marked, DigestStep
  PROVE  Marked' /\ UNCHANGED vars
<1>1. UNCHANGED vars
  BY DEF DigestStep, DigestList, DigestSend, DigestMark, DigestFail, DigestEnd,
         DigestSearch, DigestSkip, Unsubscribe, OptIn
<1>2. UNCHANGED <<now, writeStart, jobs>>
  BY <1>1 DEF vars, storeVars, cycleVars
<1>3. SeenInThePast'
  BY <1>2 DEF Marked, SeenInThePast, Stored
<1>4. /\ now \in Int
      /\ \A url \in Stored : url \in Urls /\ jobs[url].firstSeen \in Int
  BY DEF Shape, TypeOK, Row
<1> USE DEF Marked
<1>5. CASE DigestList
  BY <1>2, <1>3, <1>5
  DEF DigestList, DigestTypeOK, FoundAfterMark, MailedBeforeMark, MarksDrift
<1>6. ASSUME NEW profile \in Profiles, DigestSearch(profile) PROVE Marked'
  <2>1. PICK by \in {"embedding", "words"}, drift \in Drifts :
          matched' =
            {RowOf(row.url) :
               row \in GoodFit(SearchForJobs(DigestParams(profile, by, now + drift)).jobs)}
    BY <1>6 DEF DigestSearch
  <2>2. \A row \in matched' :
          \E url \in Stored : /\ row = <<url, jobs[url].firstSeen>>
                              /\ SeenSince(url, DigestParams(profile, by, now + drift))
    <3> TAKE row \in matched'
    <3>1. PICK found \in SearchForJobs(DigestParams(profile, by, now + drift)).jobs : row = RowOf(found.url)
      BY <2>1 DEF GoodFit
    <3>2. found.url \in Stored /\ SeenSince(found.url, DigestParams(profile, by, now + drift))
      BY FoundIsStored
    <3> QED BY <3>1, <3>2 DEF RowOf
  <2>3. matched' \subseteq Urls \X Int /\ \A row \in matched' : row[2] <= now
    BY <1>4, <2>2 DEF SeenInThePast
  <2>4. /\ dpc' = "send" /\ current' = profile
        /\ UNCHANGED <<optedIn, lastSent, sentAt, mailed, unmarked, takenAt, markedAt>>
        /\ listed' \subseteq Profiles
    BY <1>6 DEF DigestSearch, DigestTypeOK
  <2>5. DigestTypeOK'
    BY <2>3, <2>4 DEF DigestTypeOK
  <2>6. lastSent'[current'] # Never => \A row \in matched' : row[2] > lastSent'[current']
    <3> SUFFICES ASSUME lastSent[profile] # Never, NEW row \in matched'
                 PROVE  row[2] > lastSent[profile]
      BY <2>4
    <3>1. PICK url \in Stored : /\ row = <<url, jobs[url].firstSeen>>
                                /\ SeenSince(url, DigestParams(profile, by, now + drift))
      BY <2>2
    <3>2. DigestParams(profile, by, now + drift).seenAfter = lastSent[profile]
      BY DEF DigestParams, WindowStart
    <3>3. lastSent[profile] # Null => jobs[url].firstSeen > lastSent[profile]
      BY <3>1, <3>2 DEF SeenSince
    <3>4. lastSent[profile] # Null
      BY NullAssumption DEF DigestTypeOK
    <3> QED BY <3>1, <3>3, <3>4
  <2>7. FoundAfterMark'
    BY <1>2, <2>3, <2>4, <2>6 DEF FoundAfterMark
  <2>8. MailedBeforeMark'
    BY <1>2, <2>4 DEF MailedBeforeMark
  <2>9. MarksDrift'
    BY <2>4 DEF MarksDrift
  <2> QED BY <1>3, <2>5, <2>7, <2>8, <2>9
<1>7. ASSUME NEW profile \in Profiles, DigestSkip(profile) PROVE Marked'
  BY <1>2, <1>3, <1>7
  DEF DigestSkip, DigestTypeOK, FoundAfterMark, MailedBeforeMark, MarksDrift
<1>8. CASE DigestSend
  <2>1. /\ takenAt' = now /\ dpc' = "mark"
        /\ mailed' = mailed \cup {<<current, row>> : row \in matched}
        /\ unmarked' = IF matched = {} THEN unmarked ELSE unmarked \cup {current}
        /\ UNCHANGED <<optedIn, lastSent, listed, current, matched, markedAt>>
    BY <1>8 DEF DigestSend
  <2>0. sentAt' \in Int /\ sentAt' - takenAt' \in Drifts
    <3>1. PICK drift \in Drifts : sentAt' = now + drift
      BY <1>8 DEF DigestSend
    <3>2. drift \in Int
      BY DriftAssumption
    <3>3. sentAt' - takenAt' = drift
      BY <1>4, <2>1, <3>1, <3>2
    <3> QED BY <1>4, <3>1, <3>2, <3>3
  <2>2. DigestTypeOK'
    BY <1>4, <2>0, <2>1 DEF DigestTypeOK
  <2>3. FoundAfterMark'
    BY <1>2, <2>1 DEF FoundAfterMark
  <2>4. \A pair \in mailed' : pair[2][2] <= now
    BY <2>1 DEF FoundAfterMark, MailedBeforeMark
  <2>5. \A pair \in mailed' \ mailed : pair[1] \in unmarked'
    BY <2>1
  <2>6. unmarked \subseteq unmarked'
    BY <2>1
  <2>7. MailedBeforeMark'
    BY <1>2, <2>1, <2>4, <2>5, <2>6 DEF MailedBeforeMark
  <2>8. MarksDrift'
    BY <2>0, <2>1 DEF MarksDrift
  <2> QED BY <1>1, <1>3, <2>2, <2>3, <2>7, <2>8
<1>9. CASE DigestMark
  <2>1. /\ lastSent' = [lastSent EXCEPT ![current] = sentAt]
        /\ markedAt' = [markedAt EXCEPT ![current] = takenAt] /\ takenAt' = 0
        /\ unmarked' = unmarked \ {current}
        /\ matched' = {} /\ sentAt' = 0 /\ dpc' = "profile" /\ dpc = "mark"
        /\ UNCHANGED <<optedIn, listed, current, mailed>>
    BY <1>9 DEF DigestMark
  <2>2. DigestTypeOK'
    BY <2>1 DEF DigestTypeOK
  <2>3. FoundAfterMark'
    BY <2>1 DEF FoundAfterMark
  <2>4. ASSUME NEW pair \in mailed
        PROVE  \/ pair[1] \in unmarked'
               \/ lastSent'[pair[1]] # Never /\ pair[2][2] <= markedAt'[pair[1]]
    <3>1. pair[1] \in Profiles /\ sentAt \in Int /\ current \in Profiles
      BY DEF DigestTypeOK
    <3>2. CASE pair[1] = current
      <4>1. lastSent'[current] = sentAt /\ markedAt'[current] = takenAt
        BY <2>1, <3>1 DEF DigestTypeOK
      <4>2. pair[2][2] <= takenAt
        BY <2>1, <3>2 DEF MailedBeforeMark
      <4> QED BY <3>1, <3>2, <4>1, <4>2, NeverAssumption
    <3>3. CASE pair[1] # current
      BY <2>1, <3>1, <3>3 DEF MailedBeforeMark, DigestTypeOK
    <3> QED BY <3>2, <3>3
  <2>5. MailedBeforeMark'
    BY <1>2, <2>1, <2>4 DEF MailedBeforeMark
  <2>6. MarksDrift'
    BY <2>1 DEF MarksDrift, DigestTypeOK
  <2> QED BY <1>1, <1>3, <2>2, <2>3, <2>5, <2>6
<1>10. CASE DigestFail \/ DigestEnd
  BY <1>2, <1>3, <1>10
  DEF DigestFail, DigestEnd, DigestTypeOK, FoundAfterMark, MailedBeforeMark, MarksDrift
<1>11. ASSUME NEW profile \in Profiles, Unsubscribe(profile) \/ OptIn(profile) PROVE Marked'
  BY <1>2, <1>3, <1>11
  DEF Unsubscribe, OptIn, DigestTypeOK, FoundAfterMark, MailedBeforeMark, MarksDrift
<1> QED BY <1>1, <1>5, <1>6, <1>7, <1>8, <1>9, <1>10, <1>11 DEF DigestStep

LEMMA MarkedStep == Shape /\ Marked /\ [DigestNext]_allVars => Shape' /\ Marked'
<1> SUFFICES ASSUME Shape, Marked, [DigestNext]_allVars PROVE Shape' /\ Marked'
  OBVIOUS
<1>1. CASE StoreStep
  <2>1. Shape'
    BY <1>1, ShapeStep DEF StoreStep
  <2> QED BY <1>1, <2>1, StoreStepKeeps DEF StoreStep
<1>2. CASE DigestStep
  <2>1. Marked' /\ UNCHANGED vars
    BY <1>2, DigestStepKeeps
  <2> QED BY <2>1, ShapeStep
<1>3. CASE UNCHANGED allVars
  <2>1. UNCHANGED vars /\ UNCHANGED digestVars
    BY <1>3 DEF allVars
  <2>2. Shape'
    BY <2>1, ShapeStep
  <2>3. Marked'
    BY <2>1 DEF vars, storeVars, cycleVars, digestVars, Marked, DigestTypeOK, SeenInThePast,
                Stored, FoundAfterMark, MailedBeforeMark, MarksDrift
  <2> QED BY <2>2, <2>3
<1> QED BY <1>1, <1>2, <1>3 DEF DigestNext

LEMMA MarkedInvariant == DigestSpec => [](Shape /\ Marked)
<1>1. DigestInit => Shape /\ Marked
  BY DigestInitHolds
<1>2. Shape /\ Marked /\ [DigestNext]_allVars => (Shape /\ Marked)'
  BY MarkedStep
<1> QED BY <1>1, <1>2, PTL DEF DigestSpec

\* Every reachable state of the digest is well typed: what it found and mailed
\* are rows with the time they were first seen.
THEOREM DigestTypeCorrect == DigestSpec => []DigestTypeOK
<1>1. Shape /\ Marked => DigestTypeOK
  BY DEF Marked
<1> QED BY <1>1, MarkedInvariant, PTL

\* A row found for a profile that was mailed it before, and whose last email has its
\* mark, was first seen after that mark, but not after the database's time at which
\* the mark was read.
LEMMA FoundAgain ==
  ASSUME Shape, Marked, NEW profile \in Profiles, NEW row \in matched,
         <<profile, row>> \in mailed, DigestSend, current = profile, profile \notin unmarked
  PROVE  /\ lastSent[profile] # Never
         /\ lastSent[profile] < row[2]
         /\ row[2] <= markedAt[profile]
<1> DEFINE pair == <<profile, row>>
<1>1. lastSent[profile] # Never /\ row[2] <= markedAt[profile]
  <2>1. pair \in mailed /\ pair[1] = profile /\ pair[2] = row
    OBVIOUS
  <2>2. pair[1] \in unmarked \/ (lastSent[pair[1]] # Never /\ pair[2][2] <= markedAt[pair[1]])
    BY <2>1 DEF Marked, MailedBeforeMark
  <2> QED BY <2>1, <2>2
<1>2. row[2] > lastSent[profile]
  BY <1>1 DEF DigestSend, Marked, FoundAfterMark
<1>3. row[2] \in Int /\ lastSent[profile] \in Int
  BY <1>1 DEF Marked, DigestTypeOK
<1> QED BY <1>1, <1>2, <1>3

\* However the digest and the scrape cycles interleave, whatever fails, and whatever
\* clock each reading of the time comes from, a profile gets a row a second time only
\* when its last email lost its mark, or when the mark was read from a clock behind
\* the database's and the row was first seen while it was behind.
THEOREM RowsAreMailedOnce == DigestSpec => NoRowMailedTwice
<1>1. Shape /\ Marked /\ [DigestNext]_allVars =>
        [\A profile \in Profiles, row \in matched :
           <<profile, row>> \in mailed /\ DigestSend /\ current = profile
             => \/ profile \in unmarked
                \/ /\ lastSent[profile] # Never
                   /\ lastSent[profile] < row[2]
                   /\ row[2] <= markedAt[profile]]_allVars
  BY FoundAgain
<1> QED BY <1>1, MarkedInvariant, PTL DEF DigestSpec, NoRowMailedTwice

\* Only a lost mark mails a row twice.
OnlyLostMarksRepeat ==
  [][\A profile \in Profiles, row \in matched :
       <<profile, row>> \in mailed /\ DigestSend /\ current = profile
         => profile \in unmarked]_allVars

\* While no digest reads a clock that is behind the database's, a profile gets a row
\* a second time only when its last email lost its mark (sentAt, sendForProfile).
THEOREM MailedOnceByClocksAhead ==
  ASSUME \A drift \in Drifts : drift >= 0
  PROVE  DigestSpec => OnlyLostMarksRepeat
<1>1. ASSUME Shape, Marked, NEW profile \in Profiles, NEW row \in matched,
             <<profile, row>> \in mailed, DigestSend, current = profile
      PROVE  profile \in unmarked
  <2> SUFFICES ASSUME profile \notin unmarked PROVE FALSE
    OBVIOUS
  <2>1. /\ lastSent[profile] # Never
        /\ lastSent[profile] < row[2]
        /\ row[2] <= markedAt[profile]
    BY <1>1, FoundAgain
  <2>2. lastSent[profile] \in Int /\ markedAt[profile] \in Int /\ row[2] \in Int
    BY <1>1, <2>1 DEF Marked, DigestTypeOK
  <2>3. lastSent[profile] - markedAt[profile] >= 0
    BY <1>1, <2>1 DEF Marked, MarksDrift
  <2> QED BY <2>1, <2>2, <2>3
<1>2. Shape /\ Marked /\ [DigestNext]_allVars =>
        [\A profile \in Profiles, row \in matched :
           <<profile, row>> \in mailed /\ DigestSend /\ current = profile
             => profile \in unmarked]_allVars
  BY <1>1
<1> QED BY <1>2, MarkedInvariant, PTL DEF DigestSpec, OnlyLostMarksRepeat

-----------------------------------------------------------------------------
\* Whatever is stored and whoever asks for whatever, turning the pages of a
\* search with the limit its answers state shows every match on one page and
\* only one, none longer than that limit, and every page states how many matches
\* there are (SearchForJobs, setLimitParam).
THEOREM PagesCoverEveryMatch == DigestSpec => []PagesCoverMatches
<1>1. Shape /\ Marked => PagesCoverMatches
  BY PagesCover DEF Shape
<1> QED BY <1>1, MarkedInvariant, PTL

\* A row's score, percentile and applied mark are those of the job's own page, on
\* every page of every search (GetJobByID, SearchForJobs).
THEOREM RowsReadAsDetail == DigestSpec => []RowsReadTheSame
BY RowsRead, MarkedInvariant, PTL

=============================================================================
