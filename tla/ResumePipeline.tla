--------------------------- MODULE ResumePipeline ---------------------------
(***************************************************************************)
(* One profile's resumes, the extraction of their fields by the LLM, and   *)
(* the resume tailored from an extraction to a job (server/resumes.go,     *)
(* database/profile_resumes.go, server/tailored_resume.go,                 *)
(* database/tailored_resumes.go).                                          *)
(*                                                                         *)
(* Every handler runs in its own request.  A request is a sequence of      *)
(* single statements, each its own transaction, with an LLM call of up to  *)
(* 45 seconds among them, so any step of any other request can come        *)
(* between two steps of one.                                               *)
(*                                                                         *)
(* What an LLM call returns is named by the file it was given: "the data   *)
(* of file f".  NOW() is the time a statement's transaction began, so an   *)
(* extraction is saved in two steps: its statement begins and takes its    *)
(* time, and it commits.  Two saves of one row commit in either order.     *)
(* The UPDATE that activates a resume changes the rows it saw when it      *)
(* began.                                                                  *)
(***************************************************************************)
EXTENDS Integers, FiniteSets

CONSTANTS
  Ids,         \* resume ids; an id is never used again
  Files,       \* what a resume can contain
  Requests,    \* HTTP requests that can be in flight together
  Nothing,     \* NULL
  MaxOps,      \* bound: requests ever started
  MaxFaults    \* bound: database errors and killed requests

ASSUME NothingAssumption == Nothing \notin Ids \cup Files \cup Nat
ASSUME BoundsAssumption == MaxOps \in Nat /\ MaxFaults \in Nat

VARIABLES
  resumes,     \* table profile_resumes: id -> content, is_active
  extractions, \* table profile_resume_extractions: resume id -> row
  tailored,    \* the tailored resume of the one job modelled, or Nothing
  used,        \* ids handed out
  clock,       \* the database's clock: saves of extractions begun so far
  req,         \* where each request is, and its local variables
  owed,        \* resumes whose upload succeeded, extraction request still to come
  ops, faults  \* bounded counters

\* History variables: they record what happened and no action reads them.
VARIABLES
  crowded,     \* requests overlapped that may each leave a resume active
  latest,      \* of each extraction, the latest updated_at it has had
  abandoned    \* resumes left pending by a request that failed or was killed

tables == <<resumes, extractions, tailored, used, clock>>
vars == <<tables, req, owed, ops, faults>>
history == <<crowded, latest, abandoned>>

Stored == DOMAIN resumes
Active == {id \in Stored : resumes[id].active}

Idle == [at |-> "idle", id |-> Nothing, file |-> Nothing, first |-> FALSE, source |-> 0,
         stamp |-> 0, seen |-> {}]

Places == {"idle", "insert", "markPending", "activate", "update", "extract", "llm", "embed",
           "tailor"}

\* stamp is the NOW() of a save that has begun, or 0; seen is the snapshot of the
\* UPDATE that activates.
Request == [at : Places, id : Ids \cup {Nothing}, file : Files \cup {Nothing},
            first : BOOLEAN, source : Nat, stamp : Nat, seen : SUBSET Ids]

Empty == [id \in {} |-> Nothing]

Init ==
  /\ resumes = Empty
  /\ extractions = Empty
  /\ tailored = Nothing
  /\ used = {}
  /\ clock = 0
  /\ req = [q \in Requests |-> Idle]
  /\ owed = {}
  /\ ops = 0
  /\ faults = 0
  /\ crowded = FALSE
  /\ latest = Empty
  /\ abandoned = {}

-----------------------------------------------------------------------------
At(q, place) == req[q].at = place

\* Request q goes on with local variables r.
Goto(q, r) ==
  /\ req' = [req EXCEPT ![q] = r]
  /\ UNCHANGED ops

Finish(q) == Goto(q, Idle)

\* Request q starts with local variables r.
Start(q, r) ==
  /\ req[q] = Idle
  /\ ops < MaxOps
  /\ ops' = ops + 1
  /\ req' = [req EXCEPT ![q] = r]

Put(table, id, row) == [other \in DOMAIN table \cup {id} |->
                          IF other = id THEN row ELSE table[other]]
Remove(table, id) == [other \in DOMAIN table \ {id} |-> table[other]]

\* The row an upsert starts from: the stored one, or one with no data.
Existing(id) ==
  IF id \in DOMAIN extractions THEN extractions[id]
  ELSE [status |-> "pending", data |-> Nothing, vector |-> Nothing, updated |-> 0]

\* Where a request is about to save an extraction.
Saving == {"markPending", "extract", "llm"}

\* The statement of a save begins.
BeginSave(q) ==
  /\ req[q].at \in Saving
  /\ req[q].stamp = 0
  /\ clock' = clock + 1
  /\ Goto(q, [req[q] EXCEPT !.stamp = clock + 1])
  /\ UNCHANGED <<resumes, extractions, tailored, used, owed, faults>>

\* A fault: updated_at left as it was.
SaveExtractionSilently(q, row) ==
  /\ req[q].stamp # 0
  /\ req[q].id \in Stored
  /\ extractions' = Put(extractions, req[q].id, row)

\* The upsert of request q commits; it fails on the foreign key when the resume is
\* gone.  A save that waited for the row changes it as the other one left it.
SaveExtraction(q, row) ==
  /\ req[q].stamp # 0
  /\ req[q].id \in Stored
  /\ extractions' = Put(extractions, req[q].id, [row EXCEPT !.updated = req[q].stamp])

\* UpsertResumeExtractionPending: the data and the embedding stay.
MarkExtractionPending(q) ==
  SaveExtraction(q, [Existing(req[q].id) EXCEPT !.status = "pending"])

-----------------------------------------------------------------------------
(* Upload: AddResume's INSERT reads whether the profile has a resume in    *)
(* its own snapshot, and its row appears when it commits.                  *)

Uploads == {q \in Requests : At(q, "insert")}

UploadResume(q) ==
  /\ Cardinality(Uploads) < Cardinality(Ids \ used)
  /\ \E file \in Files :
       Start(q, [Idle EXCEPT !.at = "insert", !.file = file, !.first = (Stored = {})])
  /\ UNCHANGED <<tables, owed, faults>>

AddResume(q) ==
  /\ At(q, "insert")
  /\ \E id \in Ids \ used :
       /\ resumes' = Put(resumes, id, [content |-> req[q].file, active |-> req[q].first])
       /\ used' = used \cup {id}
       /\ Goto(q, [Idle EXCEPT !.at = "markPending", !.id = id])
  /\ UNCHANGED <<extractions, tailored, clock, owed, faults>>

\* A new file for a stored resume.
ReplaceResume(q) ==
  /\ \E id \in Stored, file \in Files :
       /\ Start(q, [Idle EXCEPT !.at = "markPending", !.id = id])
       /\ resumes' = [resumes EXCEPT ![id].content = file]
  /\ UNCHANGED <<extractions, tailored, used, clock, owed, faults>>

\* A fault: the client is not told that an extraction is due.
MarkPendingUntold(q) ==
  /\ At(q, "markPending")
  /\ MarkExtractionPending(q)
  /\ Finish(q)
  /\ UNCHANGED <<resumes, tailored, used, clock, owed, faults>>

\* Upload and replace end by marking the extraction pending; the client is told
\* of success and sends the extraction request.
MarkPending(q) ==
  /\ At(q, "markPending")
  /\ MarkExtractionPending(q)
  /\ owed' = owed \cup {req[q].id}
  /\ Finish(q)
  /\ UNCHANGED <<resumes, tailored, used, clock, faults>>

\* The mark fails, because the resume was deleted or the database erred: it is
\* logged, and the client is told of success all the same.
MarkPendingFails(q) ==
  /\ At(q, "markPending")
  /\ IF req[q].id \in Stored
     THEN faults < MaxFaults /\ faults' = faults + 1
     ELSE UNCHANGED faults
  /\ owed' = owed \cup {req[q].id}
  /\ Finish(q)
  /\ UNCHANGED tables

\* Deleting a resume deletes its extraction and unlinks its tailored resumes.
DeleteResume(q) ==
  /\ \E id \in Stored :
       /\ Start(q, Idle)
       /\ resumes' = Remove(resumes, id)
       /\ extractions' = Remove(extractions, id)
       /\ tailored' = IF tailored # Nothing /\ tailored.id = id
                      THEN [tailored EXCEPT !.id = Nothing] ELSE tailored
  /\ UNCHANGED <<used, clock, owed, faults>>

-----------------------------------------------------------------------------
(* SetActiveResume: a check that the resume exists, then one UPDATE of     *)
(* the resumes that its snapshot holds.  A row that another transaction    *)
(* changed meanwhile is changed as it is now, one that was deleted is      *)
(* passed over, and one that was added is not seen.                        *)

ActivateCheck(q) ==
  /\ \E id \in Stored : Start(q, [Idle EXCEPT !.at = "activate", !.id = id])
  /\ UNCHANGED <<tables, owed, faults>>

BeginUpdate(q) ==
  /\ At(q, "activate")
  /\ Goto(q, [req[q] EXCEPT !.at = "update", !.seen = Stored])
  /\ UNCHANGED <<tables, owed, faults>>

\* A fault: the resume that was active before stays so.
SetAlsoActive(q) ==
  /\ At(q, "update")
  /\ resumes' = [id \in Stored |-> [resumes[id] EXCEPT !.active = @ \/ id = req[q].id]]
  /\ Finish(q)
  /\ UNCHANGED <<extractions, tailored, used, clock, owed, faults>>

SetActiveResume(q) ==
  /\ At(q, "update")
  /\ resumes' = [id \in Stored |->
                   IF id \in req[q].seen
                   THEN [resumes[id] EXCEPT !.active = (id = req[q].id)] ELSE resumes[id]]
  /\ Finish(q)
  /\ UNCHANGED <<extractions, tailored, used, clock, owed, faults>>

-----------------------------------------------------------------------------
(* handleTriggerResumeExtraction: the file is read, the row is marked      *)
(* pending, the LLM reads the file, the outcome is saved, and the saved    *)
(* fields are embedded.                                                    *)

Reading(id) ==
  [Idle EXCEPT !.at = "extract", !.id = id, !.file = resumes[id].content]

\* The request the client sends after an upload.
FollowUp(q) ==
  /\ At(q, "idle")
  /\ \E id \in owed \cap Stored : Goto(q, Reading(id)) /\ owed' = owed \ {id}
  /\ UNCHANGED <<tables, faults>>

\* The same request, for a retry.
Retry(q) ==
  /\ \E id \in Stored : Start(q, Reading(id))
  /\ UNCHANGED <<tables, owed, faults>>

\* The request that follows an upload finds the resume gone.
FollowUpMissing(id) ==
  /\ id \in owed
  /\ id \notin Stored
  /\ owed' = owed \ {id}
  /\ UNCHANGED <<tables, req, ops, faults>>

ExtractMarkPending(q) ==
  /\ At(q, "extract")
  /\ MarkExtractionPending(q)
  /\ Goto(q, [req[q] EXCEPT !.at = "llm", !.stamp = 0])
  /\ UNCHANGED <<resumes, tailored, used, clock, owed, faults>>

\* SaveResumeExtractionResult replaces every field and leaves the embedding.
SaveResult(q) ==
  /\ At(q, "llm")
  /\ SaveExtraction(q,
       [Existing(req[q].id) EXCEPT !.status = "completed", !.data = req[q].file])
  /\ Goto(q, [req[q] EXCEPT !.at = "embed", !.stamp = 0])
  /\ UNCHANGED <<resumes, tailored, used, clock, owed, faults>>

\* A fault: the failure saved in the context that has just run out, so not at all.
FailureNotSaved(q) ==
  /\ At(q, "llm")
  /\ req[q].stamp # 0
  /\ req[q].id \in Stored
  /\ Finish(q)
  /\ UNCHANGED <<tables, owed, faults>>

\* SaveResumeExtractionFailure, in a context of its own: the LLM failed, ran
\* out of time, or cannot read this format.
SaveFailure(q) ==
  /\ At(q, "llm")
  /\ \E status \in {"failed", "unsupported"} :
       SaveExtraction(q, [Existing(req[q].id) EXCEPT !.status = status])
  /\ Finish(q)
  /\ UNCHANGED <<resumes, tailored, used, clock, owed, faults>>

\* SaveResumeEmbedding updates whatever row the resume has by now, if any.
WithVector(id, vector) ==
  IF id \in DOMAIN extractions
  THEN [extractions EXCEPT ![id].vector = vector] ELSE extractions

SaveEmbedding(q) ==
  /\ At(q, "embed")
  /\ extractions' = WithVector(req[q].id, req[q].file)
  /\ Finish(q)
  /\ UNCHANGED <<resumes, tailored, used, clock, owed, faults>>

\* The embedding call fails: best effort, the extraction stands as it is.
EmbedFails(q) ==
  /\ At(q, "embed")
  /\ Finish(q)
  /\ UNCHANGED <<tables, owed, faults>>

\* A save fails, and the client is told the extraction failed: the resume was
\* deleted under the request, or the database erred, or the LLM call left no
\* time for the save, whose deadline it shares.  A request killed there changes
\* as little.
SaveFails(q) ==
  /\ req[q].at \in {"extract", "llm"}
  /\ IF req[q].id \in Stored
     THEN faults < MaxFaults /\ faults' = faults + 1
     ELSE UNCHANGED faults
  /\ Finish(q)
  /\ UNCHANGED <<tables, owed>>

\* Any other statement fails, or its request is killed.
RequestLost(q) ==
  /\ req[q].at \in {"insert", "activate", "update", "embed", "tailor"}
  /\ faults < MaxFaults
  /\ faults' = faults + 1
  /\ Finish(q)
  /\ UNCHANGED <<tables, owed>>

-----------------------------------------------------------------------------
(* handleGenerateTailoredResume: the active resume's completed extraction  *)
(* is read with its updated_at, the LLM tailors it, and the result is      *)
(* stored with both.                                                       *)

TailorRead(q) ==
  /\ \E id \in Active :
       /\ id \in DOMAIN extractions
       /\ extractions[id].status = "completed"
       /\ Start(q, [Idle EXCEPT !.at = "tailor", !.id = id, !.file = extractions[id].data,
                                !.source = extractions[id].updated])
  /\ UNCHANGED <<tables, owed, faults>>

UpsertTailoredResume(q) ==
  /\ At(q, "tailor")
  /\ req[q].id \in Stored
  /\ tailored' = [id |-> req[q].id, source |-> req[q].source, data |-> req[q].file]
  /\ Finish(q)
  /\ UNCHANGED <<resumes, extractions, used, clock, owed, faults>>

\* The LLM fails, or the resume is gone and the foreign key refuses the row.
TailorFails(q) ==
  /\ At(q, "tailor")
  /\ Finish(q)
  /\ UNCHANGED <<tables, owed, faults>>

-----------------------------------------------------------------------------
\* A step of a request that has begun.
Proceed(q) ==
  \/ AddResume(q) \/ BeginSave(q) \/ MarkPending(q) \/ MarkPendingFails(q)
  \/ BeginUpdate(q) \/ SetActiveResume(q)
  \/ ExtractMarkPending(q) \/ SaveResult(q) \/ SaveFailure(q)
  \/ SaveEmbedding(q) \/ EmbedFails(q) \/ SaveFails(q)
  \/ UpsertTailoredResume(q) \/ TailorFails(q)

\* The client begins a request.
Begin(q) ==
  \/ UploadResume(q) \/ ReplaceResume(q) \/ DeleteResume(q) \/ ActivateCheck(q)
  \/ FollowUp(q) \/ Retry(q) \/ TailorRead(q)

\* An upload whose INSERT saw no resume of the profile overlaps another upload.
FirstIsNotAlone ==
  \E q \in Uploads : req[q].first /\ Uploads # {q}

\* Two activations run at once, and the UPDATE of one began before the resume that
\* the other activates was stored.
ActivationsCross ==
  \E q, other \in Requests :
    At(q, "update") /\ At(other, "update") /\ req[other].id \notin req[q].seen

Pending(id) == id \in DOMAIN extractions /\ extractions[id].status = "pending"

\* The resumes whose request fails in this step without saving how it went.
GivenUp == {req[q].id : q \in {p \in Requests : SaveFails(p)}}

Remember ==
  /\ crowded' = (crowded \/ FirstIsNotAlone' \/ ActivationsCross')
  /\ latest' = [id \in DOMAIN extractions' |->
                  IF id \in DOMAIN extractions /\ latest[id] > extractions'[id].updated
                  THEN latest[id] ELSE extractions'[id].updated]
  /\ abandoned' = {id \in abandoned \cup GivenUp : Pending(id)'}

Next ==
  /\ \/ \E q \in Requests : Begin(q) \/ Proceed(q) \/ RequestLost(q)
     \/ \E id \in Ids : FollowUpMissing(id)
  /\ Remember

Spec == Init /\ [][Next]_<<vars, history>>

\* Requests run to their end, and the client sends the request it owes.
Fairness ==
  /\ \A q \in Requests : WF_vars(Proceed(q))
  /\ WF_vars(\E q \in Requests : FollowUp(q))

FairSpec == Spec /\ Fairness

-----------------------------------------------------------------------------
(* Properties.                                                             *)

\* GetTailoredResume's stale flag.
Stale ==
  \/ tailored.id = Nothing
  \/ ~resumes[tailored.id].active
  \/ tailored.id \notin DOMAIN extractions
  \/ extractions[tailored.id].updated > tailored.source

\* What the tailored resume was written from is what its extraction holds.
WrittenFromThis ==
  /\ extractions[tailored.id].status = "completed"
  /\ extractions[tailored.id].data = tailored.data

\* The extraction's updated_at lies before one it has had: a save committed after
\* another that had begun later.
SetBack(id) == extractions[id].updated < latest[id]

\* A tailored resume shown as current was written from the data its resume's
\* extraction holds now, whichever extractions ran, were replaced or failed
\* during the LLM call it came from, unless two saves of the extraction overlapped
\* and set its time back, and none has set it forward since.
CurrentMeansSameData ==
  tailored # Nothing /\ ~Stale => WrittenFromThis \/ SetBack(tailored.id)

Owner(id) ==
  \/ id \in owed
  \/ \E q \in Requests : req[q].at \in {"extract", "llm"} /\ req[q].id = id

\* A pending extraction is pending for a reason, whatever overlapping requests
\* finish in between: a request is working on it, or the client still owes one, or
\* a request that failed or was killed has left it so and none has ended since.
PendingHasOwner ==
  \A id \in DOMAIN extractions : Pending(id) => Owner(id) \/ id \in abandoned

\* No extraction stays pending for ever, but for one that a request left so.
ExtractionsSettle == <>[](\A id \in DOMAIN extractions : Pending(id) => id \in abandoned)

\* The check and the UPDATE of SetActiveResume are two statements, the UPDATE works
\* on its snapshot, and an upload decides from its own; still, two resumes become
\* active only when an upload that saw no resume overlapped another upload, or two
\* activations overlapped, one of a resume that the other's UPDATE did not see.
\* That the other upload saw resumes does not help: they may have been deleted
\* since, and its row may be activated before the first one's is committed.
OneActive ==
  (\E id, other \in Active : id # other) => crowded

=============================================================================
