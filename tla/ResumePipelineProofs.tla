------------------------ MODULE ResumePipelineProofs ------------------------
(***************************************************************************)
(* Proofs about ResumePipeline, for every set of resumes, files and        *)
(* requests and every bound: what a tailored resume shown as current was   *)
(* written from, who will finish a pending extraction, and when two        *)
(* resumes can be active.                                                  *)
(***************************************************************************)
EXTENDS ResumePipeline, TLAPS

Statuses == {"pending", "completed", "failed", "unsupported"}
MaybeFile == Files \cup {Nothing}
MaybeId == Ids \cup {Nothing}

Resume == [content : Files, active : BOOLEAN]
Row == [status : Statuses, data : MaybeFile, vector : MaybeFile, updated : Nat]
Copy == [id : MaybeId, source : Nat, data : MaybeFile]

\* Where a request is once it has a resume to work on.
OnResume == {"markPending", "activate", "update", "extract", "llm", "embed", "tailor"}

TablesOK ==
  /\ resumes \in [Stored -> Resume]
  /\ extractions \in [DOMAIN extractions -> Row]
  /\ DOMAIN extractions \subseteq Stored
  /\ Stored \subseteq used
  /\ tailored # Nothing => tailored \in Copy
  /\ used \subseteq Ids
  /\ clock \in Nat

\* A request is where it may be, with what it needs there.
Legit(r) ==
  /\ r \in Request
  /\ r.at \in OnResume => r.id \in Ids
  /\ r.at \in {"insert", "extract", "llm"} => r.file \in Files
  /\ r.stamp # 0 => r.at \in Saving

Shape ==
  /\ TablesOK
  /\ req \in [Requests -> Request]
  /\ \A q \in Requests : Legit(req[q])
  /\ \A q \in Requests : req[q].at \in OnResume => req[q].id \in used
  /\ latest \in [DOMAIN extractions -> Nat]

\* A save that has begun has a time of its own, which no row had as its latest;
\* a row's latest time is no earlier than the one it has.
Dated ==
  /\ \A q \in Requests : req[q].stamp <= clock
  /\ \A q, p \in Requests : q # p /\ req[q].stamp # 0 => req[q].stamp # req[p].stamp
  /\ \A id \in DOMAIN extractions :
       /\ extractions[id].updated <= latest[id]
       /\ latest[id] <= clock
       /\ \A q \in Requests : req[q].stamp # 0 => req[q].stamp # latest[id]

\* Data read from a row at updated_at = source is what the row holds until it is
\* written again; the row goes with its resume only.
ReadFrom(id, source, data) ==
  /\ id \in used
  /\ id \in Stored => id \in DOMAIN extractions
  /\ id \in DOMAIN extractions => source <= latest[id]
  /\ id \in DOMAIN extractions
       /\ extractions[id].updated <= source /\ extractions[id].updated = latest[id] =>
       /\ extractions[id].status = "completed"
       /\ extractions[id].data = data

CopiesReadFrom ==
  /\ tailored # Nothing /\ tailored.id # Nothing =>
       ReadFrom(tailored.id, tailored.source, tailored.data)
  /\ \A q \in Requests :
       At(q, "tailor") => ReadFrom(req[q].id, req[q].source, req[q].file)

\* Unless requests have overlapped that may each leave a resume active: there is
\* one at most; an upload that saw no resume adds the first one; and an UPDATE
\* has seen the active resume, or the one it activates is gone.
AloneAndFirst ==
  ~crowded =>
    /\ \A id, other \in Active : id = other
    /\ \A q \in Uploads : req[q].first => Uploads = {q} /\ Stored = {}
    /\ ~ActivationsCross
    /\ \A q \in Requests :
         At(q, "update") => Active \subseteq req[q].seen \/ req[q].id \notin Stored

-----------------------------------------------------------------------------
LEMMA IdleIsLegit == Legit(Idle) /\ Idle.at = "idle" /\ Idle.stamp = 0
  BY DEF Legit, Idle, Request, Places, OnResume, Saving

\* A request that starts was idle, and the others stay where they are.
LEMMA StartMoves ==
  ASSUME Shape, NEW q \in Requests, NEW r, Start(q, r)
  PROVE  /\ req[q].at = "idle"
         /\ req'[q] = r
         /\ \A p \in Requests \ {q} : req'[p] = req[p]
         /\ Legit(r) => req' \in [Requests -> Request]
  BY IdleIsLegit DEF Shape, Start, Legit

LEMMA GotoMoves ==
  ASSUME Shape, NEW q \in Requests, NEW r, Goto(q, r)
  PROVE  /\ req'[q] = r
         /\ \A p \in Requests \ {q} : req'[p] = req[p]
         /\ Legit(r) => req' \in [Requests -> Request]
  BY DEF Shape, Goto, Legit

\* What begins and goes on, in one request.
Acts(q) == Begin(q) \/ Proceed(q) \/ RequestLost(q)

\* A step moves its own request only, which goes to a place it may be in, to an
\* INSERT only as an upload, and to a time of its own only as a save that begins.
LEMMA ActsMove ==
  ASSUME Shape, NEW q \in Requests, Acts(q)
  PROVE  /\ \A p \in Requests \ {q} : req'[p] = req[p]
         /\ req' \in [Requests -> Request]
         /\ Legit(req'[q])
         /\ req'[q].at = "insert" => UploadResume(q)
         /\ req'[q].at = "tailor" => TailorRead(q)
         /\ req'[q].at = "update" => BeginUpdate(q)
         /\ req'[q].stamp # 0 => BeginSave(q)
         /\ req'[q].at \in OnResume => req'[q].id \in used'
<1> DEFINE Moved(r) ==
             /\ req'[q] = r
             /\ \A p \in Requests \ {q} : req'[p] = req[p]
             /\ Legit(r) => req' \in [Requests -> Request]
<1>1. CASE UploadResume(q)
  <2>1. PICK file \in Files :
          Start(q, [Idle EXCEPT !.at = "insert", !.file = file, !.first = (Stored = {})])
    BY <1>1 DEF UploadResume
  <2>2. PICK r : r = [Idle EXCEPT !.at = "insert", !.file = file, !.first = (Stored = {})]
    OBVIOUS
  <2>3. Moved(r)
    BY <2>1, <2>2, StartMoves
  <2>4. Legit(r) /\ r.at = "insert" /\ r.stamp = 0
    BY <2>2 DEF Idle, Legit, Request, Places, OnResume, Saving
  <2> QED BY <1>1, <2>3, <2>4 DEF OnResume
<1>2. CASE AddResume(q)
  <2>1. PICK id \in Ids \ used :
          Goto(q, [Idle EXCEPT !.at = "markPending", !.id = id]) /\ used' = used \cup {id}
    BY <1>2 DEF AddResume
  <2>2. PICK r : r = [Idle EXCEPT !.at = "markPending", !.id = id]
    OBVIOUS
  <2>3. Moved(r)
    BY <2>1, <2>2, GotoMoves
  <2>4. Legit(r) /\ r.at = "markPending" /\ r.stamp = 0 /\ r.id = id
    BY <2>2 DEF Idle, Legit, Request, Places, OnResume, Saving
  <2> QED BY <2>1, <2>3, <2>4
<1>3. CASE ReplaceResume(q)
  <2>1. PICK id \in Stored : Start(q, [Idle EXCEPT !.at = "markPending", !.id = id])
    BY <1>3 DEF ReplaceResume
  <2>2. PICK r : r = [Idle EXCEPT !.at = "markPending", !.id = id]
    OBVIOUS
  <2>3. Moved(r)
    BY <2>1, <2>2, StartMoves
  <2>4. id \in Ids /\ id \in used'
    BY <1>3 DEF ReplaceResume, tables, Shape, TablesOK
  <2>5. Legit(r) /\ r.at = "markPending" /\ r.stamp = 0 /\ r.id = id
    BY <2>2, <2>4 DEF Idle, Legit, Request, Places, OnResume, Saving
  <2> QED BY <2>3, <2>4, <2>5
<1>4. CASE ActivateCheck(q)
  <2>1. PICK id \in Stored : Start(q, [Idle EXCEPT !.at = "activate", !.id = id])
    BY <1>4 DEF ActivateCheck
  <2>2. PICK r : r = [Idle EXCEPT !.at = "activate", !.id = id]
    OBVIOUS
  <2>3. Moved(r)
    BY <2>1, <2>2, StartMoves
  <2>4. id \in Ids /\ id \in used'
    BY <1>4 DEF ActivateCheck, tables, Shape, TablesOK
  <2>5. Legit(r) /\ r.at = "activate" /\ r.stamp = 0 /\ r.id = id
    BY <2>2, <2>4 DEF Idle, Legit, Request, Places, OnResume, Saving
  <2> QED BY <2>3, <2>4, <2>5
<1>5. CASE DeleteResume(q)
  <2>1. Moved(Idle)
    BY <1>5, StartMoves DEF DeleteResume
  <2> QED BY <2>1, IdleIsLegit DEF OnResume
<1>6. CASE FollowUp(q) \/ Retry(q)
  <2>1. PICK id \in Stored : Moved(Reading(id))
    BY <1>6, StartMoves, GotoMoves DEF FollowUp, Retry
  <2>2. resumes[id].content \in Files /\ id \in Ids /\ id \in used'
    BY <1>6 DEF FollowUp, Retry, tables, Shape, TablesOK, Resume
  <2>3. PICK r : r = [Idle EXCEPT !.at = "extract", !.id = id, !.file = resumes[id].content]
    OBVIOUS
  <2>4. Moved(r)
    BY <2>1, <2>3 DEF Reading
  <2>5. Legit(r) /\ r.at = "extract" /\ r.stamp = 0 /\ r.id = id
    BY <2>2, <2>3 DEF Idle, Legit, Request, Places, OnResume, Saving
  <2> QED BY <2>2, <2>4, <2>5
<1>7. CASE TailorRead(q)
  <2>1. PICK id \in Active :
          /\ id \in DOMAIN extractions
          /\ Start(q, [Idle EXCEPT !.at = "tailor", !.id = id, !.file = extractions[id].data,
                                   !.source = extractions[id].updated])
    BY <1>7 DEF TailorRead
  <2>2. /\ id \in Ids /\ id \in used'
        /\ extractions[id].data \in MaybeFile
        /\ extractions[id].updated \in Nat
    BY <1>7, <2>1 DEF TailorRead, tables, Shape, TablesOK, Row, Active
  <2>3. PICK r : r = [Idle EXCEPT !.at = "tailor", !.id = id, !.file = extractions[id].data,
                                  !.source = extractions[id].updated]
    OBVIOUS
  <2>4. Moved(r)
    BY <2>1, <2>3, StartMoves
  <2>5. Legit(r) /\ r.at = "tailor" /\ r.stamp = 0 /\ r.id = id
    BY <2>2, <2>3 DEF Idle, Legit, Request, Places, OnResume, Saving, MaybeFile
  <2> QED BY <1>7, <2>2, <2>4, <2>5
<1>8. CASE ExtractMarkPending(q)
  <2>1. /\ req[q].at = "extract" /\ UNCHANGED used
        /\ Goto(q, [req[q] EXCEPT !.at = "llm", !.stamp = 0])
    BY <1>8 DEF ExtractMarkPending, At
  <2>2. PICK r : r = [req[q] EXCEPT !.at = "llm", !.stamp = 0]
    OBVIOUS
  <2>3. Moved(r)
    BY <2>1, <2>2, GotoMoves
  <2>4. Legit(r) /\ r.at = "llm" /\ r.stamp = 0 /\ r.id = req[q].id /\ r.id \in used
    BY <2>1, <2>2 DEF Legit, Request, Places, OnResume, Saving, Shape
  <2> QED BY <2>1, <2>3, <2>4
<1>9. CASE SaveResult(q)
  <2>1. /\ req[q].at = "llm" /\ UNCHANGED used
        /\ Goto(q, [req[q] EXCEPT !.at = "embed", !.stamp = 0])
    BY <1>9 DEF SaveResult, At
  <2>2. PICK r : r = [req[q] EXCEPT !.at = "embed", !.stamp = 0]
    OBVIOUS
  <2>3. Moved(r)
    BY <2>1, <2>2, GotoMoves
  <2>4. Legit(r) /\ r.at = "embed" /\ r.stamp = 0 /\ r.id = req[q].id /\ r.id \in used
    BY <2>1, <2>2 DEF Legit, Request, Places, OnResume, Saving, Shape
  <2> QED BY <2>1, <2>3, <2>4
<1>10. CASE \/ MarkPending(q) \/ MarkPendingFails(q) \/ SetActiveResume(q)
            \/ SaveFailure(q) \/ SaveEmbedding(q) \/ EmbedFails(q) \/ SaveFails(q)
            \/ UpsertTailoredResume(q) \/ TailorFails(q) \/ RequestLost(q)
  <2>1. Goto(q, Idle)
    BY <1>10 DEF MarkPending, MarkPendingFails, SetActiveResume, SaveFailure, SaveEmbedding,
                 EmbedFails, SaveFails, UpsertTailoredResume, TailorFails, RequestLost, Finish
  <2>2. Moved(Idle)
    BY <2>1, GotoMoves
  <2> QED BY <2>2, IdleIsLegit DEF OnResume
<1>11. CASE BeginSave(q)
  <2>1. /\ req[q].at \in Saving /\ UNCHANGED used
        /\ Goto(q, [req[q] EXCEPT !.stamp = clock + 1])
    BY <1>11 DEF BeginSave
  <2>2. PICK r : r = [req[q] EXCEPT !.stamp = clock + 1]
    OBVIOUS
  <2>3. Moved(r)
    BY <2>1, <2>2, GotoMoves
  <2>4. clock + 1 \in Nat
    BY DEF Shape, TablesOK
  <2>5. Legit(r) /\ r.at = req[q].at /\ r.id = req[q].id
    BY <2>1, <2>2, <2>4 DEF Legit, Request, Shape
  <2> QED BY <1>11, <2>1, <2>3, <2>5 DEF Saving, Shape
<1>12. CASE BeginUpdate(q)
  <2>1. /\ req[q].at = "activate" /\ UNCHANGED used
        /\ Goto(q, [req[q] EXCEPT !.at = "update", !.seen = Stored])
    BY <1>12 DEF BeginUpdate, At, tables
  <2>2. PICK r : r = [req[q] EXCEPT !.at = "update", !.seen = Stored]
    OBVIOUS
  <2>3. Moved(r)
    BY <2>1, <2>2, GotoMoves
  <2>4. Stored \in SUBSET Ids
    BY DEF Shape, TablesOK
  <2>5. Legit(r) /\ r.at = "update" /\ r.stamp = 0 /\ r.id = req[q].id /\ r.id \in used
    BY <2>1, <2>2, <2>4 DEF Legit, Request, Places, OnResume, Saving, Shape
  <2> QED BY <1>12, <2>1, <2>3, <2>5
<1> QED BY <1>1, <1>2, <1>3, <1>4, <1>5, <1>6, <1>7, <1>8, <1>9, <1>10, <1>11, <1>12
        DEF Acts, Begin, Proceed

-----------------------------------------------------------------------------
\* The tables: what a save clock.
LEMMA ExistingIsRow ==
  ASSUME Shape, NEW id
  PROVE  Existing(id) \in Row
  BY DEF Shape, TablesOK, Existing, Row, Statuses, MaybeFile

\* Request q wrote its extraction, at the time its statement began.
Wrote(q, row) ==
  /\ row \in Row
  /\ row.updated = req[q].stamp
  /\ req[q].stamp # 0
  /\ req[q].id \in Stored
  /\ extractions' = Put(extractions, req[q].id, row)

LEMMA SaveWrites ==
  ASSUME Shape, NEW q \in Requests, NEW old \in Row, SaveExtraction(q, old)
  PROVE  \E row : Wrote(q, row) /\ row.status = old.status
<1>1. PICK row : row = [old EXCEPT !.updated = req[q].stamp]
  OBVIOUS
<1>2. row \in Row /\ row.status = old.status /\ row.updated = req[q].stamp
  BY <1>1 DEF Row, Shape, Request
<1>3. /\ extractions' = Put(extractions, req[q].id, row)
      /\ req[q].stamp # 0 /\ req[q].id \in Stored
  BY <1>1, Zenon DEF SaveExtraction
<1> QED BY <1>2, <1>3 DEF Wrote

LEMMA MarkWrites ==
  ASSUME Shape, NEW q \in Requests, MarkExtractionPending(q)
  PROVE  \E row : Wrote(q, row)
<1>1. PICK old \in Row : old = Existing(req[q].id)
  BY ExistingIsRow
<1>2. PICK marked : marked = [old EXCEPT !.status = "pending"]
  OBVIOUS
<1>3. marked \in Row
  BY <1>2 DEF Row, Statuses
<1>4. SaveExtraction(q, marked)
  BY <1>1, <1>2, Zenon DEF MarkExtractionPending
<1> QED BY <1>3, <1>4, SaveWrites

LEMMA ResultWrites ==
  ASSUME Shape, NEW q \in Requests, SaveResult(q)
  PROVE  \E row : Wrote(q, row) /\ row.status = "completed"
<1>1. PICK old \in Row : old = Existing(req[q].id)
  BY ExistingIsRow
<1>2. PICK read : read = [old EXCEPT !.status = "completed", !.data = req[q].file]
  OBVIOUS
<1>3. req[q].file \in MaybeFile
  BY DEF Shape, Request, MaybeFile
<1>4. read \in Row /\ read.status = "completed"
  BY <1>2, <1>3 DEF Row, Statuses
<1>5. SaveExtraction(q, read)
  BY <1>1, <1>2, Zenon DEF SaveResult
<1> QED BY <1>4, <1>5, SaveWrites

LEMMA FailureWrites ==
  ASSUME Shape, NEW q \in Requests, SaveFailure(q)
  PROVE  \E row : Wrote(q, row) /\ row.status # "pending"
<1>1. PICK old \in Row : old = Existing(req[q].id)
  BY ExistingIsRow
<1>2. PICK status \in {"failed", "unsupported"} :
        SaveExtraction(q, [Existing(req[q].id) EXCEPT !.status = status])
  BY DEF SaveFailure
<1>3. PICK failed : failed = [old EXCEPT !.status = status]
  OBVIOUS
<1>4. failed \in Row /\ failed.status # "pending"
  BY <1>3 DEF Row, Statuses
<1>5. SaveExtraction(q, failed)
  BY <1>1, <1>2, <1>3, Zenon
<1> QED BY <1>4, <1>5, SaveWrites

\* What a write leaves: the row written, the others as they were.
LEMMA WroteRows ==
  ASSUME Shape, NEW q \in Requests, NEW row, Wrote(q, row)
  PROVE  /\ DOMAIN extractions' = DOMAIN extractions \cup {req[q].id}
         /\ extractions' \in [DOMAIN extractions' -> Row]
         /\ extractions'[req[q].id] = row
         /\ \A other \in DOMAIN extractions \ {req[q].id} :
              extractions'[other] = extractions[other]
<1>1. row \in Row /\ extractions \in [DOMAIN extractions -> Row]
  BY DEF Wrote, Shape, TablesOK
<1>2. PICK id : id = req[q].id
  OBVIOUS
<1>3. extractions' = Put(extractions, id, row)
  BY <1>2 DEF Wrote
<1>4. /\ DOMAIN Put(extractions, id, row) = DOMAIN extractions \cup {id}
      /\ Put(extractions, id, row) \in [DOMAIN extractions \cup {id} -> Row]
      /\ Put(extractions, id, row)[id] = row
      /\ \A other \in DOMAIN extractions \ {id} :
           Put(extractions, id, row)[other] = extractions[other]
  BY <1>1 DEF Put
<1> QED BY <1>2, <1>3, <1>4, Zenon

-----------------------------------------------------------------------------
\* What a step of request q does to the extractions: it writes its own, at the time
\* its statement began, or leaves them as they are but for a vector; an extraction
\* goes with its resume only, and a resume that is gone stays so.
RowsMove(q) ==
  /\ extractions' \in [DOMAIN extractions' -> Row]
  /\ \A id \in DOMAIN extractions' :
       \/ /\ id = req[q].id /\ id \in Stored
          /\ req[q].stamp # 0
          /\ extractions'[id].updated = req[q].stamp
       \/ /\ id \in DOMAIN extractions
          /\ extractions'[id].status = extractions[id].status
          /\ extractions'[id].data = extractions[id].data
          /\ extractions'[id].updated = extractions[id].updated
  /\ \A id \in DOMAIN extractions : id \in Stored' => id \in DOMAIN extractions'
  /\ used \subseteq used'
  /\ \A id \in used : id \in Stored' => id \in Stored
  /\ \/ clock' = clock
     \/ clock' = clock + 1 /\ BeginSave(q)

LEMMA WritesMoveRows ==
  ASSUME Shape, NEW q \in Requests, NEW row, Wrote(q, row), UNCHANGED <<resumes, used, clock>>
  PROVE  RowsMove(q)
<1>1. /\ DOMAIN extractions' = DOMAIN extractions \cup {req[q].id}
      /\ extractions' \in [DOMAIN extractions' -> Row]
      /\ extractions'[req[q].id] = row
      /\ \A other \in DOMAIN extractions \ {req[q].id} :
           extractions'[other] = extractions[other]
  BY WroteRows
<1> QED BY <1>1 DEF RowsMove, Wrote, Stored

LEMMA RowsStay ==
  ASSUME Shape, NEW q, UNCHANGED extractions, used \subseteq used', UNCHANGED clock,
         \A id \in used : id \in Stored' => id \in Stored
  PROVE  RowsMove(q)
<1>1. extractions' \in [DOMAIN extractions' -> Row]
  BY DEF Shape, TablesOK
<1> QED BY <1>1 DEF RowsMove

LEMMA EmbeddingRows ==
  ASSUME Shape, NEW q \in Requests, SaveEmbedding(q)
  PROVE  RowsMove(q) /\ DOMAIN extractions' = DOMAIN extractions
<1>1. req[q].file \in MaybeFile
  BY DEF Shape, Request, MaybeFile
<1>2. extractions' = WithVector(req[q].id, req[q].file) /\ UNCHANGED <<resumes, used, clock>>
  BY DEF SaveEmbedding
<1>3. CASE req[q].id \notin DOMAIN extractions
  BY <1>2, <1>3, RowsStay DEF WithVector, Stored
<1>4. CASE req[q].id \in DOMAIN extractions
  <2>1. PICK old \in Row : old = extractions[req[q].id]
    BY <1>4 DEF Shape, TablesOK
  <2>2. PICK row : row = [old EXCEPT !.vector = req[q].file]
    OBVIOUS
  <2>3. /\ row \in Row /\ row.status = old.status
        /\ row.data = old.data /\ row.updated = old.updated
    BY <1>1, <2>1, <2>2 DEF Row
  <2>4. extractions' = [extractions EXCEPT ![req[q].id] = row]
    BY <1>2, <1>4, <2>1, <2>2, Zenon DEF WithVector
  <2> HIDE <2>2
  <2> QED BY <1>2, <1>4, <2>1, <2>3, <2>4 DEF RowsMove, Stored, Shape, TablesOK
<1> QED BY <1>3, <1>4

LEMMA TablesMove ==
  ASSUME Shape, NEW q \in Requests, Acts(q)
  PROVE  TablesOK' /\ RowsMove(q)
<1> USE DEF Stored
<1>1. CASE BeginSave(q)
  <2>1. UNCHANGED resumes /\ UNCHANGED extractions /\ UNCHANGED tailored /\ UNCHANGED used
        /\ clock' = clock + 1
    BY <1>1 DEF BeginSave
  <2>2. TablesOK'
    BY <2>1 DEF Shape, TablesOK
  <2> QED BY <1>1, <2>1, <2>2 DEF RowsMove, Shape, TablesOK
<1>2. CASE UNCHANGED tables
  <2>1. UNCHANGED resumes /\ UNCHANGED extractions /\ UNCHANGED tailored /\ UNCHANGED used
        /\ UNCHANGED clock
    BY <1>2 DEF tables
  <2>2. TablesOK'
    BY <2>1 DEF Shape, TablesOK
  <2> QED BY <2>1, <2>2, RowsStay
<1>3. CASE AddResume(q)
  <2>1. PICK id \in Ids \ used :
          /\ resumes' = Put(resumes, id, [content |-> req[q].file, active |-> req[q].first])
          /\ used' = used \cup {id}
          /\ UNCHANGED <<extractions, tailored, clock>>
    BY <1>3 DEF AddResume
  <2>2. PICK row : row = [content |-> req[q].file, active |-> req[q].first]
    OBVIOUS
  <2>3. row \in Resume
    BY <1>3, <2>2 DEF AddResume, At, Shape, Legit, Request, Resume
  <2>4. resumes' \in [Stored' -> Resume] /\ Stored' = Stored \cup {id}
    BY <2>1, <2>2, <2>3 DEF Put, Shape, TablesOK
  <2>5. TablesOK'
    BY <2>1, <2>4 DEF Shape, TablesOK
  <2> QED BY <2>1, <2>4, <2>5, RowsStay
<1>4. CASE ReplaceResume(q)
  <2>1. PICK id \in Stored, file \in Files : resumes' = [resumes EXCEPT ![id].content = file]
    BY <1>4 DEF ReplaceResume
  <2>2. PICK old \in Resume : old = resumes[id]
    BY DEF Shape, TablesOK
  <2>3. PICK row : row = [old EXCEPT !.content = file]
    OBVIOUS
  <2>4. row \in Resume
    BY <2>3 DEF Resume
  <2>5. resumes' = [resumes EXCEPT ![id] = row]
    BY <2>1, <2>2, <2>3, Zenon
  <2>6. resumes' \in [Stored' -> Resume] /\ Stored' = Stored
    BY <2>4, <2>5 DEF Shape, TablesOK
  <2> QED BY <1>4, <2>6 DEF ReplaceResume, Shape, TablesOK, RowsMove
<1>5. CASE DeleteResume(q)
  <2>1. PICK id \in Stored :
          /\ resumes' = Remove(resumes, id)
          /\ extractions' = Remove(extractions, id)
          /\ tailored' = IF tailored # Nothing /\ tailored.id = id
                         THEN [tailored EXCEPT !.id = Nothing] ELSE tailored
    BY <1>5 DEF DeleteResume
  <2>2. /\ resumes' \in [Stored' -> Resume] /\ Stored' = Stored \ {id}
        /\ extractions' \in [DOMAIN extractions' -> Row]
        /\ DOMAIN extractions' = DOMAIN extractions \ {id}
        /\ \A other \in DOMAIN extractions' : extractions'[other] = extractions[other]
    BY <2>1 DEF Remove, Shape, TablesOK
  <2>3. tailored' # Nothing => tailored' \in Copy
    BY <2>1 DEF Shape, TablesOK, Copy, MaybeId
  <2> QED BY <1>5, <2>2, <2>3 DEF DeleteResume, Shape, TablesOK, RowsMove
<1>6. CASE MarkPending(q) \/ ExtractMarkPending(q) \/ SaveResult(q) \/ SaveFailure(q)
  <2>1. PICK row : Wrote(q, row)
    BY <1>6, MarkWrites, ResultWrites, FailureWrites DEF MarkPending, ExtractMarkPending
  <2>2. UNCHANGED <<resumes, tailored, used, clock>>
    BY <1>6 DEF MarkPending, ExtractMarkPending, SaveResult, SaveFailure
  <2>3. /\ DOMAIN extractions' = DOMAIN extractions \cup {req[q].id}
        /\ extractions' \in [DOMAIN extractions' -> Row]
        /\ req[q].id \in Stored
    BY <2>1, WroteRows DEF Wrote
  <2>4. TablesOK'
    BY <2>2, <2>3 DEF Shape, TablesOK
  <2> QED BY <2>1, <2>2, <2>4, WritesMoveRows
<1>7. CASE SetActiveResume(q)
  <2>1. ASSUME NEW id \in Stored
        PROVE  [resumes[id] EXCEPT !.active = (id = req[q].id)] \in Resume /\ resumes[id] \in Resume
    BY DEF Shape, TablesOK, Resume
  <2>2. resumes' \in [Stored' -> Resume] /\ Stored' = Stored
    BY <1>7, <2>1 DEF SetActiveResume
  <2> QED BY <1>7, <2>2 DEF SetActiveResume, Shape, TablesOK, RowsMove
<1>8. CASE SaveEmbedding(q)
  BY <1>8, EmbeddingRows DEF SaveEmbedding, RowsMove, Shape, TablesOK
<1>9. CASE UpsertTailoredResume(q)
  <2>1. [id |-> req[q].id, source |-> req[q].source, data |-> req[q].file] \in Copy
    BY DEF Shape, Request, Copy, MaybeId, MaybeFile
  <2> QED BY <1>9, <2>1 DEF UpsertTailoredResume, Shape, TablesOK, RowsMove
<1> QED BY <1>1, <1>2, <1>3, <1>4, <1>5, <1>6, <1>7, <1>8, <1>9
        DEF Acts, Begin, Proceed, UploadResume, MarkPendingFails, ActivateCheck, BeginUpdate,
            FollowUp, Retry, EmbedFails, SaveFails, RequestLost, TailorRead, TailorFails

-----------------------------------------------------------------------------
(* The shape of a state.                                                   *)
all == <<vars, history>>

\* What a step that changes nothing but owed leaves.
LEMMA OwedOnly ==
  ASSUME NEW id, FollowUpMissing(id)
  PROVE  /\ UNCHANGED resumes /\ UNCHANGED extractions /\ UNCHANGED tailored
         /\ UNCHANGED used /\ UNCHANGED clock /\ UNCHANGED req
  BY DEF FollowUpMissing, tables

LEMMA Stutters ==
  ASSUME UNCHANGED all
  PROVE  /\ UNCHANGED resumes /\ UNCHANGED extractions /\ UNCHANGED tailored
         /\ UNCHANGED used /\ UNCHANGED clock /\ UNCHANGED req
         /\ UNCHANGED owed /\ UNCHANGED crowded /\ UNCHANGED latest /\ UNCHANGED abandoned
  BY DEF all, vars, tables, history

\* The later of the time an extraction gets and the latest it has had.
LEMMA LatestMoves ==
  ASSUME Shape, Remember, extractions' \in [DOMAIN extractions' -> Row]
  PROVE  /\ latest' \in [DOMAIN extractions' -> Nat]
         /\ \A id \in DOMAIN extractions' :
              latest'[id] = IF id \in DOMAIN extractions
                                 /\ latest[id] > extractions'[id].updated
                            THEN latest[id] ELSE extractions'[id].updated
  BY DEF Shape, Remember, Row

LEMMA ShapeInit == Init => Shape
<1> SUFFICES ASSUME Init PROVE Shape
  OBVIOUS
<1>1. TablesOK
  BY DEF Init, TablesOK, Stored, Empty
<1>2. req \in [Requests -> Request] /\ \A q \in Requests : Legit(req[q]) /\ req[q].at = "idle"
  BY IdleIsLegit DEF Init, Legit
<1>3. latest \in [DOMAIN extractions -> Nat]
  BY DEF Init, Empty
<1> QED BY <1>1, <1>2, <1>3 DEF Shape, OnResume

LEMMA ShapeStep == Shape /\ [Next]_all => Shape'
<1> SUFFICES ASSUME Shape, [Next]_all
             PROVE  Shape'
  OBVIOUS
<1> DEFINE Rest ==
             /\ TablesOK'
             /\ req' \in [Requests -> Request]
             /\ \A q \in Requests : Legit(req'[q])
             /\ \A q \in Requests : req'[q].at \in OnResume => req'[q].id \in used'
<1>1. ASSUME UNCHANGED resumes, UNCHANGED extractions, UNCHANGED tailored,
             UNCHANGED used, UNCHANGED clock, UNCHANGED req
      PROVE  Rest
  BY <1>1 DEF Shape, TablesOK, Stored
<1>2. ASSUME NEW q \in Requests, Acts(q)
      PROVE  Rest
  <2>1. \A p \in Requests :
          Legit(req[p]) /\ (req[p].at \in OnResume => req[p].id \in used)
    BY DEF Shape
  <2>2. used \subseteq used' /\ TablesOK'
    BY <1>2, TablesMove DEF RowsMove
  <2>3. /\ \A p \in Requests \ {q} : req'[p] = req[p]
        /\ req' \in [Requests -> Request]
        /\ Legit(req'[q])
        /\ req'[q].at \in OnResume => req'[q].id \in used'
    BY <1>2, ActsMove
  <2> QED BY <2>1, <2>2, <2>3
<1>3. Rest
  BY <1>1, <1>2, OwedOnly, Stutters DEF Next, Acts
<1>4. latest' \in [DOMAIN extractions' -> Nat]
  <2>1. CASE UNCHANGED all
    BY <2>1, Stutters DEF Shape
  <2>2. CASE Next
    BY <1>3, <2>2, LatestMoves DEF Next, TablesOK
  <2> QED BY <2>1, <2>2
<1> QED BY <1>3, <1>4 DEF Shape

-----------------------------------------------------------------------------
(* A tailored resume and the extraction it was written from.               *)

\* The same of the tables after a step.
StillReadFrom(id, source, data) ==
  /\ id \in used'
  /\ id \in Stored' => id \in DOMAIN extractions'
  /\ id \in DOMAIN extractions' => source <= latest'[id]
  /\ id \in DOMAIN extractions'
       /\ extractions'[id].updated <= source /\ extractions'[id].updated = latest'[id] =>
       /\ extractions'[id].status = "completed"
       /\ extractions'[id].data = data

\* What a step of request q does to the times of an extraction that remains.
LEMMA TimesMove ==
  ASSUME Shape, Dated, Remember, NEW q \in Requests, Acts(q), NEW id \in DOMAIN extractions'
  PROVE  \/ /\ id = req[q].id /\ id \in Stored
            /\ req[q].stamp # 0
            /\ extractions'[id].updated = req[q].stamp
            /\ \/ latest'[id] = req[q].stamp
               \/ id \in DOMAIN extractions /\ latest'[id] = latest[id]
            /\ req[q].stamp <= latest'[id]
            /\ id \in DOMAIN extractions => latest[id] <= latest'[id]
         \/ /\ id \in DOMAIN extractions
            /\ extractions'[id].status = extractions[id].status
            /\ extractions'[id].data = extractions[id].data
            /\ extractions'[id].updated = extractions[id].updated
            /\ latest'[id] = latest[id]
<1>1. RowsMove(q)
  BY TablesMove
<1>2. latest'[id] = IF id \in DOMAIN extractions /\ latest[id] > extractions'[id].updated
                    THEN latest[id] ELSE extractions'[id].updated
  BY <1>1, LatestMoves DEF RowsMove
<1>3. req[q].stamp \in Nat /\ (id \in DOMAIN extractions => latest[id] \in Nat)
  BY DEF Shape, Request
<1>4. extractions'[id].updated \in Nat
  BY <1>1 DEF RowsMove, Row
<1>5. id \in DOMAIN extractions => extractions[id].updated <= latest[id]
  BY DEF Dated
<1> QED BY <1>1, <1>2, <1>3, <1>4, <1>5 DEF RowsMove

LEMMA ReadFromKept ==
  ASSUME Shape, Dated, Remember, NEW q \in Requests, Acts(q),
         NEW id, NEW source \in Nat, NEW data, ReadFrom(id, source, data)
  PROVE  StillReadFrom(id, source, data)
<1>1. RowsMove(q) /\ TablesOK'
  BY TablesMove
<1>2. id \in used' /\ (id \in Stored' => id \in DOMAIN extractions /\ id \in DOMAIN extractions')
  BY <1>1 DEF ReadFrom, RowsMove
<1>3. ASSUME id \in DOMAIN extractions'
      PROVE  /\ source <= latest'[id]
             /\ extractions'[id].updated <= source /\ extractions'[id].updated = latest'[id] =>
                  /\ extractions'[id].status = "completed"
                  /\ extractions'[id].data = data
  <2>1. id \in DOMAIN extractions /\ source <= latest[id]
    BY <1>1, <1>2, <1>3 DEF TablesOK, ReadFrom
  <2>2. /\ latest[id] \in Nat /\ req[q].stamp \in Nat
        /\ req[q].stamp # 0 => req[q].stamp # latest[id]
    BY <2>1 DEF Shape, Request, Dated
  <2>3. latest'[id] \in Nat
    BY <1>1, <1>3, LatestMoves DEF RowsMove
  <2> QED BY <1>3, <2>1, <2>2, <2>3, TimesMove DEF ReadFrom
<1> QED BY <1>2, <1>3 DEF StillReadFrom

LEMMA DatedKept ==
  ASSUME Shape, Dated, Remember, NEW q \in Requests, Acts(q)
  PROVE  Dated'
<1>1. RowsMove(q)
  BY TablesMove
<1>2. clock \in Nat /\ \A p \in Requests : req[p].stamp \in Nat /\ req[p].stamp <= clock
  BY DEF Shape, TablesOK, Request, Dated
<1>3. \A p \in Requests \ {q} : req'[p] = req[p]
  BY ActsMove
<1>4. req'[q].stamp # 0 =>
        /\ BeginSave(q)
        /\ req'[q].stamp = clock + 1
        /\ clock' = clock + 1
  <2> SUFFICES ASSUME req'[q].stamp # 0
               PROVE  BeginSave(q) /\ req'[q].stamp = clock + 1 /\ clock' = clock + 1
    OBVIOUS
  <2>1. BeginSave(q)
    BY ActsMove
  <2>2. PICK r : r = [req[q] EXCEPT !.stamp = clock + 1]
    OBVIOUS
  <2>3. req'[q] = r
    BY <2>1, <2>2, GotoMoves DEF BeginSave
  <2>4. r.stamp = clock + 1
    BY <2>2 DEF Shape, Request
  <2> QED BY <2>1, <2>3, <2>4 DEF BeginSave
<1>5. clock' \in Nat /\ clock <= clock'
  BY <1>1, <1>2 DEF RowsMove
<1>6. \A p \in Requests : req'[p].stamp <= clock'
  BY <1>2, <1>3, <1>4, <1>5
<1>7. \A p, r \in Requests : p # r /\ req'[p].stamp # 0 => req'[p].stamp # req'[r].stamp
  BY <1>2, <1>3, <1>4 DEF Dated
<1>8. ASSUME NEW id \in DOMAIN extractions'
      PROVE  /\ extractions'[id].updated <= latest'[id]
             /\ latest'[id] <= clock'
             /\ \A p \in Requests : req'[p].stamp # 0 => req'[p].stamp # latest'[id]
  <2>1. id \in DOMAIN extractions =>
          /\ latest[id] \in Nat /\ extractions[id].updated \in Nat
          /\ extractions[id].updated <= latest[id]
          /\ latest[id] <= clock
          /\ \A p \in Requests : req[p].stamp # 0 => req[p].stamp # latest[id]
    BY DEF Shape, TablesOK, Row, Dated
  <2>2. CASE /\ req[q].stamp # 0
             /\ extractions'[id].updated = req[q].stamp
             /\ \/ latest'[id] = req[q].stamp
                \/ id \in DOMAIN extractions /\ latest'[id] = latest[id]
             /\ req[q].stamp <= latest'[id]
    <3>1. req'[q].stamp # 0 => req'[q].stamp # latest'[id]
      BY <1>2, <1>4, <2>1, <2>2
    <3>2. \A p \in Requests \ {q} : req'[p].stamp # 0 => req'[p].stamp # latest'[id]
      BY <1>3, <2>1, <2>2 DEF Dated
    <3> QED BY <1>2, <1>5, <2>1, <2>2, <3>1, <3>2
  <2>3. CASE /\ id \in DOMAIN extractions
             /\ extractions'[id].updated = extractions[id].updated
             /\ latest'[id] = latest[id]
    BY <1>2, <1>3, <1>4, <1>5, <2>1, <2>3
  <2> QED BY <1>8, <2>2, <2>3, TimesMove
<1> QED BY <1>6, <1>7, <1>8 DEF Dated

\* What the request of a tailored resume reads.
LEMMA ReadNow ==
  ASSUME Shape, Dated, Remember, NEW q \in Requests, TailorRead(q)
  PROVE  StillReadFrom(req'[q].id, req'[q].source, req'[q].file)
<1>1. PICK id \in Active :
        /\ id \in DOMAIN extractions
        /\ extractions[id].status = "completed"
        /\ Start(q, [Idle EXCEPT !.at = "tailor", !.id = id, !.file = extractions[id].data,
                                 !.source = extractions[id].updated])
  BY DEF TailorRead
<1>2. PICK r : r = [Idle EXCEPT !.at = "tailor", !.id = id, !.file = extractions[id].data,
                                !.source = extractions[id].updated]
  OBVIOUS
<1>3. r.id = id /\ r.file = extractions[id].data /\ r.source = extractions[id].updated
  BY <1>2 DEF Idle
<1>4. req'[q] = r
  BY <1>1, <1>2, StartMoves
<1>5. UNCHANGED extractions /\ UNCHANGED used
  BY DEF TailorRead, tables
<1>6. id \in used
  BY DEF Active, Shape, TablesOK
<1>7. /\ extractions[id].updated \in Nat /\ latest[id] \in Nat
      /\ extractions[id].updated <= latest[id]
  BY <1>1 DEF Shape, TablesOK, Row, Dated
<1>8. extractions' \in [DOMAIN extractions' -> Row]
  BY <1>5 DEF Shape, TablesOK
<1>9. latest'[id] = latest[id]
  BY <1>1, <1>5, <1>7, <1>8, LatestMoves
<1> QED BY <1>1, <1>3, <1>4, <1>5, <1>6, <1>7, <1>9 DEF StillReadFrom

LEMMA CopiesStep == Shape /\ Dated /\ CopiesReadFrom /\ [Next]_all => Dated' /\ CopiesReadFrom'
<1> SUFFICES ASSUME Shape, Dated, CopiesReadFrom, [Next]_all
             PROVE  Dated' /\ CopiesReadFrom'
  OBVIOUS
<1>1. ASSUME UNCHANGED resumes, UNCHANGED extractions, UNCHANGED tailored, UNCHANGED used,
             UNCHANGED clock, UNCHANGED req, UNCHANGED latest
      PROVE  Dated' /\ CopiesReadFrom'
  BY <1>1 DEF Dated, CopiesReadFrom, ReadFrom, At, Stored
<1>2. ASSUME NEW q \in Requests, Acts(q), Remember
      PROVE  Dated' /\ CopiesReadFrom'
  <2>1. Dated'
    BY <1>2, DatedKept
  <2>2. ASSUME NEW p \in Requests, At(p, "tailor")'
        PROVE  StillReadFrom(req'[p].id, req'[p].source, req'[p].file)
    <3>1. CASE p = q
      BY <1>2, <2>2, <3>1, ActsMove, ReadNow DEF At
    <3>2. CASE p # q
      <4>1. req'[p] = req[p]
        BY <1>2, <3>2, ActsMove
      <4>2. req[p].source \in Nat
        BY DEF Shape, Request
      <4> QED BY <1>2, <2>2, <4>1, <4>2, ReadFromKept DEF CopiesReadFrom, At
    <3> QED BY <3>1, <3>2
  <2>3. ASSUME tailored' # Nothing, tailored'.id # Nothing
        PROVE  StillReadFrom(tailored'.id, tailored'.source, tailored'.data)
    <3>1. CASE UpsertTailoredResume(q)
      <4>1. /\ tailored' = [id |-> req[q].id, source |-> req[q].source, data |-> req[q].file]
            /\ At(q, "tailor")
        BY <3>1 DEF UpsertTailoredResume
      <4>2. req[q].source \in Nat
        BY DEF Shape, Request
      <4>3. ReadFrom(req[q].id, req[q].source, req[q].file)
        BY <4>1 DEF CopiesReadFrom
      <4> QED BY <1>2, <4>1, <4>2, <4>3, ReadFromKept
    <3>2. CASE tailored' = tailored
      <4>1. tailored \in Copy
        BY <2>3, <3>2 DEF Shape, TablesOK
      <4>2. tailored.source \in Nat
        BY <4>1 DEF Copy
      <4> QED BY <1>2, <2>3, <3>2, <4>2, ReadFromKept DEF CopiesReadFrom
    <3>3. CASE DeleteResume(q) /\ tailored' # tailored
      <4>1. tailored # Nothing /\ tailored' = [tailored EXCEPT !.id = Nothing]
        BY <3>3 DEF DeleteResume
      <4>2. tailored \in Copy
        BY <4>1 DEF Shape, TablesOK
      <4>3. tailored'.id = Nothing
        BY <4>1, <4>2 DEF Copy
      <4> QED BY <2>3, <4>3
    <3>4. DeleteResume(q) \/ UpsertTailoredResume(q) \/ tailored' = tailored
      BY <1>2, Zenon
      DEF Acts, Begin, Proceed, UploadResume, AddResume, BeginSave, MarkPending, MarkPendingFails,
          BeginUpdate, SetActiveResume, ExtractMarkPending, SaveResult, SaveFailure,
          SaveEmbedding, EmbedFails, SaveFails, TailorFails, ReplaceResume, ActivateCheck,
          FollowUp, Retry, TailorRead, RequestLost, tables
    <3> QED BY <3>1, <3>2, <3>3, <3>4
  <2> QED BY <2>1, <2>2, <2>3 DEF CopiesReadFrom, ReadFrom, StillReadFrom
<1>3. ASSUME NEW id, FollowUpMissing(id), Remember
      PROVE  UNCHANGED latest
  <2>1. UNCHANGED extractions
    BY <1>3, OwedOnly
  <2>2. \A row \in DOMAIN extractions :
          /\ latest[row] \in Nat /\ extractions[row].updated \in Nat
          /\ extractions[row].updated <= latest[row]
    BY DEF Shape, TablesOK, Row, Dated
  <2>3. extractions' \in [DOMAIN extractions' -> Row]
    BY <2>1 DEF Shape, TablesOK
  <2>4. /\ latest' \in [DOMAIN extractions -> Nat]
        /\ \A row \in DOMAIN extractions : latest'[row] = latest[row]
    BY <1>3, <2>1, <2>2, <2>3, LatestMoves
  <2> QED BY <2>4 DEF Shape
<1> QED BY <1>1, <1>2, <1>3, OwedOnly, Stutters DEF Next, Acts

\* A tailored resume shown as current was written from the data its resume's
\* extraction holds now (GetTailoredResume's stale flag), unless a save that had
\* begun earlier committed after another and set the extraction's time back: the
\* time of a save, its statement's NOW(), is later than every time the extraction
\* has had, and so than the one the tailoring request read, or it sets it back.
THEOREM CurrentTailoredResumesMatch == Spec => []CurrentMeansSameData
<1> DEFINE Inv == Shape /\ Dated /\ CopiesReadFrom
<1>1. Init => Inv
  <2> SUFFICES ASSUME Init PROVE Dated /\ CopiesReadFrom
    BY ShapeInit
  <2> QED BY IdleIsLegit DEF Init, Dated, CopiesReadFrom, Empty, At
<1>2. Inv /\ [Next]_all => Inv'
  BY ShapeStep, CopiesStep
<1>3. Inv => CurrentMeansSameData
  <2> SUFFICES ASSUME Inv, tailored # Nothing, ~Stale, ~SetBack(tailored.id)
               PROVE  WrittenFromThis
    BY DEF CurrentMeansSameData
  <2>1. /\ tailored.id # Nothing
        /\ tailored.id \in DOMAIN extractions
        /\ ~(extractions[tailored.id].updated > tailored.source)
    BY DEF Stale
  <2>2. /\ tailored.source \in Nat
        /\ extractions[tailored.id].updated \in Nat
        /\ latest[tailored.id] \in Nat
    BY <2>1 DEF Shape, TablesOK, Copy, Row
  <2>3. extractions[tailored.id].updated = latest[tailored.id]
    BY <2>1, <2>2 DEF Dated, SetBack
  <2> QED BY <2>1, <2>2, <2>3 DEF CopiesReadFrom, ReadFrom, WrittenFromThis
<1> QED BY <1>1, <1>2, <1>3, PTL DEF Spec, all

-----------------------------------------------------------------------------
(* Who finishes a pending extraction.                                      *)

\* A step that writes no extraction makes none pending.
LEMMA NoNewPending ==
  ASSUME Shape, NEW q \in Requests, Acts(q),
         UNCHANGED extractions \/ req[q].at \notin Saving,
         NEW id, Pending(id)'
  PROVE  Pending(id)
<1>1. CASE UNCHANGED extractions
  BY <1>1 DEF Pending
<1>2. CASE req[q].at \notin Saving
  <2>1. req[q].stamp = 0
    BY <1>2 DEF Shape, Legit
  <2> QED BY <2>1, TablesMove DEF RowsMove, Pending
<1> QED BY <1>1, <1>2

\* A write makes no extraction pending but its own.
LEMMA OthersStay ==
  ASSUME Shape, NEW q \in Requests, NEW row, Wrote(q, row), NEW id, Pending(id)'
  PROVE  \/ id = req[q].id /\ row.status = "pending"
         \/ id # req[q].id /\ Pending(id)
  BY WroteRows DEF Pending

LEMMA OwnersStep == Shape /\ PendingHasOwner /\ [Next]_all => PendingHasOwner'
<1> SUFFICES ASSUME Shape, PendingHasOwner, [Next]_all
             PROVE  PendingHasOwner'
  OBVIOUS
<1>1. CASE UNCHANGED all
  BY <1>1, Stutters DEF PendingHasOwner, Owner, Pending
<1>2. ASSUME NEW id \in Ids, FollowUpMissing(id), Remember
      PROVE  PendingHasOwner'
  BY <1>2, OwedOnly DEF FollowUpMissing, PendingHasOwner, Owner, Pending, Remember, Shape, TablesOK
<1>3. ASSUME NEW q \in Requests, Acts(q), Remember
      PROVE  PendingHasOwner'
  <2> DEFINE OwnerNow(id) == \/ id \in owed'
                             \/ \E p \in Requests :
                                  req'[p].at \in {"extract", "llm"} /\ req'[p].id = id
                             \/ id \in abandoned'
  <2> SUFFICES ASSUME NEW id, Pending(id)'
               PROVE  OwnerNow(id)
    BY DEF PendingHasOwner, Owner
  <2>1. \A p \in Requests \ {q} : req'[p] = req[p]
    BY <1>3, ActsMove
  <2>2. Pending(id) => Owner(id) \/ id \in abandoned
    BY DEF PendingHasOwner, Pending
  <2>3. /\ id \in abandoned => id \in abandoned'
        /\ id \in GivenUp => id \in abandoned'
    BY <1>3 DEF Remember
  <2>4. ASSUME Pending(id), owed \subseteq owed',
               req[q].at \notin {"extract", "llm"} \/ req[q].id # id
        PROVE  OwnerNow(id)
    BY <2>1, <2>2, <2>3, <2>4 DEF Owner
  <2>5. CASE MarkPending(q)
    <3>1. PICK row : Wrote(q, row)
      BY <2>5, MarkWrites DEF MarkPending
    <3>2. CASE id = req[q].id
      BY <2>5, <3>2 DEF MarkPending
    <3>3. CASE id # req[q].id
      <4>1. Pending(id)
        BY <3>1, <3>3, OthersStay
      <4>2. owed \subseteq owed'
        BY <2>5 DEF MarkPending
      <4> QED BY <2>4, <3>3, <4>1, <4>2
    <3> QED BY <3>2, <3>3
  <2>6. CASE ExtractMarkPending(q)
    <3>1. PICK row : Wrote(q, row)
      BY <2>6, MarkWrites DEF ExtractMarkPending
    <3>2. CASE id = req[q].id
      <4>1. PICK r : r = [req[q] EXCEPT !.at = "llm", !.stamp = 0]
        OBVIOUS
      <4>2. req'[q] = r
        BY <2>6, <4>1, GotoMoves DEF ExtractMarkPending
      <4>3. r.at = "llm" /\ r.id = req[q].id
        BY <4>1 DEF Shape, Request
      <4> QED BY <3>2, <4>2, <4>3
    <3>3. CASE id # req[q].id
      <4>1. Pending(id)
        BY <3>1, <3>3, OthersStay
      <4> QED BY <2>4, <2>6, <3>3, <4>1 DEF ExtractMarkPending
    <3> QED BY <3>2, <3>3
  <2>7. CASE SaveResult(q) \/ SaveFailure(q)
    <3>1. PICK row : Wrote(q, row) /\ row.status # "pending"
      BY <2>7, ResultWrites, FailureWrites
    <3>2. id # req[q].id /\ Pending(id)
      BY <3>1, OthersStay
    <3> QED BY <2>4, <2>7, <3>2 DEF SaveResult, SaveFailure
  <2>8. CASE FollowUp(q)
    <3>1. PICK due \in owed \cap Stored : Goto(q, Reading(due)) /\ owed' = owed \ {due}
      BY <2>8 DEF FollowUp
    <3>2. req'[q] = Reading(due) /\ Reading(due).at = "extract" /\ Reading(due).id = due
      BY <3>1, GotoMoves DEF Reading, Idle
    <3>3. Pending(id)
      BY <1>3, <2>8, NoNewPending DEF FollowUp, tables
    <3> QED BY <2>1, <2>2, <2>3, <2>8, <3>1, <3>2, <3>3 DEF FollowUp, At, Owner
  <2>9. CASE SaveFails(q)
    <3>1. UNCHANGED owed /\ UNCHANGED extractions
      BY <2>9 DEF SaveFails, tables
    <3>2. Pending(id)
      BY <1>3, <3>1, NoNewPending
    <3>3. req[q].id \in GivenUp
      BY <2>9 DEF GivenUp
    <3> QED BY <2>3, <2>4, <3>1, <3>2, <3>3
  <2>10. CASE BeginSave(q)
    <3>1. UNCHANGED owed /\ UNCHANGED extractions
      BY <2>10 DEF BeginSave
    <3>2. Pending(id)
      BY <1>3, <3>1, NoNewPending
    <3>3. PICK r : r = [req[q] EXCEPT !.stamp = clock + 1]
      OBVIOUS
    <3>4. req'[q] = r
      BY <2>10, <3>3, GotoMoves DEF BeginSave
    <3>5. r.at = req[q].at /\ r.id = req[q].id
      BY <3>3 DEF Shape, Request
    <3> QED BY <2>1, <2>2, <2>3, <3>1, <3>2, <3>4, <3>5 DEF Owner
  <2>11. CASE /\ UNCHANGED extractions \/ req[q].at \notin Saving
              /\ owed \subseteq owed'
              /\ req[q].at \notin {"extract", "llm"}
    <3>1. Pending(id)
      BY <1>3, <2>11, NoNewPending
    <3> QED BY <2>4, <2>11, <3>1
  <2>12. CASE UploadResume(q) \/ ReplaceResume(q) \/ DeleteResume(q) \/ ActivateCheck(q)
              \/ Retry(q) \/ TailorRead(q)
    <3>1. req[q].at = "idle"
      BY <2>12, StartMoves
      DEF UploadResume, ReplaceResume, DeleteResume, ActivateCheck, Retry, TailorRead
    <3>2. UNCHANGED owed
      BY <2>12
      DEF UploadResume, ReplaceResume, DeleteResume, ActivateCheck, Retry, TailorRead, tables
    <3> QED BY <2>11, <3>1, <3>2 DEF Saving
  <2>13. CASE AddResume(q) \/ MarkPendingFails(q) \/ BeginUpdate(q) \/ SetActiveResume(q)
              \/ SaveEmbedding(q) \/ EmbedFails(q) \/ RequestLost(q) \/ UpsertTailoredResume(q)
              \/ TailorFails(q)
    <3>1. req[q].at \in {"insert", "activate", "update", "embed", "tailor"} \/ MarkPendingFails(q)
      BY <2>13, Zenon
      DEF AddResume, BeginUpdate, SetActiveResume, SaveEmbedding, EmbedFails, RequestLost,
          UpsertTailoredResume, TailorFails, At
    <3>2. MarkPendingFails(q) => req[q].at = "markPending" /\ UNCHANGED extractions
      BY DEF MarkPendingFails, At, tables
    <3>3. owed \subseteq owed'
      BY <2>13
      DEF AddResume, MarkPendingFails, BeginUpdate, SetActiveResume, SaveEmbedding, EmbedFails,
          RequestLost, UpsertTailoredResume, TailorFails, tables
    <3> QED BY <2>11, <3>1, <3>2, <3>3 DEF Saving
  <2> QED BY <1>3, <2>5, <2>6, <2>7, <2>8, <2>9, <2>10, <2>12, <2>13 DEF Acts, Begin, Proceed
<1> QED BY <1>1, <1>2, <1>3 DEF Next, Acts

\* A pending extraction has a request working on it, or one that the client still
\* owes, or was left pending by a request that failed or was killed
\* (UpsertResumeExtractionPending marks it at an upload, a replacement and a
\* retry): no order in which overlapping extractions finish leaves another one.
THEOREM PendingExtractionsHaveOwners == Spec => []PendingHasOwner
<1>1. Init => Shape /\ PendingHasOwner
  BY ShapeInit DEF Init, PendingHasOwner, Empty
<1>2. Shape /\ PendingHasOwner /\ [Next]_all => (Shape /\ PendingHasOwner)'
  BY ShapeStep, OwnersStep
<1> QED BY <1>1, <1>2, PTL DEF Spec, all

-----------------------------------------------------------------------------
(* One active resume.                                                      *)

\* Fewer uploads, activations, resumes and active ones.
LEMMA FewerKeepAlone ==
  ASSUME AloneAndFirst, crowded => crowded', ActivationsCross' => crowded',
         \A q \in Requests :
           req'[q].at \in {"insert", "update"} => req'[q] = req[q],
         Stored' \subseteq Stored, Active' \subseteq Active
  PROVE  AloneAndFirst'
<1>1. /\ \A q \in Uploads' : q \in Uploads /\ req'[q] = req[q]
      /\ \A q \in Requests : At(q, "update")' => At(q, "update") /\ req'[q] = req[q]
  BY DEF Uploads, At
<1> QED BY <1>1 DEF AloneAndFirst

LEMMA AloneStep == Shape /\ AloneAndFirst /\ [Next]_all => AloneAndFirst'
<1> SUFFICES ASSUME Shape, AloneAndFirst, [Next]_all
             PROVE  AloneAndFirst'
  OBVIOUS
<1>1. CASE UNCHANGED all
  BY <1>1, Stutters DEF AloneAndFirst, Active, Stored, Uploads, At, ActivationsCross
<1> SUFFICES ASSUME Next
             PROVE  AloneAndFirst'
  BY <1>1
<1>2. /\ crowded => crowded'
      /\ FirstIsNotAlone' => crowded'
      /\ ActivationsCross' => crowded'
  BY DEF Next, Remember
<1>3. ASSUME NEW id \in Ids, FollowUpMissing(id)
      PROVE  AloneAndFirst'
  BY <1>2, <1>3, OwedOnly, FewerKeepAlone DEF Active, Stored
<1>4. ASSUME NEW q \in Requests, Acts(q)
      PROVE  AloneAndFirst'
  <2>1. \A p \in Requests \ {q} : req'[p] = req[p]
    BY <1>4, ActsMove
  <2>2. CASE UploadResume(q)
    <3>1. UNCHANGED resumes
      BY <2>2 DEF UploadResume, tables
    <3>2. PICK file \in Files :
            Start(q, [Idle EXCEPT !.at = "insert", !.file = file, !.first = (Stored = {})])
      BY <2>2 DEF UploadResume
    <3>3. PICK r : r = [Idle EXCEPT !.at = "insert", !.file = file, !.first = (Stored = {})]
      OBVIOUS
    <3>4. req'[q] = r
      BY <3>2, <3>3, StartMoves
    <3>5. r.at = "insert" /\ (r.first => Stored = {})
      BY <3>3 DEF Idle
    <3>6. q \in Uploads'
      BY <3>4, <3>5 DEF Uploads, At
    <3>7. ASSUME ~crowded', NEW p \in Uploads', req'[p].first
          PROVE  Uploads' = {p} /\ Stored' = {}
      <4>1. Uploads' = {p}
        BY <1>2, <3>7 DEF FirstIsNotAlone
      <4>2. p = q
        BY <3>6, <4>1
      <4> QED BY <3>1, <3>4, <3>5, <3>7, <4>1, <4>2 DEF Stored
    <3>8. \A p \in Requests : At(p, "update")' => At(p, "update") /\ req'[p] = req[p]
      BY <2>1, <3>4, <3>5 DEF At
    <3> QED BY <1>2, <3>1, <3>7, <3>8 DEF AloneAndFirst, Active, Stored
  <2>3. CASE BeginUpdate(q)
    <3>1. UNCHANGED resumes /\ Goto(q, [req[q] EXCEPT !.at = "update", !.seen = Stored])
      BY <2>3 DEF BeginUpdate, tables
    <3>2. PICK r : r = [req[q] EXCEPT !.at = "update", !.seen = Stored]
      OBVIOUS
    <3>3. req'[q] = r
      BY <3>1, <3>2, GotoMoves
    <3>4. r.at = "update" /\ r.seen = Stored
      BY <3>2 DEF Shape, Request
    <3>5. Active' \subseteq req'[q].seen
      BY <3>1, <3>3, <3>4 DEF Active, Stored
    <3>6. \A p \in Uploads' : p \in Uploads /\ req'[p] = req[p]
      BY <2>1, <3>3, <3>4 DEF Uploads, At
    <3>7. \A p \in Requests \ {q} : At(p, "update")' => At(p, "update") /\ req'[p] = req[p]
      BY <2>1 DEF At
    <3> QED BY <1>2, <3>1, <3>5, <3>6, <3>7 DEF AloneAndFirst, Active, Stored
  <2>4. CASE ~UploadResume(q) /\ ~BeginUpdate(q)
    <3>1. \A p \in Requests :
            req'[p].at \in {"insert", "update"} => p # q /\ req'[p] = req[p]
      BY <1>4, <2>1, <2>4, ActsMove
    <3>2. ASSUME Stored' \subseteq Stored, Active' \subseteq Active
          PROVE  AloneAndFirst'
      BY <1>2, <3>1, <3>2, FewerKeepAlone
    <3>3. \A p \in Uploads' : p \in Uploads \ {q} /\ req'[p] = req[p]
      BY <3>1 DEF Uploads, At
    <3>4. \A p \in Requests : At(p, "update")' => At(p, "update") /\ p # q /\ req'[p] = req[p]
      BY <3>1 DEF At
    <3>5. CASE AddResume(q)
      <4>1. PICK id \in Ids \ used :
              resumes' = Put(resumes, id, [content |-> req[q].file, active |-> req[q].first])
        BY <3>5 DEF AddResume
      <4>2. Stored' = Stored \cup {id} /\ (id \in Active' => req[q].first)
        BY <4>1 DEF Put, Stored, Active
      <4>3. \A other \in Active' : other = id \/ other \in Active
        BY <4>1, <4>2 DEF Put, Stored, Active
      <4>4. q \in Uploads
        BY <3>5 DEF AddResume, Uploads
      <4>5. \A p \in Requests : At(p, "update") => req[p].id # id
        BY <4>1 DEF Shape, At, OnResume
      <4>6. ASSUME ~crowded'
            PROVE  /\ \A a, b \in Active' : a = b
                   /\ \A p \in Uploads' : ~req'[p].first
                   /\ \A p \in Requests :
                        At(p, "update")' => Active' \subseteq req'[p].seen \/ req'[p].id \notin Stored'
        <5>1. \A p \in Uploads' : ~req'[p].first
          BY <1>2, <3>3, <4>4, <4>6 DEF AloneAndFirst
        <5>2. CASE req[q].first
          <6>1. Stored = {} /\ Active = {}
            BY <1>2, <4>4, <4>6, <5>2 DEF AloneAndFirst, Active
          <6> QED BY <3>4, <4>2, <4>3, <4>5, <5>1, <6>1
        <5>3. CASE ~req[q].first
          <6>1. Active' \subseteq Active
            BY <4>2, <4>3, <5>3
          <6> QED BY <1>2, <3>4, <4>2, <4>5, <4>6, <5>1, <6>1 DEF AloneAndFirst
        <5> QED BY <5>2, <5>3
      <4> QED BY <1>2, <4>6 DEF AloneAndFirst
    <3>6. CASE SetActiveResume(q)
      <4>1. /\ At(q, "update")
            /\ resumes' = [id \in Stored |->
                 IF id \in req[q].seen
                 THEN [resumes[id] EXCEPT !.active = (id = req[q].id)] ELSE resumes[id]]
        BY <3>6 DEF SetActiveResume
      <4>2. Stored' = Stored
        BY <4>1 DEF Stored
      <4>3. ASSUME NEW id \in Active'
            PROVE  IF id \in req[q].seen THEN id = req[q].id ELSE id \in Active
        <5>1. id \in Stored /\ resumes'[id].active
          BY <4>2 DEF Active
        <5>2. resumes[id] \in Resume
          BY <5>1 DEF Shape, TablesOK
        <5>3. CASE id \in req[q].seen
          <6>1. PICK row : row = [resumes[id] EXCEPT !.active = (id = req[q].id)]
            OBVIOUS
          <6>2. row.active <=> id = req[q].id
            BY <5>2, <6>1 DEF Resume
          <6>3. resumes'[id] = row
            BY <4>1, <5>1, <5>3, <6>1
          <6> QED BY <5>1, <5>3, <6>2, <6>3
        <5>4. CASE id \notin req[q].seen
          BY <4>1, <5>1, <5>4 DEF Active
        <5> QED BY <5>3, <5>4
      <4>4. ASSUME ~crowded'
            PROVE  /\ \A a, b \in Active' : a = b
                   /\ \A p \in Requests :
                        At(p, "update")' => Active' \subseteq req'[p].seen \/ req'[p].id \notin Stored'
        <5>1. CASE Active \subseteq req[q].seen
          <6>1. \A id \in Active' : id = req[q].id
            BY <4>3, <5>1
          <6>2. \A p \in Requests : At(p, "update") => req[q].id \in req[p].seen
            BY <1>2, <4>1, <4>4 DEF AloneAndFirst, ActivationsCross
          <6> QED BY <3>4, <6>1, <6>2
        <5>2. CASE req[q].id \notin Stored
          <6>1. Active' \subseteq Stored
            BY <4>2 DEF Active
          <6>2. Active' \subseteq Active
            BY <4>3, <5>2, <6>1
          <6> QED BY <1>2, <3>4, <4>2, <4>4, <6>2 DEF AloneAndFirst
        <5> QED BY <1>2, <4>1, <4>4, <5>1, <5>2 DEF AloneAndFirst
      <4>5. ASSUME ~crowded', NEW p \in Uploads', req'[p].first
            PROVE  Uploads' = {p} /\ Stored' = {}
        BY <1>2, <3>3, <4>2, <4>5 DEF AloneAndFirst
      <4> QED BY <1>2, <4>4, <4>5 DEF AloneAndFirst
    <3>7. CASE ReplaceResume(q)
      <4>1. PICK id \in Stored, file \in Files : resumes' = [resumes EXCEPT ![id].content = file]
        BY <3>7 DEF ReplaceResume
      <4>2. PICK old \in Resume : old = resumes[id]
        BY DEF Shape, TablesOK
      <4>3. PICK row : row = [old EXCEPT !.content = file]
        OBVIOUS
      <4>4. row.active = old.active
        BY <4>3 DEF Resume
      <4>5. resumes' = [resumes EXCEPT ![id] = row]
        BY <4>1, <4>2, <4>3, Zenon
      <4>6. Stored' = Stored /\ \A other \in Stored : resumes'[other].active = resumes[other].active
        BY <4>2, <4>4, <4>5 DEF Shape, TablesOK, Stored
      <4> QED BY <3>2, <4>6 DEF Active
    <3>8. CASE DeleteResume(q)
      <4>1. PICK id \in Stored : resumes' = Remove(resumes, id)
        BY <3>8 DEF DeleteResume
      <4> QED BY <3>2, <4>1 DEF Remove, Stored, Active
    <3>9. CASE UNCHANGED resumes
      BY <3>2, <3>9 DEF Stored, Active
    <3>10. \/ AddResume(q) \/ SetActiveResume(q) \/ ReplaceResume(q) \/ DeleteResume(q)
           \/ UNCHANGED resumes
      BY <1>4, <2>4, Zenon
      DEF Acts, Begin, Proceed, BeginSave, MarkPending, MarkPendingFails, UpsertTailoredResume,
          ExtractMarkPending, SaveResult, SaveFailure, SaveEmbedding, EmbedFails,
          SaveFails, TailorFails, ActivateCheck, FollowUp, Retry, TailorRead,
          RequestLost, tables
    <3> QED BY <3>5, <3>6, <3>7, <3>8, <3>9, <3>10
  <2> QED BY <2>2, <2>3, <2>4
<1> QED BY <1>3, <1>4 DEF Next, Acts

\* Two resumes of a profile are active only after an upload that saw none of its
\* resumes overlapped another upload (AddResume's INSERT decides from its own
\* snapshot), or two activations overlapped and the UPDATE of one had not seen the
\* resume of the other (SetActiveResume changes the rows its statement saw): no
\* other order of uploads, activations, replacements and deletions makes two.
THEOREM OneResumeIsActive == Spec => []OneActive
<1> DEFINE Inv == Shape /\ AloneAndFirst
<1>1. Init => Inv
  BY ShapeInit
  DEF Init, AloneAndFirst, Active, Stored, Uploads, At, Empty, Idle, ActivationsCross
<1>2. Inv /\ [Next]_all => Inv'
  BY ShapeStep, AloneStep
<1>3. Inv => OneActive
  BY DEF AloneAndFirst, OneActive
<1> QED BY <1>1, <1>2, <1>3, PTL DEF Spec, all

=============================================================================
