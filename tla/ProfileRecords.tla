--------------------------- MODULE ProfileRecords ---------------------------
(***************************************************************************)
(* The records of one profile, its skills, education, work experience and  *)
(* the bullets of that (database/profile_*.go behind server/profiles.go),  *)
(* and the two things a browser does to them: one edit at a time, and      *)
(* "Apply to profile", which merges the extraction of a resume into the    *)
(* profile request by request (api/profile-merge.ts).                      *)
(*                                                                         *)
(* A merge is planned from the profile the browser has in its cache: the   *)
(* requests it will send depend on nothing else, but for the id of an      *)
(* entry it has just added.  Every request is one or two autocommitted     *)
(* statements.  A request the browser has given up is over at the server   *)
(* too, which cancels its context.                                         *)
(*                                                                         *)
(* A name is a pair: what is compared ignoring case, and how it is spelled.*)
(* One name stands for company and job title, one for school, major and    *)
(* degree.                                                                 *)
(***************************************************************************)
EXTENDS Integers, FiniteSets, Sequences, SequencesExt

CONSTANTS
  Panels,       \* places in browsers a merge or an edit starts from
  Profiles,     \* the profiles to begin with
  Extractions,  \* the extractions to be merged
  EditNames,    \* the names, dates and bullet texts a user enters
  EditDates,
  EditTexts,
  Empty,        \* a name that was not filled in
  NoDate,       \* NULL, or a date that is not written as one
  BadDate,      \* written as a date, and none: the 30th of February
  MaxOps,       \* bound: merges and edits started
  MaxFaults     \* bound: requests that fail or whose answer is lost

\* A sequence has given out the ids there are, and a bullet's entry is there.
ASSUME ProfilesAssumption ==
  \A profile \in Profiles :
    /\ profile.nextId \in Nat
    /\ DOMAIN profile.skills \cup DOMAIN profile.education
         \cup DOMAIN profile.work \cup DOMAIN profile.bullets \subseteq 0..(profile.nextId - 1)
    /\ \A b \in DOMAIN profile.bullets : profile.bullets[b].work \in DOMAIN profile.work

\* An extraction is made of lists.
ASSUME ExtractionsAssumption ==
  \A x \in Extractions :
    /\ x.skills \in Seq(Range(x.skills)) /\ x.education \in Seq(Range(x.education))
    /\ x.work \in Seq(Range(x.work))
    /\ \A i \in DOMAIN x.work : IsFiniteSet(x.work[i].bullets)

VARIABLES
  basic,        \* table profiles: its name, and whether the digest is wanted
  skills,       \* table profiles_skills: id -> name
  education,    \* table profiles_education: id -> name, start, end
  work,         \* table profiles_work_experience: id -> name, start, end
  bullets,      \* table profiles_work_experience_bullets: id -> work, text
  nextId,       \* the tables' sequences, as one
  cache,        \* the profile each panel shows
  mode,         \* what a panel is doing
  todo,         \* the requests it has still to send, the first being served
  half,         \* whether the first statement of that request has run
  extraction,   \* what is merged
  ops, faults   \* how many there have been: merges and edits, faults

\* History variables: they record what happened and no action reads them.
VARIABLES
  clean,        \* since base, only merges wrote, one at a time, from what is stored
  base,         \* the profile when those merges began
  settled,      \* the last of them completed, and nothing has happened since
  refilled,     \* work ids that got a bullet half way through their deletion
  stripped      \* work ids whose deletion ended half way, no request having failed

tables == <<basic, skills, education, work, bullets, nextId>>
clients == <<cache, mode, todo, half>>
counts == <<ops, faults>>
history == <<clean, base, settled, refilled, stripped>>
vars == <<tables, clients, extraction, counts, history>>

Stored == [basic |-> basic, skills |-> skills, education |-> education,
           work |-> work, bullets |-> bullets]

Key(name) == name[1]

Put(rows, id, row) == [i \in DOMAIN rows \cup {id} |-> IF i = id THEN row ELSE rows[i]]
Drop(rows, ids) == [i \in DOMAIN rows \ ids |-> rows[i]]
Matching(rows, name) == {id \in DOMAIN rows : Key(rows[id].name) = Key(name)}

\* The texts of an entry's bullets.
BulletsOf(profile, id) ==
  {b \in DOMAIN profile.bullets : profile.bullets[b].work = id}
Texts(profile, id) == {profile.bullets[b].text : b \in BulletsOf(profile, id)}

Init ==
  /\ \E profile \in Profiles :
       /\ basic = profile.basic
       /\ skills = profile.skills
       /\ education = profile.education
       /\ work = profile.work
       /\ bullets = profile.bullets
       /\ nextId = profile.nextId
       /\ cache = [p \in Panels |-> Stored]
       /\ base = Stored
  /\ extraction \in Extractions
  /\ mode = [p \in Panels |-> "none"]
  /\ todo = [p \in Panels |-> << >>]
  /\ half = [p \in Panels |-> FALSE]
  /\ ops = 0
  /\ faults = 0
  /\ clean = FALSE
  /\ settled = FALSE
  /\ refilled = {}
  /\ stripped = {}

-----------------------------------------------------------------------------
(* What a merge of extraction x will send, given the cached profile c.     *)

\* asDate, and what is kept where there is none.
AsDate(date, kept) == IF date = NoDate THEN kept ELSE date

\* ORDER BY start_date DESC NULLS LAST, id.
ListedAfter(rows, i, j) ==
  LET s == rows[i].start  t == rows[j].start
  IN \/ s = t /\ i > j
     \/ s # t /\ (s = NoDate \/ (t # NoDate /\ s < t))

\* Of several entries of one key, a Map keeps the one listed last.
Existing(rows, name) ==
  CHOOSE id \in Matching(rows, name) :
    \A other \in Matching(rows, name) \ {id} : ListedAfter(rows, id, other)

\* mergeBasicInfo: only what is empty is filled in, and all of it is sent.
BasicPlan(c, x) ==
  IF c.basic.name = Empty /\ x.name # Empty
  THEN <<[op |-> "updateProfile", basic |-> [name |-> x.name, wanted |-> c.basic.wanted]]>>
  ELSE << >>

\* A fault: the skills already there are compared as they are spelled.
SkillPlanExact(c, x) ==
  FlattenSeq([i \in DOMAIN x.skills |->
    IF x.skills[i] \in {c.skills[id].name : id \in DOMAIN c.skills}
    THEN << >> ELSE <<[op |-> "addSkill", name |-> x.skills[i]]>>])

SkillPlan(c, x) ==
  FlattenSeq([i \in DOMAIN x.skills |->
    IF \/ Matching(c.skills, x.skills[i]) # {}
       \/ \E j \in 1..(i - 1) : Key(x.skills[j]) = Key(x.skills[i])
    THEN << >> ELSE <<[op |-> "addSkill", name |-> x.skills[i]]>>])

\* What an entry becomes: the extraction's dates where it has any.
Overlaid(row, entry) ==
  [name |-> entry.name, start |-> AsDate(entry.start, row.start), end |-> AsDate(entry.end, row.end)]

SameDates(row, other) == row.start = other.start /\ row.end = other.end

NewRow(entry) == [name |-> entry.name, start |-> entry.start, end |-> entry.end]

\* A fault: an entry that is there is sent whether or not its dates change.
EducationPlanAlways(c, x) ==
  FlattenSeq([i \in DOMAIN x.education |->
    LET entry == x.education[i]
        id == Existing(c.education, entry.name)
    IN IF Matching(c.education, entry.name) = {}
       THEN <<[op |-> "addEducation", row |-> NewRow(entry)]>>
       ELSE <<[op |-> "updateEducation", id |-> id, row |-> Overlaid(c.education[id], entry)]>>])

EducationPlan(c, x) ==
  FlattenSeq([i \in DOMAIN x.education |->
    LET entry == x.education[i]
        id == Existing(c.education, entry.name)
    IN IF Matching(c.education, entry.name) = {}
       THEN <<[op |-> "addEducation", row |-> NewRow(entry)]>>
       ELSE IF SameDates(c.education[id], Overlaid(c.education[id], entry))
       THEN << >>
       ELSE <<[op |-> "updateEducation", id |-> id, row |-> Overlaid(c.education[id], entry)]>>])

AddBullets(id, texts) ==
  LET list == SetToSeq(texts)
  IN [i \in DOMAIN list |-> [op |-> "addBullet", work |-> id, text |-> list[i]]]

DeleteBullets(ids) ==
  LET list == SetToSeq(ids)
  IN [i \in DOMAIN list |-> [op |-> "deleteBullet", id |-> list[i]]]

\* An entry that is there: its dates, the bullets it lacks, then those the
\* extraction lacks.
SyncWork(c, id, entry) ==
  (IF SameDates(c.work[id], Overlaid(c.work[id], entry)) THEN << >>
   ELSE <<[op |-> "updateWork", id |-> id, row |-> Overlaid(c.work[id], entry)]>>)
  \o AddBullets(id, entry.bullets \ Texts(c, id))
  \o DeleteBullets({b \in BulletsOf(c, id) : c.bullets[b].text \notin entry.bullets})

\* A new entry and its bullets: until it has an id, its place stands for it.
AddEntry(i, entry) ==
  <<[op |-> "addWork", row |-> NewRow(entry), place |-> i]>> \o AddBullets(-i, entry.bullets)

\* A fault: an entry that is there keeps the bullets the extraction lacks.
WorkPlanKeeping(c, x) ==
  FlattenSeq([i \in DOMAIN x.work |->
    LET entry == x.work[i]
        id == Existing(c.work, entry.name)
    IN IF Matching(c.work, entry.name) = {}
       THEN AddEntry(i, entry)
       ELSE AddBullets(id, entry.bullets \ Texts(c, id))])

WorkPlan(c, x) ==
  FlattenSeq([i \in DOMAIN x.work |->
    LET entry == x.work[i]
        id == Existing(c.work, entry.name)
    IN IF Matching(c.work, entry.name) = {}
       THEN AddEntry(i, entry)
       ELSE SyncWork(c, id, entry)])

MergePlan(c, x) == BasicPlan(c, x) \o SkillPlan(c, x) \o EducationPlan(c, x) \o WorkPlan(c, x)

-----------------------------------------------------------------------------
(* The browser.                                                            *)

\* Another fetch of the profile: after a change that succeeded, on focus.  Past
\* the bound on merges and edits nothing is planned from it.
Load(p) ==
  /\ cache[p] # Stored
  /\ ops < MaxOps
  /\ cache' = [cache EXCEPT ![p] = Stored]
  /\ UNCHANGED <<tables, mode, todo, half, extraction, counts, history>>

Quiet == \A p \in Panels : mode[p] = "none"

\* "Apply to profile": a plan without requests is over at once.
StartMerge(p) ==
  /\ mode[p] = "none"
  /\ ops < MaxOps
  /\ ops' = ops + 1
  /\ LET plan == MergePlan(cache[p], extraction)
     IN /\ todo' = [todo EXCEPT ![p] = plan]
        /\ mode' = [mode EXCEPT ![p] = IF plan = << >> THEN "none" ELSE "merge"]
        /\ clean' = (Quiet /\ cache[p] = Stored)
        /\ settled' = (clean' /\ plan = << >>)
        /\ base' = IF clean' /\ ~clean THEN Stored ELSE base
  /\ UNCHANGED <<tables, cache, half, extraction, faults, refilled, stripped>>

\* What a user can ask for: additions, and changes of what the panel shows.
Rows == [name : EditNames, start : EditDates, end : EditDates]
Edits(c) ==
  {[op |-> "updateProfile", basic |-> [name |-> c.basic.name, wanted |-> ~c.basic.wanted]]}
  \cup [op : {"addSkill"}, name : EditNames]
  \cup [op : {"deleteSkill"}, id : DOMAIN c.skills]
  \cup [op : {"addEducation"}, row : Rows] \cup [op : {"addWork"}, row : Rows, place : {0}]
  \cup [op : {"updateEducation"}, id : DOMAIN c.education, row : Rows]
  \cup [op : {"deleteEducation"}, id : DOMAIN c.education]
  \cup [op : {"updateWork"}, id : DOMAIN c.work, row : Rows]
  \cup [op : {"deleteWork"}, id : DOMAIN c.work]
  \cup [op : {"addBullet"}, work : DOMAIN c.work, text : EditTexts]
  \cup [op : {"updateBullet"}, id : DOMAIN c.bullets, text : EditTexts]
  \cup [op : {"deleteBullet"}, id : DOMAIN c.bullets]

StartEdit(p) ==
  /\ mode[p] = "none"
  /\ ops < MaxOps
  /\ ops' = ops + 1
  /\ \E request \in Edits(cache[p]) : todo' = [todo EXCEPT ![p] = <<request>>]
  /\ mode' = [mode EXCEPT ![p] = "edit"]
  /\ clean' = FALSE
  /\ settled' = FALSE
  /\ UNCHANGED <<tables, cache, half, extraction, faults, base, refilled, stripped>>

Serving(p, op) == mode[p] # "none" /\ Head(todo[p]).op = op
Request(p) == Head(todo[p])

\* The answer reaches the panel or is lost.  An error ends a merge where it is.
Answer(p, ok, rest) ==
  \E heard \in BOOLEAN :
    /\ heard \/ faults < MaxFaults
    /\ faults' = IF heard THEN faults ELSE faults + 1
    /\ LET more == IF ok /\ heard THEN rest ELSE << >>
       IN /\ todo' = [todo EXCEPT ![p] = more]
          /\ mode' = [mode EXCEPT ![p] = IF more = << >> THEN "none" ELSE @]
          /\ settled' = (ok /\ heard /\ rest = << >> /\ mode[p] = "merge" /\ clean)
    /\ cache' = IF ok /\ heard /\ Serving(p, "updateProfile") /\ mode[p] = "edit"
                THEN [cache EXCEPT ![p].basic = Request(p).basic] ELSE cache
    /\ half' = [half EXCEPT ![p] = FALSE]
    /\ UNCHANGED <<extraction, ops, clean, base>>

Done(p, ok) == Answer(p, ok, Tail(todo[p]))

\* A request fails before its next statement.
Fail(p) ==
  /\ mode[p] # "none"
  /\ faults < MaxFaults
  /\ faults' = faults + 1
  /\ todo' = [todo EXCEPT ![p] = << >>]
  /\ mode' = [mode EXCEPT ![p] = "none"]
  /\ half' = [half EXCEPT ![p] = FALSE]
  /\ UNCHANGED <<tables, cache, extraction, ops, history>>

-----------------------------------------------------------------------------
(* The statements: the table they leave, and whether they succeed.         *)

Success(rows) == [ok |-> TRUE, rows |-> rows]
Failure(rows) == [ok |-> FALSE, rows |-> rows]
Outcome(ok, rows, before) == IF ok THEN Success(rows) ELSE Failure(before)

\* parseOptionalDate, of both dates.
ValidDates(row) == row.start # BadDate /\ row.end # BadDate

\* INSERT ... ON CONFLICT DO UPDATE: the row in the way, or a new one.
TargetId(inTheWay) == IF inTheWay = {} THEN nextId ELSE CHOOSE id \in inTheWay : TRUE
Upsert(rows, row, inTheWay) == Put(rows, TargetId(inTheWay), row)

\* What the unique indexes compare: entries without a start date never collide.
SameSkill(name) == {id \in DOMAIN skills : skills[id].name = name}
SameEducation(row) == {id \in DOMAIN education : education[id].name = row.name}
SameWork(row) ==
  {id \in DOMAIN work : row.start # NoDate /\ work[id].name = row.name /\ work[id].start = row.start}
SameBullet(id, text) == {b \in DOMAIN bullets : bullets[b] = [work |-> id, text |-> text]}

\* The profile's own row, all columns of it.
StoreProfile(row) == basic' = row

InsertSkill(name) == Success(Upsert(skills, [name |-> name], SameSkill(name)))

RemoveSkill(id) == Outcome(id \in DOMAIN skills, Drop(skills, {id}), skills)

InsertEducation(row) ==
  Outcome(ValidDates(row), Upsert(education, row, SameEducation(row)), education)

\* Fails on bad dates, on a row that is gone, and on the unique index.
ChangeEducation(id, row) ==
  Outcome(ValidDates(row) /\ id \in DOMAIN education /\ SameEducation(row) \subseteq {id},
          Put(education, id, row), education)

RemoveEducation(id) == Outcome(id \in DOMAIN education, Drop(education, {id}), education)

InsertWork(row) == Outcome(ValidDates(row), Upsert(work, row, SameWork(row)), work)

ChangeWork(id, row) ==
  Outcome(ValidDates(row) /\ id \in DOMAIN work /\ SameWork(row) \subseteq {id},
          Put(work, id, row), work)

\* The second statement of DeleteWorkExperience: no bullet may refer to the row.
RemoveWork(id) ==
  Outcome(id \in DOMAIN work /\ BulletsOf(Stored, id) = {}, Drop(work, {id}), work)

\* The second statement of AddWorkExperienceBullet: the entry may be gone.
InsertBullet(id, text) ==
  Outcome(id \in DOMAIN work,
          Upsert(bullets, [work |-> id, text |-> text], SameBullet(id, text)), bullets)

ChangeBullet(b, text) ==
  LET found == b \in DOMAIN bullets
  IN Outcome(found /\ SameBullet(bullets[b].work, text) \subseteq {b},
             Put(bullets, b, [work |-> bullets[b].work, text |-> text]), bullets)

RemoveBullet(b) == Outcome(b \in DOMAIN bullets, Drop(bullets, {b}), bullets)

-----------------------------------------------------------------------------
(* The server's handlers.                                                  *)

UpdateProfile(p) ==
  /\ Serving(p, "updateProfile")
  /\ StoreProfile(Request(p).basic)
  /\ Done(p, TRUE)
  /\ UNCHANGED <<skills, education, work, bullets, nextId, refilled, stripped>>

StoreSkills(p, result) ==
  /\ skills' = result.rows
  /\ nextId' = nextId + 1
  /\ Done(p, result.ok)
  /\ UNCHANGED <<basic, education, work, bullets, refilled, stripped>>

StoreEducation(p, result) ==
  /\ education' = result.rows
  /\ nextId' = nextId + 1
  /\ Done(p, result.ok)
  /\ UNCHANGED <<basic, skills, work, bullets, refilled, stripped>>

AddSkill(p) == Serving(p, "addSkill") /\ StoreSkills(p, InsertSkill(Request(p).name))
DeleteSkill(p) == Serving(p, "deleteSkill") /\ StoreSkills(p, RemoveSkill(Request(p).id))

AddEducation(p) ==
  Serving(p, "addEducation") /\ StoreEducation(p, InsertEducation(Request(p).row))
UpdateEducation(p) ==
  /\ Serving(p, "updateEducation")
  /\ StoreEducation(p, ChangeEducation(Request(p).id, Request(p).row))
DeleteEducation(p) ==
  Serving(p, "deleteEducation") /\ StoreEducation(p, RemoveEducation(Request(p).id))

WithId(request, i, id) ==
  IF request.op = "addBullet" /\ request.work = -i THEN [request EXCEPT !.work = id] ELSE request

\* The id it answers with goes to the bullets of the new entry.
AddWork(p) ==
  /\ Serving(p, "addWork")
  /\ LET row == Request(p).row
         id == TargetId(SameWork(row))
         rest == Tail(todo[p])
     IN /\ work' = InsertWork(row).rows
        /\ Answer(p, InsertWork(row).ok,
                  [i \in DOMAIN rest |-> WithId(rest[i], Request(p).place, id)])
  /\ nextId' = nextId + 1
  /\ UNCHANGED <<basic, skills, education, bullets, refilled, stripped>>

UpdateWork(p) ==
  /\ Serving(p, "updateWork")
  /\ LET result == ChangeWork(Request(p).id, Request(p).row)
     IN work' = result.rows /\ Done(p, result.ok)
  /\ UNCHANGED <<basic, skills, education, bullets, nextId, refilled, stripped>>

\* A first statement has run, and the request goes on.
Continue(p) ==
  /\ half' = [half EXCEPT ![p] = TRUE]
  /\ UNCHANGED <<cache, mode, todo, extraction, counts, clean, base, settled>>

\* A fault: the bullets are left to the database, which has no cascade here.
StripWorkNot(p) ==
  /\ Serving(p, "deleteWork") /\ ~half[p]
  /\ Continue(p)
  /\ UNCHANGED <<tables, refilled, stripped>>

\* The first statement of DeleteWorkExperience: the bullets.
StripWork(p) ==
  /\ Serving(p, "deleteWork") /\ ~half[p]
  /\ bullets' = Drop(bullets, BulletsOf(Stored, Request(p).id))
  /\ Continue(p)
  /\ UNCHANGED <<basic, skills, education, work, nextId, refilled, stripped>>

DeleteWork(p) ==
  /\ Serving(p, "deleteWork") /\ half[p]
  /\ LET id == Request(p).id
     IN /\ work' = RemoveWork(id).rows
        /\ stripped' = IF id \in DOMAIN work /\ ~RemoveWork(id).ok
                       THEN stripped \cup {id} ELSE stripped
        /\ Done(p, RemoveWork(id).ok)
  /\ UNCHANGED <<basic, skills, education, bullets, nextId, refilled>>

\* The first statement of AddWorkExperienceBullet: is there such an entry?
CheckWork(p) ==
  /\ Serving(p, "addBullet") /\ ~half[p]
  /\ IF Request(p).work \in DOMAIN work
     THEN Continue(p)
     ELSE Done(p, FALSE)
  /\ UNCHANGED <<tables, refilled, stripped>>

BeingDeleted(id) ==
  \E p \in Panels : Serving(p, "deleteWork") /\ half[p] /\ Request(p).id = id

AddBullet(p) ==
  /\ Serving(p, "addBullet") /\ half[p]
  /\ LET id == Request(p).work
         result == InsertBullet(id, Request(p).text)
     IN /\ bullets' = result.rows
        /\ refilled' = IF BeingDeleted(id) THEN refilled \cup {id} ELSE refilled
        /\ Done(p, result.ok)
  /\ nextId' = nextId + 1
  /\ UNCHANGED <<basic, skills, education, work, stripped>>

UpdateBullet(p) ==
  /\ Serving(p, "updateBullet")
  /\ LET result == ChangeBullet(Request(p).id, Request(p).text)
     IN bullets' = result.rows /\ Done(p, result.ok)
  /\ UNCHANGED <<basic, skills, education, work, nextId, refilled, stripped>>

DeleteBullet(p) ==
  /\ Serving(p, "deleteBullet")
  /\ LET result == RemoveBullet(Request(p).id)
     IN bullets' = result.rows /\ Done(p, result.ok)
  /\ UNCHANGED <<basic, skills, education, work, nextId, refilled, stripped>>

Serve(p) ==
  \/ UpdateProfile(p)
  \/ AddSkill(p) \/ DeleteSkill(p)
  \/ AddEducation(p) \/ UpdateEducation(p) \/ DeleteEducation(p)
  \/ AddWork(p) \/ UpdateWork(p) \/ StripWork(p) \/ DeleteWork(p)
  \/ CheckWork(p) \/ AddBullet(p) \/ UpdateBullet(p) \/ DeleteBullet(p)

Next == \E p \in Panels : Load(p) \/ StartMerge(p) \/ StartEdit(p) \/ Serve(p) \/ Fail(p)

Spec == Init /\ [][Next]_vars
-----------------------------------------------------------------------------
(* What a merge is meant to do, said without requests.                     *)

\* Every key once, in what is merged and in what it is merged into.
DistinctNames(entries) ==
  \A i, j \in DOMAIN entries : Key(entries[i].name) = Key(entries[j].name) => i = j
Distinct(profile, x) ==
  /\ DistinctNames(x.education) /\ DistinctNames(x.work)
  /\ DistinctNames(profile.education) /\ DistinctNames(profile.work)

\* An entry keeps its own dates where the extraction has none, and is spelled
\* as the extraction spells it if any date changes.
MergedRow(row, entries) ==
  LET matches == {i \in DOMAIN entries : Key(entries[i].name) = Key(row.name)}
  IN IF matches = {} THEN row
     ELSE LET new == Overlaid(row, entries[CHOOSE i \in matches : TRUE])
          IN IF SameDates(row, new) THEN row ELSE new

Added(rows, entries) == {i \in DOMAIN entries : Matching(rows, entries[i].name) = {}}

MergedBullets(profile, id, entries) ==
  LET matches == {i \in DOMAIN entries : Key(entries[i].name) = Key(profile.work[id].name)}
  IN IF matches = {} THEN Texts(profile, id) ELSE entries[CHOOSE i \in matches : TRUE].bullets

FirstOfKey(names, i) == \A j \in 1..(i - 1) : Key(names[j]) # Key(names[i])

\* The merged profile, ids aside.
Merged(profile, x) ==
  [name |-> IF profile.basic.name = Empty THEN x.name ELSE profile.basic.name,
   wanted |-> profile.basic.wanted,
   skills |-> {profile.skills[id].name : id \in DOMAIN profile.skills}
              \cup {x.skills[i] : i \in {j \in DOMAIN x.skills :
                      Matching(profile.skills, x.skills[j]) = {} /\ FirstOfKey(x.skills, j)}},
   education |-> {MergedRow(profile.education[id], x.education) : id \in DOMAIN profile.education}
                 \cup {NewRow(x.education[i]) : i \in Added(profile.education, x.education)},
   work |-> {<<MergedRow(profile.work[id], x.work), MergedBullets(profile, id, x.work)>> :
               id \in DOMAIN profile.work}
            \cup {<<NewRow(x.work[i]), x.work[i].bullets>> : i \in Added(profile.work, x.work)}]

Content(profile) ==
  [name |-> profile.basic.name,
   wanted |-> profile.basic.wanted,
   skills |-> {profile.skills[id].name : id \in DOMAIN profile.skills},
   education |-> {profile.education[id] : id \in DOMAIN profile.education},
   work |-> {<<profile.work[id], Texts(profile, id)>> : id \in DOMAIN profile.work}]

-----------------------------------------------------------------------------
(* Properties.                                                             *)

\* A merge that fails half way may be repeated.  However many merges of the same
\* resume ran one after the other, each from the profile as stored, and wherever
\* the earlier ones broke off, once one completes the profile is what a single
\* merge was to make of it.  (Api/profile-merge.ts and all handlers behind it.)
MergeResult ==
  settled /\ Distinct(base, extraction) => Content(Stored) = Merged(base, extraction)

\* A merge that completed leaves nothing to do: pressing "Apply to profile" again
\* sends no request.
RepeatIsQuiet ==
  settled /\ Distinct(base, extraction) => MergePlan(Stored, extraction) = << >>

CountOf(rows, key) == Cardinality({id \in DOMAIN rows : Key(rows[id].name) = key})

NoneTwice(rows, before) ==
  \A id \in DOMAIN rows :
    LET key == Key(rows[id].name)
    IN CountOf(rows, key) > 1 => CountOf(rows, key) <= CountOf(before, key)

\* While merges run like that, and after any of them failed anywhere, nothing is
\* there twice that was not before, no entry is lost, and no bullet but those the
\* extraction lacks: not even entries without a start date, which no unique index
\* keeps apart, so that only the comparison with the profile does.
HalfMergeIsSafe ==
  clean /\ Distinct(base, extraction) =>
    /\ NoneTwice(skills, base.skills)
    /\ NoneTwice(education, base.education)
    /\ NoneTwice(work, base.work)
    /\ \A id \in DOMAIN base.skills : id \in DOMAIN skills
    /\ \A id \in DOMAIN base.education : id \in DOMAIN education
    /\ \A id \in DOMAIN base.work :
         /\ id \in DOMAIN work
         /\ \A i \in DOMAIN extraction.work :
              Key(extraction.work[i].name) = Key(base.work[id].name) =>
                Texts(base, id) \cap extraction.work[i].bullets \subseteq Texts(Stored, id)

\* The deletion of an entry is two statements without a transaction.  Unless a
\* request fails between them, it ends half way, with the bullets gone and the
\* entry still there, only if a bullet was added to the entry between them.
HalfDeletedOnlyIfRefilled == stripped \subseteq refilled

=============================================================================
