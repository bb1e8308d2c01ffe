------------------------------ MODULE JobDigest ------------------------------
(***************************************************************************)
(* The email digest (digest/digest.go, database/digest.go) running beside  *)
(* the scrape cycles of JobStore.  The two share the jobs table, which the *)
(* digest searches as JobSearch says, and nothing else: the digest reads   *)
(* what has committed, and decides what is new by comparing first_seen_at  *)
(* with the time of its last email.  The database dates the rows (NOW()),  *)
(* and the host a digest runs on dates its emails (time.Now()): each time  *)
(* it reads its clock, that is ahead of the database's or behind.          *)
(*                                                                         *)
(* One run at a time: schedule.Every calls it from one goroutine, and the  *)
(* hosted schedule keeps digests in one concurrency group.                 *)
(***************************************************************************)
EXTENDS JobSearch

CONSTANTS
  Never,       \* NULL last_digest_sent_at
  JobLimit,    \* jobLimit
  Lookback,    \* firstRunLookback
  Drifts       \* how far a digest's clock is ahead of the database's; less than 0: behind

ASSUME NeverAssumption == Never \notin Int
ASSUME LookbackAssumption == Lookback \in Nat
ASSUME DriftAssumption == Drifts \subseteq Int

VARIABLES
  optedIn,     \* profiles with email_notifications_enabled
  lastSent,    \* last_digest_sent_at of each profile
  dpc,         \* where the running digest is: "idle", "profile", "send", "mark"
  listed,      \* profiles of this run not served yet
  current,     \* the profile being served
  matched,     \* the jobs its search found, as <<url, firstSeen>> rows
  sentAt       \* the time the mark will store

\* History variables.
VARIABLES
  mailed,      \* <<profile, row>>: rows ever emailed
  unmarked,    \* profiles whose last email was not followed by its mark
  takenAt,     \* the database's time when sentAt was read
  markedAt     \* the database's time when each profile's stored mark was read

digestVars == <<optedIn, lastSent, dpc, listed, current, matched, sentAt,
                mailed, unmarked, takenAt, markedAt>>
allVars == <<vars, digestVars>>

DigestTypeOK ==
  /\ optedIn \subseteq Profiles
  /\ lastSent \in [Profiles -> Int \cup {Never}]
  /\ dpc \in {"idle", "profile", "send", "mark"}
  /\ listed \subseteq Profiles
  /\ current \in Profiles
  /\ matched \subseteq Urls \X Int
  /\ sentAt \in Int
  /\ mailed \subseteq Profiles \X (Urls \X Int)
  /\ unmarked \subseteq Profiles
  /\ takenAt \in Int
  /\ markedAt \in [Profiles -> Int]

DigestInit ==
  /\ Init
  /\ optedIn = Profiles
  /\ lastSent = [profile \in Profiles |-> Never]
  /\ dpc = "idle"
  /\ listed = {}
  /\ current \in Profiles
  /\ matched = {}
  /\ sentAt = 0
  /\ mailed = {}
  /\ unmarked = {}
  /\ takenAt = 0
  /\ markedAt = [profile \in Profiles |-> 0]

-----------------------------------------------------------------------------
\* ListProfilesForDigest, once at the start of a run.
DigestList ==
  /\ dpc = "idle"
  /\ optedIn # {}
  /\ listed' = optedIn
  /\ dpc' = "profile"
  /\ UNCHANGED <<vars, optedIn, lastSent, current, matched, sentAt, mailed, unmarked,
                 takenAt, markedAt>>

\* The stored mark, by the clock of the host that set it, or firstRunLookback before
\* what the clock of this one reads.
WindowStart(profile, clock) ==
  IF lastSent[profile] = Never THEN clock - Lookback ELSE lastSent[profile]

\* The search of the digest: what was seen after the window opened, the best
\* jobLimit by the resume's embedding, or by its words if it has none.
DigestParams(profile, by, clock) ==
  [q |-> Null, workplace |-> Null, jobType |-> Null, minSalary |-> 0, maxSalary |-> 0,
   postedAfter |-> Null, seenAfter |-> WindowStart(profile, clock), tags |-> <<>>,
   sort |-> "relevance", limit |-> JobLimit, offset |-> 0,
   caller |-> [profile |-> Null, resume |-> profile, by |-> by], at |-> clock]

\* goodFitJobs: at least goodFitRatio, two fifths, of the best score.
GoodFit(found) ==
  {row \in found :
     /\ row.score # Null
     /\ row.score > 0
     /\ \A other \in found : other.score # Null => 5 * row.score >= 2 * other.score}

\* A row of the result; its URL may be stored again later, as another row.
RowOf(url) == <<url, jobs[url].firstSeen>>

DigestSearch(profile) ==
  /\ dpc = "profile"
  /\ profile \in listed
  /\ \E by \in {"embedding", "words"}, drift \in Drifts :
       matched' =
         {RowOf(row.url) :
            row \in GoodFit(SearchForJobs(DigestParams(profile, by, now + drift)).jobs)}
  /\ current' = profile
  /\ listed' = listed \ {profile}
  /\ dpc' = "send"
  /\ UNCHANGED <<vars, optedIn, lastSent, sentAt, mailed, unmarked, takenAt, markedAt>>

\* No active resume with an extraction, an empty query, or an error: the
\* profile is left for the next run.
DigestSkip(profile) ==
  /\ dpc = "profile"
  /\ profile \in listed
  /\ listed' = listed \ {profile}
  /\ UNCHANGED <<vars, optedIn, lastSent, dpc, current, matched, sentAt, mailed, unmarked,
                 takenAt, markedAt>>

\* sentAt is read off the host's clock, then the email goes out; nothing matched
\* sends nothing.
DigestSend ==
  /\ dpc = "send"
  /\ \E drift \in Drifts : sentAt' = now + drift
  /\ takenAt' = now
  /\ mailed' = mailed \cup {<<current, row>> : row \in matched}
  /\ unmarked' = IF matched = {} THEN unmarked ELSE unmarked \cup {current}
  /\ dpc' = "mark"
  /\ UNCHANGED <<vars, optedIn, lastSent, listed, current, matched, markedAt>>

DigestMark ==
  /\ dpc = "mark"
  /\ lastSent' = [lastSent EXCEPT ![current] = sentAt]
  /\ markedAt' = [markedAt EXCEPT ![current] = takenAt]
  /\ unmarked' = unmarked \ {current}
  /\ matched' = {}
  /\ sentAt' = 0
  /\ takenAt' = 0
  /\ dpc' = "profile"
  /\ UNCHANGED <<vars, optedIn, listed, current, mailed>>

\* The email, or the mark, fails: the profile's digest ends there.
DigestFail ==
  /\ \/ dpc = "send" /\ matched # {}
     \/ dpc = "mark"
  /\ matched' = {}
  /\ sentAt' = 0
  /\ takenAt' = 0
  /\ dpc' = "profile"
  /\ UNCHANGED <<vars, optedIn, lastSent, listed, current, mailed, unmarked, markedAt>>

\* The run is over, was cancelled, or its process died.
DigestEnd ==
  /\ dpc # "idle"
  /\ listed' = {}
  /\ matched' = {}
  /\ sentAt' = 0
  /\ takenAt' = 0
  /\ dpc' = "idle"
  /\ UNCHANGED <<vars, optedIn, lastSent, current, mailed, unmarked, markedAt>>

\* DisableEmailDigest, from the link in an email.
Unsubscribe(profile) ==
  /\ profile \in optedIn
  /\ optedIn' = optedIn \ {profile}
  /\ UNCHANGED <<vars, lastSent, dpc, listed, current, matched, sentAt, mailed, unmarked,
                 takenAt, markedAt>>

\* The profile form, which saves email_notifications_enabled with the rest.
OptIn(profile) ==
  /\ profile \notin optedIn
  /\ optedIn' = optedIn \cup {profile}
  /\ UNCHANGED <<vars, lastSent, dpc, listed, current, matched, sentAt, mailed, unmarked,
                 takenAt, markedAt>>

DigestStep ==
  \/ DigestList \/ DigestSend \/ DigestMark \/ DigestFail \/ DigestEnd
  \/ \E profile \in Profiles :
       \/ DigestSearch(profile) \/ DigestSkip(profile)
       \/ Unsubscribe(profile) \/ OptIn(profile)

StoreStep == Next /\ UNCHANGED digestVars

DigestNext == StoreStep \/ DigestStep

DigestSpec == DigestInit /\ [][DigestNext]_allVars

-----------------------------------------------------------------------------
(* Properties.                                                             *)

\* A row is mailed to a profile again only when the profile's last email lost its
\* mark, or its mark was read from a clock behind the database's and the row was
\* first seen in the time that clock was behind: after the mark, but not after the
\* database's time at which the mark was read.  The window compares the time a write
\* began, which can lie long before its row becomes visible, with a time read from
\* whatever clock the digest before went by.
NoRowMailedTwice ==
  [][\A profile \in Profiles, row \in matched :
       <<profile, row>> \in mailed /\ DigestSend /\ current = profile
         => \/ profile \in unmarked
            \/ /\ lastSent[profile] # Never
               /\ lastSent[profile] < row[2]
               /\ row[2] <= markedAt[profile]]_allVars

\* digest.go: the digest "emails each opted-in profile the new jobs that match
\* its active resume".  No matching posting falls behind the mark unmailed.
NewJobsAreMailed ==
  \A profile \in Profiles, url \in Stored :
    /\ Score[profile, url] > 0
    /\ lastSent[profile] # Never
    /\ jobs[url].firstSeen <= lastSent[profile]
    => <<profile, RowOf(url)>> \in mailed

=============================================================================
