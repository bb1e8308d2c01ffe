------------------------------ MODULE Autosave ------------------------------
(***************************************************************************)
(* The profile form's autosave (hooks/use-autosave.ts) and the server it   *)
(* saves to.  Edits are numbered, and an edit's number stands for the form *)
(* it left.                                                                *)
(*                                                                         *)
(* The loops are numbered too: the hook means to have one, and says so     *)
(* with the flag `running' alone.  A timer fires when it is due or later.  *)
(* A save that fails may have been carried out, or be carried out after    *)
(* the client has given it up.                                             *)
(***************************************************************************)
EXTENDS Integers, FiniteSets

CONSTANTS
  Loops,       \* calls of run() that may be active
  MaxSends,    \* MAX_SENDS_PER_WINDOW
  Window,      \* WINDOW_MS, in clock ticks
  Base,        \* delay of the first retry
  MaxDelay,    \* MAX_RETRY_DELAY_MS
  MaxEdits,    \* bound: edits ever made
  MaxErrors    \* bound: saves that fail

ASSUME WindowAssumption == MaxSends \in Nat \ {0} /\ Window \in Nat \ {0}
ASSUME DelayAssumption == Base \in Nat /\ MaxDelay \in Nat
ASSUME EditAssumption == MaxEdits \in Nat /\ MaxErrors \in Nat

VARIABLES
  edits,       \* the newest valid edit
  pending,     \* pending.current, or None
  running,     \* running.current
  age,         \* time since each send, up to Window
  sentAt,      \* sentAt.current: which of the sends it remembers
  status,
  at,          \* where each loop is
  value,       \* what each loop is sending
  failures,    \* in a row, of each loop
  timer,       \* time each loop has to sleep yet
  stored,      \* the edit the server holds
  abandoned,   \* saves the client gave up and the server may still carry out
  errors

\* History variables: they record what happened and no action reads them.
VARIABLES
  judged,      \* the newest edit the server has accepted or refused
  overtaken    \* an abandoned save was carried out after a newer one

loopVars == <<at, value, failures, timer>>
hookVars == <<pending, running, age, sentAt, status, loopVars>>
serverVars == <<stored, abandoned>>
histVars == <<judged, overtaken>>
autosaveVars == <<edits, hookVars, serverVars, errors, histVars>>

None == 0
AllEdits == 1..MaxEdits

\* The sends so far, numbered in their order.
Sends == DOMAIN age

\* No sleep is longer.
Longest == IF Window < MaxDelay THEN MaxDelay ELSE Window

TypeOK ==
  /\ edits \in 0..MaxEdits
  /\ pending \in AllEdits \cup {None}
  /\ running \in BOOLEAN
  /\ age \in [Sends -> 0..Window]
  /\ sentAt \subseteq Sends
  /\ status \in {"idle", "saving", "saved", "retrying", "error"}
  /\ at \in [Loops -> {"off", "slot", "sending", "backoff"}]
  /\ value \in [Loops -> AllEdits \cup {None}]
  /\ failures \in [Loops -> Nat]
  /\ timer \in [Loops -> 0..Longest]
  /\ stored \in AllEdits \cup {None}
  /\ abandoned \subseteq AllEdits
  /\ errors \in 0..MaxErrors
  /\ judged \in AllEdits \cup {None}
  /\ overtaken \in BOOLEAN

AutosaveInit ==
  /\ edits = 0
  /\ pending = None
  /\ running = FALSE
  /\ age = [n \in {} |-> 0]
  /\ sentAt = {}
  /\ status = "idle"
  /\ at = [r \in Loops |-> "off"]
  /\ value = [r \in Loops |-> None]
  /\ failures = [r \in Loops |-> 0]
  /\ timer = [r \in Loops |-> 0]
  /\ stored = None
  /\ abandoned = {}
  /\ errors = 0
  /\ judged = None
  /\ overtaken = FALSE

-----------------------------------------------------------------------------
\* A fault: every edit starts a loop.
StartsAlways == TRUE

\* queue starts a loop when none is running.
StartsLoop == ~running

\* queue: a valid edit.
Queue ==
  /\ edits < MaxEdits
  /\ edits' = edits + 1
  /\ pending' = edits + 1
  /\ IF StartsLoop
     THEN \E r \in Loops :
            /\ at[r] = "off"
            /\ at' = [at EXCEPT ![r] = "slot"]
            /\ failures' = [failures EXCEPT ![r] = 0]
            /\ running' = TRUE
     ELSE UNCHANGED <<at, failures, running>>
  /\ UNCHANGED <<age, sentAt, status, value, timer, serverVars, errors, histVars>>

-----------------------------------------------------------------------------
(* waitForSlot, and the send that follows it.                              *)

\* A fault: sends are never forgotten.
EverySend == sentAt

\* The sends that still count.
Counted == {n \in sentAt : age[n] < Window}

\* A fault: one send too many.
SlotFreeLate == Cardinality(Counted) <= MaxSends

SlotFree == Cardinality(Counted) < MaxSends

NextSend == Cardinality(Sends) + 1

\* sentAt.current[0]
Oldest == CHOOSE n \in Counted : \A m \in Counted : n <= m

Awake(r, place) == at[r] = place /\ timer[r] = 0

Send(r) ==
  /\ Awake(r, "slot")
  /\ SlotFree
  /\ age' = [n \in Sends \cup {NextSend} |-> IF n = NextSend THEN 0 ELSE age[n]]
  /\ sentAt' = Counted \cup {NextSend}
  /\ at' = [at EXCEPT ![r] = "sending"]
  /\ value' = [value EXCEPT ![r] = pending]
  /\ pending' = None
  /\ status' = IF failures[r] > 0 THEN "retrying" ELSE "saving"
  /\ UNCHANGED <<edits, running, failures, timer, serverVars, errors, judged, overtaken>>

SleepForSlot(r) ==
  /\ Awake(r, "slot")
  /\ ~SlotFree
  /\ sentAt' = Counted
  /\ timer' = [timer EXCEPT ![r] = Window - age[Oldest]]
  /\ UNCHANGED <<edits, pending, running, age, status, at, value, failures, serverVars, errors,
                 histVars>>

-----------------------------------------------------------------------------
(* The answer.                                                             *)

\* The server carries v out.
Stores(v) ==
  /\ stored' = v
  /\ overtaken' = (overtaken \/ v < stored)

\* A fault: the loop stops without a look at what is pending.
GoOnNever(r, result) ==
  /\ failures' = [failures EXCEPT ![r] = 0]
  /\ at' = [at EXCEPT ![r] = "off"]
  /\ running' = FALSE
  /\ status' = result
  /\ UNCHANGED <<pending, timer>>

\* The loop goes on with a newer edit, or stops and shows result.
GoOn(r, result) ==
  /\ failures' = [failures EXCEPT ![r] = 0]
  /\ IF pending # None
     THEN /\ at' = [at EXCEPT ![r] = "slot"]
          /\ UNCHANGED <<running, status>>
     ELSE /\ at' = [at EXCEPT ![r] = "off"]
          /\ running' = FALSE
          /\ status' = result
  /\ UNCHANGED <<pending, timer>>

Saved(r) ==
  /\ at[r] = "sending"
  /\ Stores(value[r])
  /\ GoOn(r, "saved")
  /\ judged' = value[r]
  /\ UNCHANGED <<edits, age, sentAt, value, abandoned, errors>>

\* An error that is not retryable.
Refused(r) ==
  /\ at[r] = "sending"
  /\ GoOn(r, "error")
  /\ judged' = value[r]
  /\ UNCHANGED <<edits, age, sentAt, value, serverVars, errors, overtaken>>

\* A fault: the failed value replaces a newer one.
PutBackAlways(v) == v

\* pending.current ??= { value }
PutBack(v) == IF pending = None THEN v ELSE pending

Delay(n) == IF Base * 2^(n - 1) < MaxDelay THEN Base * 2^(n - 1) ELSE MaxDelay

\* A retryable error: the server has carried the save out, has not, or will yet.
Failed(r) ==
  /\ at[r] = "sending"
  /\ errors < MaxErrors
  /\ errors' = errors + 1
  /\ pending' = PutBack(value[r])
  /\ failures' = [failures EXCEPT ![r] = @ + 1]
  /\ status' = "retrying"
  /\ at' = [at EXCEPT ![r] = "backoff"]
  /\ timer' = [timer EXCEPT ![r] = Delay(failures[r] + 1)]
  /\ \/ UNCHANGED <<serverVars, overtaken>>
     \/ Stores(value[r]) /\ UNCHANGED abandoned
     \/ abandoned' = abandoned \cup {value[r]} /\ UNCHANGED <<stored, overtaken>>
  /\ UNCHANGED <<edits, running, age, sentAt, value, judged>>

Retry(r) ==
  /\ Awake(r, "backoff")
  /\ at' = [at EXCEPT ![r] = "slot"]
  /\ UNCHANGED <<edits, pending, running, age, sentAt, status, value, failures, timer,
                 serverVars, errors, histVars>>

-----------------------------------------------------------------------------
(* The server, and time.                                                   *)

CarryOutLate(v) ==
  /\ v \in abandoned
  /\ Stores(v)
  /\ abandoned' = abandoned \ {v}
  /\ UNCHANGED <<edits, hookVars, errors, judged>>

Tick ==
  /\ age' = [n \in Sends |-> IF age[n] < Window THEN age[n] + 1 ELSE Window]
  /\ timer' = [r \in Loops |-> IF timer[r] > 0 THEN timer[r] - 1 ELSE 0]
  /\ UNCHANGED <<edits, pending, running, sentAt, status, at, value, failures, serverVars,
                 errors, histVars>>

-----------------------------------------------------------------------------
Answered(r) == Saved(r) \/ Refused(r) \/ Failed(r)

Step(r) == Send(r) \/ SleepForSlot(r) \/ Retry(r) \/ Answered(r)

AutosaveNext ==
  \/ Queue
  \/ \E r \in Loops : Step(r)
  \/ \E v \in AllEdits : CarryOutLate(v)
  \/ Tick

AutosaveSpec == AutosaveInit /\ [][AutosaveNext]_autosaveVars

\* Timers fire, requests are answered, and time passes.
FairSpec == AutosaveSpec /\ WF_autosaveVars(Tick) /\ \A r \in Loops : WF_autosaveVars(Step(r))

-----------------------------------------------------------------------------
(* Properties.                                                             *)

\* "One request at a time": the flag keeps a second loop from starting, and is
\* up exactly while the one loop is.
OneLoop ==
  /\ Cardinality({r \in Loops : at[r] # "off"}) <= 1
  /\ running <=> \E r \in Loops : at[r] # "off"

\* "At most 5 a second": no window of that length holds more sends, whatever
\* retries and new edits come together.
RateBounded == Cardinality({n \in Sends : age[n] < Window}) <= MaxSends

\* "Coalesced, never dropped": an edit the server has not judged yet is the
\* newest one pending, or is on its way; and closing the tab warns of it.
NewestInHand ==
  edits > judged =>
    /\ running
    /\ \/ pending = edits
       \/ pending = None /\ \E r \in Loops : at[r] = "sending" /\ value[r] = edits

\* "All changes saved" is true: once the loop has stopped and shows it, the
\* server holds the newest edit, unless a save that was given up has overtaken it.
SavedIsStored ==
  status = "saved" /\ ~running => stored = edits \/ overtaken

\* Saving ends: with no more edits and no more failures the loop stops.
SavingEnds == running ~> ~running

=============================================================================
