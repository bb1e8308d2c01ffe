-------------------------- MODULE MCResumePipeline --------------------------
(***************************************************************************)
(* A small instance of ResumePipeline for TLC.  What can become of one     *)
(* resume and how two can be active are asked from different states the    *)
(* profile can be in: all requests over two resumes are too many states.   *)
(***************************************************************************)
EXTENDS ResumePipeline, TLC

CONSTANTS r1, r2, f1

\* All requests and faults are to come.
Fresh == ops = 0 /\ faults = 0

\* Two requests are to come, and no fault.
TwoToCome == ops = MaxOps - 2 /\ faults = MaxFaults

\* No resume is stored, and those in gone were deleted.
NoResume(gone) ==
  /\ resumes = Empty
  /\ extractions = Empty
  /\ latest = Empty
  /\ used = gone
  /\ clock = 0
  /\ req = [q \in Requests |-> Idle]

\* One resume, extracted and active, and another upload under way, which saw it: the
\* upload and the extraction have saved three times.
AnotherUploading ==
  /\ resumes = r1 :> [content |-> f1, active |-> TRUE]
  /\ extractions = r1 :> [status |-> "completed", data |-> f1, vector |-> f1, updated |-> 3]
  /\ latest = r1 :> 3
  /\ used = {r1}
  /\ clock = 3
  /\ \E uploading \in Requests :
       req = [q \in Requests |->
                IF q = uploading THEN [Idle EXCEPT !.at = "insert", !.file = f1] ELSE Idle]

MCInit ==
  /\ \/ NoResume({r2}) /\ Fresh
     \/ NoResume({}) /\ TwoToCome
     \/ AnotherUploading /\ TwoToCome
  /\ tailored = Nothing
  /\ owed = {}
  /\ crowded = FALSE
  /\ abandoned = {}

MCSpec == MCInit /\ [][Next]_<<vars, history>> /\ Fairness
=============================================================================
