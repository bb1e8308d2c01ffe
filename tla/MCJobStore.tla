----------------------------- MODULE MCJobStore -----------------------------
(* A small instance of JobStore for TLC.                                   *)
EXTENDS JobStore

\* A posting with a date whose source later drops it, and one without a date
\* whose source later gives one in the future.
MCPostings ==
  { [url |-> "a", posted |-> 0, tags |-> {"go"}],
    [url |-> "a", posted |-> Undated, tags |-> {}],
    [url |-> "b", posted |-> Undated, tags |-> {"go"}],
    [url |-> "b", posted |-> 5, tags |-> {}] }

=============================================================================
