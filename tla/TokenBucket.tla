---------------------------- MODULE TokenBucket ----------------------------
(***************************************************************************)
(* What a rate limiter promises one client: a bucket of Burst tokens, one  *)
(* more every Period ticks of the clock, each admitted request taking one. *)
(* The level counts in ticks of refill, Period of them to a token.         *)
(*                                                                         *)
(* Init allows any level, so that a behaviour of this module is what       *)
(* happens from any moment on: a bound on what it admits is a bound for    *)
(* every window of time.                                                   *)
(***************************************************************************)
EXTENDS Integers

CONSTANTS
  Burst,       \* tokens in a full bucket
  Period       \* ticks it takes to earn one token

\* What a limiter that implements this module has to satisfy.
BucketAssumption == Burst \in Nat \ {0} /\ Period \in Nat \ {0}

VARIABLES level, admitted, refused, elapsed

vars == <<level, admitted, refused, elapsed>>

Full == Burst * Period

Init ==
  /\ level \in 0..Full
  /\ admitted = 0
  /\ refused = 0
  /\ elapsed = 0

Admit ==
  /\ level >= Period
  /\ level' = level - Period
  /\ admitted' = admitted + 1
  /\ UNCHANGED <<refused, elapsed>>

\* A request is refused only when there is no token for it.
Refuse ==
  /\ level < Period
  /\ refused' = refused + 1
  /\ UNCHANGED <<level, admitted, elapsed>>

Elapse ==
  /\ elapsed' = elapsed + 1
  /\ level' = IF level < Full THEN level + 1 ELSE Full
  /\ UNCHANGED <<admitted, refused>>

Next == Admit \/ Refuse \/ Elapse

Spec == Init /\ [][Next]_vars

-----------------------------------------------------------------------------
TypeOK ==
  /\ level \in 0..Full
  /\ admitted \in Nat
  /\ refused \in Nat
  /\ elapsed \in Nat

\* Every token was in the bucket at the start or earned since.
Balance == level + Period * admitted <= Full + elapsed

\* In any window of time the requests admitted number at most Burst, and one
\* more for each Period of the window.
AdmittedBounded == Period * admitted <= Full + elapsed

=============================================================================
