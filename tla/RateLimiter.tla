---------------------------- MODULE RateLimiter ----------------------------
(***************************************************************************)
(* ipLimiter (server/rate_limiter.go): one token bucket per client address *)
(* in a map, filled lazily when it is used, dropped by a sweep when its    *)
(* client has been away, and used outside the lock that guards the map.    *)
(*                                                                         *)
(* rate.Limiter, an external library, is modelled by what the code relies  *)
(* on: Allow refills the bucket for the time since its last use and takes  *)
(* a token if there is one, as one step.                                   *)
(***************************************************************************)
EXTENDS Integers

CONSTANTS
  Clients,     \* client addresses
  Watched,     \* the client whose bucket is compared with TokenBucket: any one
  Requests,    \* requests that can be in allow together
  Nobody,      \* a request that is not in allow
  Burst,       \* burst
  Period,      \* ticks per token: the inverse of rate
  Idle,        \* how long a visitor may be away before a sweep drops it
  Stall,       \* bound: ticks a request spends between the map and the bucket
  MaxTime,     \* bound: the clock stops here
  MaxAnswers   \* bound: answers given to the watched client

Full == Burst * Period

ASSUME LimiterAssumption ==
  /\ Watched \in Clients
  /\ Nobody \notin Clients
  /\ Burst \in Nat \ {0}
  /\ Period \in Nat \ {0}
  /\ Stall \in Nat
  /\ Idle \in Nat

\* A client away long enough to be dropped has a full bucket.  The code's
\* limiters: 5 tokens of 20s, 3 of 10s, 20 of 0.1s, and an Idle of 180s.
ASSUME IdleAssumption == Full + Stall <= Idle

VARIABLES
  now,         \* the process's clock
  visitors,    \* the map: client -> tokens, last (of its limiter), lastSeen
  waiting,     \* the client whose bucket each request holds and has not used
  since,       \* when it got hold of it
  admitted, refused  \* history: answers to the watched client

vars == <<now, visitors, waiting, since, admitted, refused>>

Known == DOMAIN visitors

Visitor == [tokens : 0..Full, last : Nat, lastSeen : Nat]

TypeOK ==
  /\ now \in Nat
  /\ Known \subseteq Clients
  /\ visitors \in [Known -> Visitor]
  /\ waiting \in [Requests -> Clients \cup {Nobody}]
  /\ since \in [Requests -> Nat]
  /\ admitted \in Nat
  /\ refused \in Nat

Init ==
  /\ now = 0
  /\ visitors = [client \in {} |-> 0]
  /\ waiting = [q \in Requests |-> Nobody]
  /\ since = [q \in Requests |-> 0]
  /\ admitted = 0
  /\ refused = 0

-----------------------------------------------------------------------------
\* What the bucket of a known client holds by now, capped at the burst.
Filled(client) ==
  LET grown == visitors[client].tokens + (now - visitors[client].last)
  IN IF grown < Full THEN grown ELSE Full

\* The locked part of allow: the visitor is found or made, and seen.
Lookup(q, client) ==
  /\ waiting[q] = Nobody
  /\ visitors' =
       [known \in Known \cup {client} |->
          IF known # client THEN visitors[known]
          ELSE IF client \in Known THEN [visitors[client] EXCEPT !.lastSeen = now]
          ELSE [tokens |-> Full, last |-> now, lastSeen |-> now]]
  /\ waiting' = [waiting EXCEPT ![q] = client]
  /\ since' = [since EXCEPT ![q] = now]
  /\ UNCHANGED <<now, admitted, refused>>

Done(q) == /\ waiting' = [waiting EXCEPT ![q] = Nobody]
           /\ since' = [since EXCEPT ![q] = 0]

\* limiter.Allow, after the unlock.
Admit(q, client) ==
  /\ waiting[q] = client
  /\ client \in Known
  /\ Filled(client) >= Period
  /\ client = Watched => admitted + refused < MaxAnswers
  /\ visitors' = [visitors EXCEPT ![client].tokens = Filled(client) - Period,
                                  ![client].last = now]
  /\ admitted' = IF client = Watched THEN admitted + 1 ELSE admitted
  /\ Done(q)
  /\ UNCHANGED <<now, refused>>

\* A refusal leaves the bucket as it was.
Refuse(q, client) ==
  /\ waiting[q] = client
  /\ client \in Known
  /\ Filled(client) < Period
  /\ client = Watched => admitted + refused < MaxAnswers
  /\ refused' = IF client = Watched THEN refused + 1 ELSE refused
  /\ Done(q)
  /\ UNCHANGED <<now, visitors, admitted>>

\* A fault: a visitor is dropped once a full refill has gone by since it was
\* seen, whenever its bucket was used.
SweepEarly ==
  /\ visitors' = [client \in {known \in Known : now - visitors[known].lastSeen < Full} |->
                    visitors[client]]
  /\ UNCHANGED <<now, waiting, since, admitted, refused>>

\* One pass of cleanupLoop, whenever its sleep ends.
Sweep ==
  /\ visitors' = [client \in {known \in Known : now - visitors[known].lastSeen <= Idle} |->
                    visitors[client]]
  /\ UNCHANGED <<now, waiting, since, admitted, refused>>

\* Allow is the next call after the unlock: no request stalls longer.
Tick ==
  /\ now < MaxTime
  /\ \A q \in Requests : waiting[q] # Nobody => now - since[q] < Stall
  /\ now' = now + 1
  /\ UNCHANGED <<visitors, waiting, since, admitted, refused>>

Next ==
  \/ \E q \in Requests, client \in Clients :
       Lookup(q, client) \/ Admit(q, client) \/ Refuse(q, client)
  \/ Sweep
  \/ Tick

Spec == Init /\ [][Next]_vars

-----------------------------------------------------------------------------
(* Properties.                                                             *)

\* A request never holds the bucket of a visitor that was dropped: the sweep
\* runs between the unlock and Allow, and leaves whoever was just seen.  Two
\* buckets for one client would admit two bursts.
HeldVisitorStays ==
  \A q \in Requests : waiting[q] # Nobody => waiting[q] \in Known

\* What a client the map has forgotten would find is a full bucket.
Level == IF Watched \in Known THEN Filled(Watched) ELSE Full

Bucket == INSTANCE TokenBucket WITH level <- Level, elapsed <- now

\* Dropping idle visitors changes no answer: what the limiter tells a client is
\* what one token bucket kept for ever would, neither more nor less.
ImplementsTokenBucket == Bucket!Spec

\* Hence the bound the limiter exists for, over its whole life.
AdmittedBounded == Period * admitted <= Full + now

=============================================================================
