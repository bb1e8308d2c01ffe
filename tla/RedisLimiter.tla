---------------------------- MODULE RedisLimiter ----------------------------
(***************************************************************************)
(* redisLimiter (server/redis.go): the token bucket of one client, the     *)
(* Watched one, kept in Redis for every instance of the server, and in     *)
(* each instance the in-memory limiter of RateLimiter to fall back on.     *)
(* This is one instance, with its requests; what the others do, what       *)
(* go-redis sends again and what Redis runs for a caller that has stopped  *)
(* waiting are other runs of the same script.                              *)
(*                                                                         *)
(* The clock now is Redis's.  An instance stamps a call with its own.      *)
(* Tokens are counted in ticks of refill, Period of them to a token, so    *)
(* that the fractions the script keeps are exact.                          *)
(***************************************************************************)
EXTENDS RateLimiter

CONSTANTS
  Skew,        \* how far an instance's clock may be ahead of Redis's
  Delay,       \* how long after its stamp a script may still be run
  Absent,      \* no bucket
  MaxTaken     \* bound: tokens taken

\* What the key holds: tokens, the time they count from, when it expires.
Hash == [tokens : 0..Full, ts : Nat, expires : Nat]

ASSUME RedisAssumption ==
  /\ Skew \in Nat
  /\ Delay \in Nat
  /\ Absent \notin Hash

VARIABLES
  configured,  \* whether there is a REDIS_URL
  ahead,       \* this instance's clock, from Redis's
  store,       \* the hash at the client's key: tokens, ts, and its expiry
  call         \* this instance's calls: stage, stamp, since

\* History variables: they record what happened and no action reads them.
VARIABLES
  taken,        \* runs that took a token
  lastTaken,    \* when a token was taken last
  slack         \* Skew + Delay for each bucket that expired and was made anew

limiter == <<visitors, waiting, since, admitted, refused>>
history == <<taken, lastTaken, slack>>
allVars == <<now, limiter, configured, ahead, store, call, history>>

NoCall == [stage |-> "none", stamp |-> 0, since |-> 0]

RedisInit ==
  /\ Init
  /\ configured \in BOOLEAN
  /\ ahead \in 0..Skew
  /\ store = Absent
  /\ call = [q \in Requests |-> NoCall]
  /\ taken = 0
  /\ lastTaken = 0
  /\ slack = 0

-----------------------------------------------------------------------------
(* The script tokenBucket.                                                 *)

AtMost(x, y) == IF x <= y THEN x ELSE y
AtLeast(x, y) == IF x >= y THEN x ELSE y

\* Until PEXPIRE's time is over, the bucket is there.
Live == store # Absent /\ now < store.expires

\* A fault: without the max(0, ...) a clock behind the last one takes tokens.
GrownEither(stamp) ==
  IF Live THEN AtMost(Full, store.tokens + (stamp - store.ts)) ELSE Full

\* What the bucket holds at stamp.
Grown(stamp) ==
  IF Live THEN AtMost(Full, store.tokens + AtLeast(0, stamp - store.ts)) ELSE Full

\* A fault: the time of the last run replaces a later one.
SeenLast(stamp) == stamp

\* The time the bucket's content counts from.
Seen(stamp) == IF Live THEN AtLeast(store.ts, stamp) ELSE stamp

\* One run of the script, which Redis runs with no other in between.
Script(stamp) ==
  LET allowed == Grown(stamp) >= Period
  IN /\ allowed => taken < MaxTaken
     /\ store' = [tokens |-> IF allowed THEN Grown(stamp) - Period ELSE Grown(stamp),
                  ts |-> Seen(stamp),
                  expires |-> now + Full]
     /\ taken' = IF allowed THEN taken + 1 ELSE taken
     /\ lastTaken' = IF allowed THEN now ELSE lastTaken
     /\ slack' = IF store # Absent /\ ~Live THEN slack + Skew + Delay ELSE slack

-----------------------------------------------------------------------------
(* allow.                                                                  *)

Idling(q) == waiting[q] = Nobody /\ call[q] = NoCall

Ask(q) ==
  /\ configured
  /\ Idling(q)
  /\ call' = [call EXCEPT ![q] = [stage |-> "asked", stamp |-> now + ahead, since |-> now]]
  /\ UNCHANGED <<now, limiter, configured, ahead, store, history>>

\* Redis runs the script for a request of this instance.
Run(q) ==
  /\ call[q].stage = "asked"
  /\ Script(call[q].stamp)
  /\ call' = [call EXCEPT ![q].stage = IF Grown(call[q].stamp) >= Period THEN "yes" ELSE "no"]
  /\ UNCHANGED <<now, limiter, configured, ahead>>

\* Any other run: the stamp is the clock of some instance, up to Delay ago.
OtherRun ==
  /\ configured
  /\ \E stamp \in AtLeast(0, now - Delay)..(now + Skew) : Script(stamp)
  /\ UNCHANGED <<now, limiter, configured, ahead, call>>

\* The answer comes back in time.
Answer(q) ==
  /\ call[q].stage \in {"yes", "no"}
  /\ call' = [call EXCEPT ![q] = NoCall]
  /\ UNCHANGED <<now, limiter, configured, ahead, store, history>>

\* The call fails, whether or not the script has run; or there is no Redis; or
\* it is another client's, whose bucket in Redis is not looked at here.
FallBack(q, client) ==
  /\ IF client = Watched /\ configured THEN call[q].stage # "none" ELSE Idling(q)
  /\ Lookup(q, client)
  /\ call' = [call EXCEPT ![q] = NoCall]
  /\ UNCHANGED <<configured, ahead, store, history>>

\* The rest of the in-memory limiter.
InMemory ==
  /\ \/ \E q \in Requests, client \in Clients : Admit(q, client) \/ Refuse(q, client)
     \/ Sweep
  /\ UNCHANGED <<configured, ahead, store, call, history>>

\* The context of a call ends after a while.
RedisTick ==
  /\ Tick
  /\ \A q \in Requests : call[q] # NoCall => now - call[q].since < Delay
  /\ UNCHANGED <<configured, ahead, store, call, history>>

RedisNext ==
  \/ \E q \in Requests : Ask(q) \/ Run(q) \/ Answer(q)
  \/ \E q \in Requests, client \in Clients : FallBack(q, client)
  \/ OtherRun
  \/ InMemory
  \/ RedisTick

RedisSpec == RedisInit /\ [][RedisNext]_allVars

-----------------------------------------------------------------------------
(* Properties.                                                             *)

RedisTypeOK ==
  /\ configured \in BOOLEAN
  /\ ahead \in 0..Skew
  /\ store \in Hash \cup {Absent}
  /\ call \in [Requests -> [stage : {"none", "asked", "yes", "no"}, stamp : Nat, since : Nat]]
  /\ taken \in Nat
  /\ lastTaken \in Nat
  /\ slack \in Nat

\* All instances together take no more tokens than one bucket gives, whatever
\* their clocks say and in whatever order their calls arrive, but for the
\* difference of the clocks, once, and once more for every time the key has
\* expired (the max of ts in the script).
RedisBounded == Period * taken <= Full + now + Skew + slack

\* A client is turned away only if a token was taken for it in the last Period,
\* give or take the clocks and the delay: no clock that is ahead and no run
\* that finds the bucket empty puts off the next token (max(0, ...), and the
\* refill a refused run stores with its ts).
TurnedAwayOnlyWhenSpent ==
  [][store' # store /\ taken' = taken => now - lastTaken < Period + Skew + Delay]_allVars

=============================================================================
