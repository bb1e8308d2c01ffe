---------------------------- MODULE LimiterProofs ----------------------------
(***************************************************************************)
(* Proofs about the rate limiters, for every set of clients and requests,  *)
(* and every limit.                                                        *)
(*                                                                         *)
(* TokenBucket, what they promise: for every burst and period.             *)
(*                                                                         *)
(* RateLimiter (in memory), for every Idle that IdleAssumption allows:     *)
(* dropping idle visitors is invisible to the client that comes back.      *)
(*                                                                         *)
(* RedisLimiter, for every difference of the clocks, every delay of a run  *)
(* and any number of instances: what the instances take together is        *)
(* bounded, and a client that has taken nothing for a while is let in.     *)
(***************************************************************************)
EXTENDS RedisLimiter, TLAPS

-----------------------------------------------------------------------------
(* TokenBucket by itself: any bucket, kept for ever.                       *)

VARIABLES level, granted, denied, elapsed

Plain == INSTANCE TokenBucket WITH admitted <- granted, refused <- denied

LEMMA PlainFullIsNat ==
  ASSUME Plain!BucketAssumption
  PROVE  Plain!Full \in Nat /\ Period \in Nat /\ Period > 0
  BY DEF Plain!BucketAssumption, Plain!Full

LEMMA PlainTypeStep ==
  ASSUME Plain!BucketAssumption
  PROVE  Plain!TypeOK /\ [Plain!Next]_(Plain!vars) => Plain!TypeOK'
<1> SUFFICES ASSUME Plain!TypeOK, [Plain!Next]_(Plain!vars) PROVE Plain!TypeOK'
  OBVIOUS
<1> USE PlainFullIsNat DEF Plain!TypeOK
<1>1. CASE Plain!Admit
  BY <1>1 DEF Plain!Admit
<1>2. CASE Plain!Refuse
  BY <1>2 DEF Plain!Refuse
<1>3. CASE Plain!Elapse
  BY <1>3 DEF Plain!Elapse
<1>4. CASE UNCHANGED Plain!vars
  BY <1>4 DEF Plain!vars
<1> QED BY <1>1, <1>2, <1>3, <1>4 DEF Plain!Next

\* The level never leaves 0..Full, and the counters never leave Nat.
THEOREM BucketTypeCorrect ==
  ASSUME Plain!BucketAssumption
  PROVE  Plain!Spec => []Plain!TypeOK
<1>1. Plain!Init => Plain!TypeOK
  BY PlainFullIsNat DEF Plain!Init, Plain!TypeOK
<1> QED BY <1>1, PlainTypeStep, PTL DEF Plain!Spec

\* Every token given was in the bucket at the start or earned since.
THEOREM BalanceHolds ==
  ASSUME Plain!BucketAssumption
  PROVE  Plain!Spec => []Plain!Balance
<1>1. Plain!Init => Plain!Balance
  BY PlainFullIsNat DEF Plain!Init, Plain!Balance
<1>2. Plain!TypeOK /\ Plain!Balance /\ [Plain!Next]_(Plain!vars) => Plain!Balance'
  <2> SUFFICES ASSUME Plain!TypeOK, Plain!Balance, [Plain!Next]_(Plain!vars) PROVE Plain!Balance'
    OBVIOUS
  <2> DEFINE spent == Period * granted
  <2>1. spent \in Nat
    BY PlainFullIsNat DEF Plain!TypeOK
  <2>2. level + spent <= Plain!Full + elapsed
    BY DEF Plain!Balance
  <2>3. CASE Plain!Admit
    <3>1. Period * granted' = spent + Period
      BY <2>3, PlainFullIsNat DEF Plain!Admit, Plain!TypeOK
    <3> HIDE DEF spent
    <3> QED BY <2>1, <2>2, <2>3, <3>1, PlainFullIsNat DEF Plain!Admit, Plain!TypeOK, Plain!Balance
  <2>4. CASE Plain!Elapse
    <3>1. Period * granted' = spent
      BY <2>4 DEF Plain!Elapse
    <3> HIDE DEF spent
    <3> QED BY <2>1, <2>2, <2>4, <3>1, PlainFullIsNat DEF Plain!Elapse, Plain!TypeOK, Plain!Balance
  <2>5. CASE Plain!Refuse \/ UNCHANGED Plain!vars
    BY <2>5 DEF Plain!Refuse, Plain!vars, Plain!Balance
  <2> QED BY <2>3, <2>4, <2>5 DEF Plain!Next
<1> QED BY <1>1, <1>2, BucketTypeCorrect, PTL DEF Plain!Spec

\* In any window of time a bucket admits at most Burst requests, and one more
\* for each period of the window.
THEOREM BucketIsBounded ==
  ASSUME Plain!BucketAssumption
  PROVE  Plain!Spec => []Plain!AdmittedBounded
<1>1. Plain!TypeOK /\ Plain!Balance => Plain!AdmittedBounded
  <2> SUFFICES ASSUME Plain!TypeOK, Plain!Balance PROVE Plain!AdmittedBounded
    OBVIOUS
  <2> DEFINE spent == Period * granted
  <2>1. spent \in Nat /\ level + spent <= Plain!Full + elapsed
    BY PlainFullIsNat DEF Plain!TypeOK, Plain!Balance
  <2>2. spent <= Plain!Full + elapsed
    <3> HIDE DEF spent
    <3> QED BY <2>1, PlainFullIsNat DEF Plain!TypeOK
  <2> QED BY <2>2 DEF Plain!AdmittedBounded
<1> QED BY <1>1, BucketTypeCorrect, BalanceHolds, PTL

-----------------------------------------------------------------------------
(* RateLimiter.                                                            *)

\* A bucket is used at most Stall after its visitor was last seen, since a
\* request is seen, and then uses the bucket within Stall.
UsedSoonAfterSeen ==
  \A client \in Known :
    /\ visitors[client].last <= now
    /\ visitors[client].lastSeen <= now
    /\ visitors[client].last <= visitors[client].lastSeen + Stall

\* A request between the map and the bucket has been there at most Stall, and
\* its visitor is in the map, seen no earlier than by this request.
HeldSince ==
  \A q \in Requests :
    waiting[q] # Nobody =>
      /\ waiting[q] \in Known
      /\ since[q] <= now
      /\ now <= since[q] + Stall
      /\ since[q] <= visitors[waiting[q]].lastSeen

Inv == TypeOK /\ UsedSoonAfterSeen /\ HeldSince

LEMMA FullIsNat == Full \in Nat /\ Period \in Nat /\ Period > 0
  BY LimiterAssumption DEF Full

LEMMA FilledType ==
  ASSUME TypeOK, UsedSoonAfterSeen, NEW client \in Known
  PROVE  Filled(client) \in 0..Full
<1>1. visitors[client] \in Visitor /\ visitors[client].last <= now
  BY DEF TypeOK, UsedSoonAfterSeen
<1> QED BY <1>1, FullIsNat DEF Filled, Visitor, TypeOK

LEMMA InvInit == Init => Inv
<1> SUFFICES ASSUME Init PROVE Inv
  OBVIOUS
<1>1. Known = {} /\ visitors \in [Known -> Visitor]
  BY DEF Init, Known
<1> QED BY <1>1, LimiterAssumption DEF Init, Inv, TypeOK, UsedSoonAfterSeen, HeldSince

LEMMA InvLookup ==
  ASSUME Inv, NEW q \in Requests, NEW client \in Clients, Lookup(q, client)
  PROVE  Inv'
<1> USE FullIsNat, LimiterAssumption DEF Inv
<1> DEFINE fresh == [tokens |-> Full, last |-> now, lastSeen |-> now]
           seen == IF client \in Known THEN [visitors[client] EXCEPT !.lastSeen = now]
                   ELSE fresh
<1>1. seen \in Visitor /\ seen.lastSeen = now /\ seen.last <= now
  <2>1. CASE client \in Known
    <3>1. visitors[client] \in Visitor /\ visitors[client].last <= now
      BY <2>1 DEF TypeOK, UsedSoonAfterSeen
    <3> QED BY <2>1, <3>1 DEF Visitor, TypeOK
  <2>2. CASE client \notin Known
    BY <2>2 DEF Visitor, TypeOK
  <2> QED BY <2>1, <2>2
<1>2. /\ visitors' = [known \in Known \cup {client} |->
                        IF known = client THEN seen ELSE visitors[known]]
      /\ Known' = Known \cup {client}
  BY DEF Lookup, Known
<1> HIDE DEF seen
<1>3. visitors' \in [Known' -> Visitor]
  BY <1>1, <1>2 DEF TypeOK
<1>4. /\ waiting' \in [Requests -> Clients \cup {Nobody}]
      /\ since' \in [Requests -> Nat]
      /\ UNCHANGED <<now, admitted, refused>>
  BY DEF Lookup, TypeOK
<1>5. TypeOK'
  BY <1>2, <1>3, <1>4 DEF TypeOK
<1>6. UsedSoonAfterSeen'
  BY <1>1, <1>2, <1>3, <1>4 DEF UsedSoonAfterSeen, TypeOK, Visitor
<1>7. HeldSince'
  <2> SUFFICES ASSUME NEW p \in Requests, waiting'[p] # Nobody
               PROVE  /\ waiting'[p] \in Known'
                      /\ since'[p] <= now'
                      /\ now' <= since'[p] + Stall
                      /\ since'[p] <= visitors'[waiting'[p]].lastSeen
    BY DEF HeldSince
  <2>1. CASE p = q
    <3>1. waiting'[p] = client /\ since'[p] = now
      BY <2>1 DEF Lookup, TypeOK
    <3> QED BY <1>1, <1>2, <1>4, <3>1 DEF TypeOK
  <2>2. CASE p # q
    <3>1. waiting'[p] = waiting[p] /\ since'[p] = since[p]
      BY <2>2 DEF Lookup, TypeOK
    <3> QED BY <1>1, <1>2, <1>4, <3>1 DEF TypeOK, HeldSince
  <2> QED BY <2>1, <2>2
<1> QED BY <1>5, <1>6, <1>7

LEMMA InvAdmit ==
  ASSUME Inv, NEW q \in Requests, NEW client \in Clients, Admit(q, client)
  PROVE  Inv'
<1> USE FullIsNat, LimiterAssumption DEF Inv
<1> DEFINE used == [visitors[client] EXCEPT !.tokens = Filled(client) - Period, !.last = now]
<1>1. visitors[client] \in Visitor /\ client \in Known /\ Filled(client) \in 0..Full
  BY FilledType DEF Admit, TypeOK
<1>2. /\ used \in Visitor /\ used.last = now
      /\ used.lastSeen = visitors[client].lastSeen
  <2>1. Filled(client) - Period \in 0..Full /\ now \in Nat
    BY <1>1 DEF Admit, TypeOK
  <2> QED BY <1>1, <2>1 DEF Visitor
<1>3. /\ visitors' = [visitors EXCEPT ![client] = used] /\ Known' = Known
      /\ \A known \in Known : visitors'[known] =
           IF known = client THEN used ELSE visitors[known]
  BY <1>1 DEF Admit, Known
<1> HIDE DEF used
<1>4. visitors' \in [Known' -> Visitor]
  BY <1>2, <1>3 DEF TypeOK
<1>5. /\ waiting' \in [Requests -> Clients \cup {Nobody}]
      /\ since' \in [Requests -> Nat]
      /\ now' = now /\ admitted' \in Nat /\ refused' \in Nat
      /\ waiting[q] = client /\ waiting'[q] = Nobody
      /\ \A p \in Requests \ {q} : waiting'[p] = waiting[p] /\ since'[p] = since[p]
  BY DEF Admit, Done, TypeOK
<1>6. TypeOK'
  BY <1>3, <1>4, <1>5 DEF TypeOK
<1>7. now <= visitors[client].lastSeen + Stall
  <2>1. /\ since[q] <= visitors[client].lastSeen /\ now <= since[q] + Stall
        /\ since[q] \in Nat
    BY <1>5 DEF HeldSince, TypeOK
  <2> QED BY <1>1, <2>1 DEF Visitor, TypeOK
<1>8. UsedSoonAfterSeen'
  BY <1>2, <1>3, <1>5, <1>7 DEF UsedSoonAfterSeen, TypeOK
<1>9. HeldSince'
  BY <1>2, <1>3, <1>5 DEF HeldSince, TypeOK
<1> QED BY <1>6, <1>8, <1>9

LEMMA InvRefuse ==
  ASSUME Inv, NEW q \in Requests, NEW client \in Clients, Refuse(q, client)
  PROVE  Inv'
<1>1. /\ waiting' \in [Requests -> Clients \cup {Nobody}]
      /\ since' \in [Requests -> Nat]
      /\ UNCHANGED <<now, visitors, admitted>> /\ refused' \in Nat
      /\ waiting'[q] = Nobody
      /\ \A p \in Requests \ {q} : waiting'[p] = waiting[p] /\ since'[p] = since[p]
  BY LimiterAssumption DEF Refuse, Done, Inv, TypeOK
<1> QED BY <1>1 DEF Inv, TypeOK, UsedSoonAfterSeen, HeldSince, Known

\* A sweep keeps every visitor that a request holds: it was seen at most Stall
\* ago, and Idle is longer.
LEMMA InvSweep ==
  ASSUME Inv, Sweep
  PROVE  Inv'
<1>1. /\ Known' = {known \in Known : now - visitors[known].lastSeen <= Idle}
      /\ \A client \in Known' : visitors'[client] = visitors[client]
      /\ visitors' \in [Known' -> Visitor]
      /\ UNCHANGED <<now, waiting, since, admitted, refused>>
  BY DEF Sweep, Known, Inv, TypeOK
<1>2. TypeOK' /\ UsedSoonAfterSeen'
  BY <1>1 DEF Inv, TypeOK, UsedSoonAfterSeen
<1>3. HeldSince'
  <2> SUFFICES ASSUME NEW q \in Requests, waiting[q] # Nobody
               PROVE  waiting[q] \in Known'
    BY <1>1 DEF HeldSince, Inv
  <2>1. /\ waiting[q] \in Known /\ now <= since[q] + Stall
        /\ since[q] <= visitors[waiting[q]].lastSeen
        /\ since[q] \in Nat /\ visitors[waiting[q]].lastSeen \in Nat
    BY DEF Inv, HeldSince, TypeOK, Visitor
  <2>2. now - visitors[waiting[q]].lastSeen <= Idle
    BY <2>1, FullIsNat, LimiterAssumption, IdleAssumption DEF Inv, TypeOK
  <2> QED BY <1>1, <2>1, <2>2
<1> QED BY <1>2, <1>3 DEF Inv

LEMMA InvTick ==
  ASSUME Inv, Tick
  PROVE  Inv'
<1>1. now' = now + 1 /\ UNCHANGED <<visitors, waiting, since, admitted, refused>>
  BY DEF Tick
<1>2. TypeOK' /\ UsedSoonAfterSeen'
  BY <1>1 DEF Inv, TypeOK, UsedSoonAfterSeen, Known, Visitor
<1>3. HeldSince'
  <2>1. \A q \in Requests : waiting[q] # Nobody => now - since[q] < Stall
    BY DEF Tick
  <2> QED BY <1>1, <2>1, LimiterAssumption DEF Inv, HeldSince, TypeOK, Known
<1> QED BY <1>2, <1>3 DEF Inv

LEMMA InvStep == Inv /\ [Next]_vars => Inv'
<1> SUFFICES ASSUME Inv, [Next]_vars PROVE Inv'
  OBVIOUS
<1>1. CASE UNCHANGED vars
  BY <1>1 DEF vars, Inv, TypeOK, UsedSoonAfterSeen, HeldSince, Known
<1> QED BY <1>1, InvLookup, InvAdmit, InvRefuse, InvSweep, InvTick DEF Next

LEMMA InvHolds == Spec => []Inv
  BY InvInit, InvStep, PTL DEF Spec

\* Every variable keeps its type: no bucket goes below empty or above full.
THEOREM TypeCorrect == Spec => []TypeOK
<1>1. Inv => TypeOK
  BY DEF Inv
<1> QED BY <1>1, InvHolds, PTL

\* No sweep drops a visitor whose bucket a request is about to use.
THEOREM HeldVisitorsStay == Spec => []HeldVisitorStays
<1>1. Inv => HeldVisitorStays
  BY DEF Inv, HeldSince, HeldVisitorStays
<1> QED BY <1>1, InvHolds, PTL

-----------------------------------------------------------------------------
(* The limiter implements one bucket that is never dropped.                *)

LEMMA LevelType ==
  ASSUME Inv
  PROVE  Level \in 0..Full
  BY FilledType, FullIsNat DEF Level, Inv

LEMMA BucketFull == Bucket!Full = Full
  BY DEF Bucket!Full, Full

\* A step that leaves the watched client's level and answers alone, and the
\* clock, is a stutter of the bucket.
LEMMA BucketStutter ==
  ASSUME UNCHANGED <<now, admitted, refused>>, Level' = Level
  PROVE  UNCHANGED Bucket!vars
  BY DEF Bucket!vars

LEMMA LookupStutters ==
  ASSUME Inv, NEW q \in Requests, NEW client \in Clients, Lookup(q, client)
  PROVE  UNCHANGED Bucket!vars
<1>1. UNCHANGED <<now, admitted, refused>> /\ Known' = Known \cup {client}
  BY DEF Lookup, Known
<1>2. Level' = Level
  <2>1. CASE Watched \in Known
    <3>1. /\ visitors'[Watched].tokens = visitors[Watched].tokens
          /\ visitors'[Watched].last = visitors[Watched].last
          /\ Watched \in Known'
      BY <1>1, <2>1 DEF Lookup, Inv, TypeOK, Visitor
    <3> QED BY <1>1, <2>1, <3>1 DEF Level, Filled
  <2>2. CASE Watched \notin Known /\ client = Watched
    <3>1. /\ visitors'[Watched].tokens = Full /\ visitors'[Watched].last = now
          /\ Watched \in Known'
      BY <1>1, <2>2 DEF Lookup
    <3> QED BY <1>1, <2>2, <3>1, FullIsNat DEF Level, Filled, Inv, TypeOK
  <2>3. CASE Watched \notin Known /\ client # Watched
    BY <1>1, <2>3 DEF Level
  <2> QED BY <2>1, <2>2, <2>3
<1> QED BY <1>1, <1>2, BucketStutter

LEMMA AdmitMaps ==
  ASSUME Inv, NEW q \in Requests, NEW client \in Clients, Admit(q, client)
  PROVE  Bucket!Admit \/ UNCHANGED Bucket!vars
<1>1. now' = now /\ refused' = refused /\ Known' = Known /\ client \in Known
  BY DEF Admit, Known
<1>2. CASE client = Watched
  <2>1. /\ Level = Filled(Watched) /\ Level >= Period /\ admitted' = admitted + 1
        /\ visitors[Watched] \in Visitor
    BY <1>1, <1>2 DEF Level, Admit, Inv, TypeOK
  <2>2. /\ visitors'[Watched].tokens = Filled(Watched) - Period
        /\ visitors'[Watched].last = now
    BY <1>1, <1>2, <2>1 DEF Admit, Visitor, Inv, TypeOK
  <2>3. Level' = Level - Period
    <3>1. Level' = LET grown == Filled(Watched) - Period + (now - now)
                   IN IF grown < Full THEN grown ELSE Full
      BY <1>1, <1>2, <2>2 DEF Level, Filled
    <3>2. Filled(Watched) \in 0..Full /\ now \in Nat
      BY <1>1, <1>2, FilledType DEF Inv, TypeOK
    <3> QED BY <2>1, <3>1, <3>2, FullIsNat
  <2> QED BY <1>1, <2>1, <2>3 DEF Bucket!Admit
<1>3. CASE client # Watched
  <2>1. UNCHANGED admitted
    BY <1>3 DEF Admit
  <2>2. Level' = Level
    <3>1. CASE Watched \in Known
      <4>1. visitors'[Watched] = visitors[Watched]
        BY <1>3, <3>1 DEF Admit, Inv, TypeOK
      <4> QED BY <1>1, <4>1 DEF Level, Filled
    <3>2. CASE Watched \notin Known
      BY <1>1, <3>2 DEF Level
    <3> QED BY <3>1, <3>2
  <2> QED BY <1>1, <2>1, <2>2, BucketStutter
<1> QED BY <1>2, <1>3

LEMMA RefuseMaps ==
  ASSUME Inv, NEW q \in Requests, NEW client \in Clients, Refuse(q, client)
  PROVE  Bucket!Refuse \/ UNCHANGED Bucket!vars
<1>1. UNCHANGED <<now, visitors, admitted>> /\ Level' = Level
  BY DEF Refuse, Level, Filled, Known
<1>2. CASE client = Watched
  <2>1. Level < Period /\ refused' = refused + 1
    BY <1>2 DEF Refuse, Level
  <2> QED BY <1>1, <2>1 DEF Bucket!Refuse
<1>3. CASE client # Watched
  BY <1>1, <1>3, BucketStutter DEF Refuse
<1> QED BY <1>2, <1>3

\* What a sweep drops is full: away for Idle, and unused for all of it but Stall.
LEMMA SweepStutters ==
  ASSUME Inv, Sweep
  PROVE  UNCHANGED Bucket!vars
<1>1. /\ Known' = {known \in Known : now - visitors[known].lastSeen <= Idle}
      /\ \A client \in Known' : visitors'[client] = visitors[client]
      /\ UNCHANGED <<now, admitted, refused>>
  BY DEF Sweep, Known
<1>2. Level' = Level
  <2>1. CASE Watched \in Known'
    BY <1>1, <2>1 DEF Level, Filled
  <2>2. CASE Watched \in Known \ Known'
    <3>1. /\ visitors[Watched] \in Visitor
          /\ visitors[Watched].last <= visitors[Watched].lastSeen + Stall
          /\ ~(now - visitors[Watched].lastSeen <= Idle)
      BY <1>1, <2>2 DEF Inv, TypeOK, UsedSoonAfterSeen
    <3>2. Filled(Watched) = Full
      BY <3>1, FullIsNat, LimiterAssumption, IdleAssumption DEF Filled, Visitor, Inv, TypeOK
    <3> QED BY <2>2, <3>2 DEF Level
  <2>3. CASE Watched \notin Known
    BY <1>1, <2>3 DEF Level
  <2> QED BY <2>1, <2>2, <2>3
<1> QED BY <1>1, <1>2, BucketStutter

LEMMA TickElapses ==
  ASSUME Inv, Tick
  PROVE  Bucket!Elapse
<1>1. now' = now + 1 /\ UNCHANGED <<visitors, admitted, refused>>
  BY DEF Tick
<1>2. Level' = IF Level < Full THEN Level + 1 ELSE Full
  <2>1. CASE Watched \in Known
    <3>1. /\ visitors[Watched] \in Visitor /\ visitors[Watched].last <= now
          /\ now \in Nat
      BY <2>1 DEF Inv, TypeOK, UsedSoonAfterSeen
    <3>2. Level = Filled(Watched)
          /\ Level' = LET grown == visitors[Watched].tokens + ((now + 1) - visitors[Watched].last)
                      IN IF grown < Full THEN grown ELSE Full
      BY <1>1, <2>1 DEF Level, Filled, Known
    <3> QED BY <3>1, <3>2, FullIsNat DEF Filled, Visitor
  <2>2. CASE Watched \notin Known
    BY <1>1, <2>2, FullIsNat DEF Level, Known
  <2> QED BY <2>1, <2>2
<1> QED BY <1>1, <1>2, BucketFull DEF Bucket!Elapse

LEMMA StepMaps == Inv /\ [Next]_vars => [Bucket!Next]_(Bucket!vars)
<1> SUFFICES ASSUME Inv, [Next]_vars
             PROVE  Bucket!Next \/ UNCHANGED Bucket!vars
  OBVIOUS
<1>1. CASE UNCHANGED vars
  <2>1. UNCHANGED <<now, admitted, refused>> /\ Level' = Level
    BY <1>1 DEF vars, Level, Filled, Known
  <2> QED BY <2>1, BucketStutter
<1>2. CASE Next
  BY <1>2, LookupStutters, AdmitMaps, RefuseMaps, SweepStutters, TickElapses
  DEF Next, Bucket!Next
<1> QED BY <1>1, <1>2

\* The limiter's answers to any one client are those of one token bucket that is
\* never dropped: forgetting idle visitors, and using a bucket outside the lock
\* that guards the map, gain and cost nobody anything.
THEOREM LimiterImplementsBucket == Spec => ImplementsTokenBucket
<1>1. Init => Bucket!Init
  <2> SUFFICES ASSUME Init PROVE Bucket!Init
    OBVIOUS
  <2>1. Level = Full
    BY DEF Init, Level, Known
  <2> QED BY <2>1, FullIsNat, BucketFull DEF Init, Bucket!Init
<1> QED BY <1>1, StepMaps, InvHolds, PTL DEF Spec, Bucket!Spec, ImplementsTokenBucket

-----------------------------------------------------------------------------
\* Period * admitted is what the watched client has been given.
Spent == Level + Period * admitted <= Full + now

LEMMA SpentStep ==
  ASSUME Inv, Spent, [Bucket!Next]_(Bucket!vars), TypeOK'
  PROVE  Spent'
<1> DEFINE given == Period * admitted
<1>1. /\ given \in Nat /\ Level \in 0..Full /\ now \in Nat /\ admitted \in Nat
      /\ Level + given <= Full + now
  BY FullIsNat, LevelType DEF Inv, TypeOK, Spent
<1>2. CASE Bucket!Admit
  <2>1. /\ Level' = Level - Period /\ now' = now
        /\ Period * admitted' = given + Period
    BY <1>1, <1>2, FullIsNat DEF Bucket!Admit
  <2> HIDE DEF given
  <2> QED BY <1>1, <2>1, FullIsNat DEF Spent
<1>3. CASE Bucket!Elapse
  <2>1. /\ Level' = (IF Level < Full THEN Level + 1 ELSE Full) /\ now' = now + 1
        /\ Period * admitted' = given
    BY <1>3, BucketFull DEF Bucket!Elapse
  <2> HIDE DEF given
  <2> QED BY <1>1, <2>1, FullIsNat DEF Spent
<1>4. CASE Bucket!Refuse \/ UNCHANGED Bucket!vars
  <2>1. Level' = Level /\ now' = now /\ admitted' = admitted
    BY <1>4 DEF Bucket!Refuse, Bucket!vars
  <2> QED BY <2>1 DEF Spent
<1> QED BY <1>2, <1>3, <1>4 DEF Bucket!Next

\* The bound the limiter exists for: one client is admitted at most Burst times,
\* and once more for each Period of the process's life, whatever is swept.
THEOREM AdmittedIsBounded == Spec => []AdmittedBounded
<1>1. Init => Spent
  <2> SUFFICES ASSUME Init PROVE Spent
    OBVIOUS
  <2>1. Level = Full /\ admitted = 0 /\ now = 0
    BY DEF Init, Level, Known
  <2> QED BY <2>1, FullIsNat DEF Spent
<1>2. Inv /\ Spent /\ [Next]_vars => Spent'
  BY StepMaps, SpentStep, InvStep DEF Inv
<1>3. Inv /\ Spent => AdmittedBounded
  <2> SUFFICES ASSUME Inv, Spent PROVE AdmittedBounded
    OBVIOUS
  <2> DEFINE given == Period * admitted
  <2>1. given \in Nat /\ Level \in 0..Full /\ now \in Nat /\ Level + given <= Full + now
    BY FullIsNat, LevelType DEF Inv, TypeOK, Spent
  <2>2. given <= Full + now
    <3> HIDE DEF given
    <3> QED BY <2>1, FullIsNat
  <2> QED BY <2>2 DEF AdmittedBounded
<1> QED BY <1>1, <1>2, <1>3, InvHolds, PTL DEF Spec

-----------------------------------------------------------------------------
(* RedisLimiter.                                                           *)


\* A call that has not been run is not older than Delay, nor is its stamp; and
\* no instance's clock is further ahead than Skew.
Recent(c, time) ==
  c.stage = "asked" =>
    /\ c.since <= c.stamp
    /\ c.stamp <= c.since + Skew
    /\ c.since <= time
    /\ time <= c.since + Delay

CallsAreRecent == \A q \in Requests : Recent(call[q], now)

\* Tokens left and taken are those of the full bucket it started with, and
\* those earned since: at most one tick for each tick of ts, plus the slack of
\* the buckets before it.
Earned ==
  store # Absent => store.tokens + Period * taken <= Full + store.ts + slack

\* The bucket's time is not further ahead than a clock was at its last run,
\* which was Full ticks before it expires.
SeenInTime ==
  store # Absent =>
    /\ store.expires <= now + Full
    /\ store.ts + Full <= store.expires + Skew

\* What was earned since the last token was taken is there.
NothingLost ==
  store # Absent =>
    \/ store.tokens = Full
    \/ store.ts <= store.tokens + lastTaken + Skew

NoneYet == store = Absent => taken = 0 /\ slack = 0

RInv ==
  /\ now \in Nat
  /\ RedisTypeOK
  /\ CallsAreRecent
  /\ Earned
  /\ SeenInTime
  /\ NothingLost
  /\ NoneYet

LEMMA Constants ==
  /\ Full \in Nat /\ Period \in Nat /\ Period > 0 /\ Period <= Full
  /\ Skew \in Nat /\ Delay \in Nat
<1>1. Burst \in Nat /\ Burst >= 1 /\ Period \in Nat /\ Period >= 1
  BY LimiterAssumption
<1>2. Burst * Period \in Nat /\ Period <= Burst * Period
  BY <1>1
<1> QED BY <1>1, <1>2, RedisAssumption DEF Full

\* What the bucket holds at a stamp.
LEMMA GrownType ==
  ASSUME RInv, NEW stamp \in Nat
  PROVE  /\ Grown(stamp) \in 0..Full
         /\ Seen(stamp) \in Nat
         /\ stamp <= Seen(stamp)
<1>1. store # Absent => store \in Hash
  BY DEF RInv, RedisTypeOK
<1>2. store # Absent => store.tokens \in 0..Full /\ store.ts \in Nat
  BY <1>1 DEF Hash
<1> QED BY <1>2, Constants DEF Grown, Seen, Live, AtMost, AtLeast

\* The new hash, whole: a reader of the script's effect needs no more.
LEMMA ScriptStore ==
  ASSUME RInv, NEW stamp \in Nat, Script(stamp)
  PROVE  /\ store' \in Hash /\ store' # Absent
         /\ store'.expires = now + Full
         /\ store'.ts = Seen(stamp)
         /\ \/ /\ Grown(stamp) >= Period
               /\ store'.tokens = Grown(stamp) - Period
               /\ taken' = taken + 1
               /\ lastTaken' = now
            \/ /\ Grown(stamp) < Period
               /\ store'.tokens = Grown(stamp)
               /\ taken' = taken
               /\ lastTaken' = lastTaken
<1>1. Grown(stamp) \in 0..Full /\ Seen(stamp) \in Nat /\ now \in Nat
  BY GrownType DEF RInv
<1> DEFINE left == IF Grown(stamp) >= Period THEN Grown(stamp) - Period ELSE Grown(stamp)
<1>2. left \in 0..Full /\ now + Full \in Nat
  BY <1>1, Constants
<1>3. store' = [tokens |-> left, ts |-> Seen(stamp), expires |-> now + Full]
  BY DEF Script
<1>4. store' \in Hash
  BY <1>1, <1>2, <1>3 DEF Hash
<1>5. store' # Absent
  BY <1>4, RedisAssumption
<1>6. CASE Grown(stamp) >= Period
  BY <1>3, <1>4, <1>5, <1>6 DEF Script
<1>7. CASE ~(Grown(stamp) >= Period)
  BY <1>1, <1>3, <1>4, <1>5, <1>7, Constants DEF Script
<1> QED BY <1>6, <1>7

\* A run of the script, of whichever instance.
LEMMA ScriptStep ==
  ASSUME RInv, NEW stamp \in Nat,
         stamp <= now + Skew, now <= stamp + Delay,
         Script(stamp), now' = now
  PROVE  /\ store' \in Hash \cup {Absent}
         /\ taken' \in Nat /\ lastTaken' \in Nat /\ slack' \in Nat
         /\ Earned' /\ SeenInTime' /\ NothingLost' /\ NoneYet'
<1> USE Constants
<1> DEFINE spent == Period * taken
<1>1. /\ taken \in Nat /\ lastTaken \in Nat /\ slack \in Nat /\ now \in Nat
      /\ spent \in Nat
  BY DEF RInv, RedisTypeOK
<1>2. /\ store' \in Hash /\ store' # Absent
      /\ store'.expires = now + Full
      /\ store'.ts = Seen(stamp)
      /\ \/ /\ Grown(stamp) >= Period
            /\ store'.tokens = Grown(stamp) - Period
            /\ taken' = taken + 1
            /\ lastTaken' = now
         \/ /\ Grown(stamp) < Period
            /\ store'.tokens = Grown(stamp)
            /\ taken' = taken
            /\ lastTaken' = lastTaken
  BY ScriptStore
<1>3. /\ Grown(stamp) \in 0..Full /\ Seen(stamp) \in Nat
  BY GrownType
<1>4. slack' = (IF store # Absent /\ ~Live THEN slack + Skew + Delay ELSE slack)
  BY DEF Script
<1>5. slack' \in Nat
  BY <1>1, <1>4
<1>6. taken' \in Nat /\ lastTaken' \in Nat
  BY <1>1, <1>2
<1>7. Period * (taken + 1) = spent + Period
  BY <1>1
<1>8. Seen(stamp) <= now + Skew
  <2>1. CASE Live
    <3>1. store \in Hash
      BY <2>1 DEF RInv, RedisTypeOK, Live
    <3>2. store.ts \in Nat /\ store.expires \in Nat
      BY <3>1 DEF Hash
    <3>3. store.expires <= now + Full /\ store.ts + Full <= store.expires + Skew
      BY <2>1 DEF RInv, SeenInTime, Live
    <3> QED BY <1>1, <2>1, <3>2, <3>3 DEF Seen, AtLeast
  <2>2. CASE ~Live
    BY <2>2 DEF Seen
  <2> QED BY <2>1, <2>2
<1>9. SeenInTime'
  BY <1>1, <1>2, <1>3, <1>8 DEF SeenInTime
<1>10. Grown(stamp) + spent <= Full + Seen(stamp) + slack'
  <2>1. CASE Live
    <3>1. store \in Hash
      BY <2>1 DEF RInv, RedisTypeOK, Live
    <3>2. store.tokens \in 0..Full /\ store.ts \in Nat
      BY <3>1 DEF Hash
    <3>3. store.tokens + spent <= Full + store.ts + slack
      BY <2>1 DEF RInv, Earned, Live
    <3>4. slack' = slack
      BY <1>4, <2>1
    <3>5. /\ Grown(stamp) <= store.tokens + AtLeast(0, stamp - store.ts)
          /\ Seen(stamp) = AtLeast(store.ts, stamp)
      BY <2>1, <3>2 DEF Grown, Seen, AtMost, AtLeast
    <3> QED BY <1>1, <1>3, <3>2, <3>3, <3>4, <3>5 DEF AtLeast
  <2>2. CASE ~Live /\ store # Absent
    <3>1. store \in Hash
      BY <2>2 DEF RInv, RedisTypeOK
    <3>2. store.tokens \in 0..Full /\ store.ts \in Nat /\ store.expires \in Nat
      BY <3>1 DEF Hash
    <3>3. store.tokens + spent <= Full + store.ts + slack
      BY <2>2 DEF RInv, Earned
    <3>4. store.ts + Full <= store.expires + Skew /\ store.expires <= now
      BY <1>1, <2>2, <3>2 DEF RInv, SeenInTime, Live
    <3>5. slack' = slack + Skew + Delay /\ Grown(stamp) = Full /\ Seen(stamp) = stamp
      BY <1>4, <2>2 DEF Grown, Seen
    <3> QED BY <1>1, <3>2, <3>3, <3>4, <3>5
  <2>3. CASE store = Absent
    <3>1. taken = 0 /\ ~Live
      BY <2>3 DEF RInv, NoneYet, Live
    <3>2. spent = 0
      BY <3>1
    <3>3. Grown(stamp) = Full
      BY <3>1 DEF Grown
    <3> QED BY <1>3, <1>5, <3>2, <3>3
  <2> QED BY <2>1, <2>2, <2>3
<1>11. store'.tokens + Period * taken' <= Full + store'.ts + slack'
  <2> DEFINE grown == Grown(stamp)  seen == Seen(stamp)  later == slack'
  <2>1. CASE Grown(stamp) >= Period
    <3>1. store'.tokens = grown - Period /\ Period * taken' = spent + Period
      BY <1>2, <1>3, <1>7, <2>1
    <3>2. store'.ts = seen /\ grown \in Nat /\ seen \in Nat /\ later \in Nat
      BY <1>2, <1>3, <1>5
    <3>3. grown + spent <= Full + seen + later
      BY <1>10
    <3> HIDE DEF grown, seen, later, spent
    <3>4. grown - Period + (spent + Period) <= Full + seen + later
      BY <3>2, <3>3, <1>1
    <3> QED BY <3>1, <3>2, <3>4 DEF later
  <2>2. CASE ~(Grown(stamp) >= Period)
    <3>1. store'.tokens = grown /\ Period * taken' = spent /\ store'.ts = seen
      BY <1>2, <1>3, <2>2
    <3> QED BY <1>10, <3>1
  <2> QED BY <2>1, <2>2
<1>12. Earned'
  BY <1>11 DEF Earned
<1>13. NothingLost'
  <2>1. CASE Grown(stamp) >= Period
    <3>1. lastTaken' = now /\ store'.tokens \in Nat
      BY <1>2, <1>3, <2>1
    <3> QED BY <1>1, <1>2, <1>3, <1>8, <3>1 DEF NothingLost
  <2>2. CASE ~(Grown(stamp) >= Period)
    <3>1. Live
      BY <2>2 DEF Grown
    <3>2. store \in Hash
      BY <3>1 DEF RInv, RedisTypeOK, Live
    <3>3. store.tokens \in 0..Full /\ store.ts \in Nat
      BY <3>2 DEF Hash
    <3>4. store.tokens = Full \/ store.ts <= store.tokens + lastTaken + Skew
      BY <3>1 DEF RInv, NothingLost, Live
    <3>5. /\ Grown(stamp) = store.tokens + AtLeast(0, stamp - store.ts)
          /\ Seen(stamp) = AtLeast(store.ts, stamp)
      BY <2>2, <3>1, <3>3 DEF Grown, Seen, AtMost, AtLeast
    <3>6. store'.tokens = Grown(stamp) /\ store'.ts = Seen(stamp) /\ lastTaken' = lastTaken
      BY <1>2, <1>3, <2>2
    <3>7. Seen(stamp) <= Grown(stamp) + lastTaken + Skew
      BY <1>1, <2>2, <3>3, <3>4, <3>5 DEF AtLeast
    <3> QED BY <3>6, <3>7 DEF NothingLost
  <2> QED BY <2>1, <2>2
<1>14. NoneYet'
  BY <1>2 DEF NoneYet
<1> QED BY <1>2, <1>5, <1>6, <1>9, <1>12, <1>13, <1>14

LEMMA RInvInit == RedisInit => RInv
<1> SUFFICES ASSUME RedisInit PROVE RInv
  OBVIOUS
<1> USE Constants
<1>1. now = 0 /\ store = Absent /\ taken = 0 /\ lastTaken = 0 /\ slack = 0
  BY DEF RedisInit, Init
<1>2. call \in [Requests -> [stage : {"none", "asked", "yes", "no"}, stamp : Nat, since : Nat]]
  BY DEF RedisInit, NoCall
<1>3. CallsAreRecent
  BY DEF RedisInit, NoCall, CallsAreRecent, Recent
<1> QED BY <1>1, <1>2, <1>3
        DEF RedisInit, RInv, RedisTypeOK, Earned, SeenInTime, NothingLost, NoneYet

Untouched == UNCHANGED <<configured, ahead, store, taken, lastTaken, slack>>

\* The calls keep their type whatever else is done.
Stage == {"none", "asked", "yes", "no"}
Calls == [Requests -> [stage : Stage, stamp : Nat, since : Nat]]

\* A step that runs no script and lets no time pass.
LEMMA QuietStep ==
  ASSUME RInv, Untouched, now' = now, call' \in Calls, CallsAreRecent'
  PROVE  RInv'
<1>1. RedisTypeOK'
  BY DEF RInv, RedisTypeOK, Untouched, Calls, Stage
<1>2. Earned' /\ SeenInTime' /\ NothingLost' /\ NoneYet'
  BY DEF RInv, Earned, SeenInTime, NothingLost, NoneYet, Untouched
<1> QED BY <1>1, <1>2 DEF RInv

\* A step after which one call is over, or has begun just now.
LEMMA OneCall ==
  ASSUME RInv, NEW q \in Requests, now' = now, Untouched,
         NEW c \in [stage : Stage, stamp : Nat, since : Nat],
         call' = [call EXCEPT ![q] = c],
         Recent(c, now)
  PROVE  RInv'
<1>1. call \in Calls
  BY DEF RInv, RedisTypeOK, Calls, Stage
<1>2. call' \in Calls
  BY <1>1 DEF Calls
<1>3. CallsAreRecent'
  <2> SUFFICES ASSUME NEW r \in Requests PROVE Recent(call'[r], now)
    BY DEF CallsAreRecent, Recent
  <2>1. CASE r = q
    BY <1>1, <2>1 DEF Calls
  <2>2. CASE r # q
    <3>1. call'[r] = call[r]
      BY <1>1, <2>2 DEF Calls
    <3> QED BY <3>1 DEF RInv, CallsAreRecent
  <2> QED BY <2>1, <2>2
<1> QED BY <1>2, <1>3, QuietStep

LEMMA RInvNext == RInv /\ [RedisNext]_allVars => RInv'
<1> SUFFICES ASSUME RInv, [RedisNext]_allVars PROVE RInv'
  OBVIOUS
<1> USE Constants
<1>0. now \in Nat /\ ahead \in 0..Skew /\ call \in Calls
  BY DEF RInv, RedisTypeOK, Calls, Stage
<1>1. ASSUME NEW q \in Requests, Ask(q) PROVE RInv'
  <2> DEFINE c == [stage |-> "asked", stamp |-> now + ahead, since |-> now]
  <2>1. /\ c \in [stage : Stage, stamp : Nat, since : Nat]
        /\ Recent(c, now)
    BY <1>0 DEF Stage, Recent
  <2>2. call' = [call EXCEPT ![q] = c] /\ now' = now /\ Untouched
    BY <1>1 DEF Ask, Untouched, history
  <2> HIDE DEF c
  <2> QED BY <2>1, <2>2, OneCall
<1>2. ASSUME NEW q \in Requests, Run(q) PROVE RInv'
  <2> DEFINE stamp == call[q].stamp
             answer == IF Grown(call[q].stamp) >= Period THEN "yes" ELSE "no"
  <2>1. /\ stamp \in Nat /\ stamp <= now + Skew /\ now <= stamp + Delay
        /\ Script(stamp) /\ now' = now
    BY <1>0, <1>2 DEF Run, RInv, CallsAreRecent, Recent, Calls
  <2>2. call' = [call EXCEPT ![q].stage = answer] /\ UNCHANGED <<configured, ahead>>
    BY <1>2 DEF Run
  <2>3. call' \in Calls
    BY <1>0, <2>2 DEF Calls, Stage
  <2>4. CallsAreRecent'
    BY <1>0, <2>1, <2>2 DEF RInv, CallsAreRecent, Recent, Calls
  <2>5. /\ store' \in Hash \cup {Absent}
        /\ taken' \in Nat /\ lastTaken' \in Nat /\ slack' \in Nat
        /\ Earned' /\ SeenInTime' /\ NothingLost' /\ NoneYet'
    BY <2>1, ScriptStep
  <2> QED BY <1>0, <2>1, <2>2, <2>3, <2>4, <2>5 DEF RInv, RedisTypeOK, Calls, Stage
<1>3. ASSUME NEW q \in Requests, Answer(q) PROVE RInv'
  <2>1. call' = [call EXCEPT ![q] = NoCall] /\ now' = now /\ Untouched
    BY <1>3 DEF Answer, Untouched, history
  <2>2. NoCall \in [stage : Stage, stamp : Nat, since : Nat] /\ Recent(NoCall, now)
    BY DEF NoCall, Stage, Recent
  <2> HIDE DEF NoCall
  <2> QED BY <2>1, <2>2, OneCall
<1>4. ASSUME NEW q \in Requests, NEW client \in Clients, FallBack(q, client) PROVE RInv'
  <2>1. call' = [call EXCEPT ![q] = NoCall] /\ now' = now /\ Untouched
    BY <1>4 DEF FallBack, Lookup, Untouched, history
  <2>2. NoCall \in [stage : Stage, stamp : Nat, since : Nat] /\ Recent(NoCall, now)
    BY DEF NoCall, Stage, Recent
  <2> HIDE DEF NoCall
  <2> QED BY <2>1, <2>2, OneCall
<1>5. ASSUME OtherRun PROVE RInv'
  <2>1. PICK stamp \in AtLeast(0, now - Delay)..(now + Skew) : Script(stamp)
    BY <1>5 DEF OtherRun
  <2>2. stamp \in Nat /\ stamp <= now + Skew /\ now <= stamp + Delay
    BY <1>0, <2>1 DEF AtLeast
  <2>3. now' = now /\ UNCHANGED <<configured, ahead, call>>
    BY <1>5 DEF OtherRun
  <2>4. /\ store' \in Hash \cup {Absent}
        /\ taken' \in Nat /\ lastTaken' \in Nat /\ slack' \in Nat
        /\ Earned' /\ SeenInTime' /\ NothingLost' /\ NoneYet'
    BY <2>1, <2>2, <2>3, ScriptStep
  <2>5. CallsAreRecent'
    BY <2>3 DEF RInv, CallsAreRecent
  <2> QED BY <2>3, <2>4, <2>5 DEF RInv, RedisTypeOK
<1>6. ASSUME InMemory PROVE RInv'
  <2>1. now' = now /\ Untouched /\ call' = call
    BY <1>6 DEF InMemory, Admit, Refuse, Sweep, Untouched, history
  <2>2. CallsAreRecent'
    BY <2>1 DEF RInv, CallsAreRecent
  <2> QED BY <1>0, <2>1, <2>2, QuietStep
<1>7. ASSUME RedisTick PROVE RInv'
  <2>1. now' = now + 1 /\ Untouched /\ call' = call
    BY <1>7 DEF RedisTick, Tick, Untouched, history
  <2>2. CallsAreRecent'
    <3> SUFFICES ASSUME NEW q \in Requests PROVE Recent(call[q], now + 1)
      BY <2>1 DEF CallsAreRecent, Recent
    <3>1. call[q] # NoCall => now - call[q].since < Delay
      BY <1>7 DEF RedisTick
    <3>2. call[q].stage = "asked" => call[q] # NoCall
      BY DEF NoCall
    <3>3. call[q].since \in Nat
      BY <1>0 DEF Calls
    <3> QED BY <1>0, <3>1, <3>2, <3>3 DEF RInv, CallsAreRecent, Recent
  <2>3. RedisTypeOK'
    BY <2>1 DEF RInv, RedisTypeOK, Untouched
  <2>4. Earned' /\ NothingLost' /\ NoneYet'
    BY <2>1 DEF RInv, Earned, NothingLost, NoneYet, Untouched
  <2>5. SeenInTime'
    <3>1. store # Absent => store.expires \in Nat
      BY DEF RInv, RedisTypeOK, Hash
    <3> QED BY <1>0, <2>1, <3>1 DEF RInv, SeenInTime, Untouched
  <2> QED BY <1>0, <2>1, <2>2, <2>3, <2>4, <2>5 DEF RInv
<1>8. ASSUME UNCHANGED allVars PROVE RInv'
  <2>1. now' = now /\ Untouched /\ call' = call
    BY <1>8 DEF allVars, Untouched, history
  <2>2. CallsAreRecent'
    BY <2>1 DEF RInv, CallsAreRecent
  <2> QED BY <1>0, <2>1, <2>2, QuietStep
<1> QED BY <1>1, <1>2, <1>3, <1>4, <1>5, <1>6, <1>7, <1>8 DEF RedisNext

LEMMA RInvHolds == RedisSpec => []RInv
<1> QED BY RInvInit, RInvNext, PTL DEF RedisSpec

\* The hash in Redis, the calls and the counts keep their types.
THEOREM RedisTypeCorrect == RedisSpec => []RedisTypeOK
<1>1. RInv => RedisTypeOK
  BY DEF RInv
<1> QED BY <1>1, RInvHolds, PTL

\* The tokens all instances take are bounded, whatever their clocks say and in
\* whatever order and however often their calls are run.
THEOREM RedisIsBounded == RedisSpec => []RedisBounded
<1>1. RInv => RedisBounded
  <2> SUFFICES ASSUME RInv PROVE RedisBounded
    OBVIOUS
  <2> DEFINE spent == Period * taken
  <2>1. taken \in Nat /\ slack \in Nat /\ now \in Nat /\ spent \in Nat
    BY Constants DEF RInv, RedisTypeOK
  <2>2. CASE store = Absent
    <3>1. spent = 0
      BY <2>2, Constants DEF RInv, NoneYet
    <3> QED BY <2>1, <3>1, Constants DEF RedisBounded
  <2>3. CASE store # Absent
    <3>1. store \in Hash
      BY <2>3 DEF RInv, RedisTypeOK
    <3>2. store.tokens \in 0..Full /\ store.ts \in Nat /\ store.expires \in Nat
      BY <3>1 DEF Hash
    <3>3. store.tokens + spent <= Full + store.ts + slack
      BY <2>3 DEF RInv, Earned
    <3>4. store.expires <= now + Full /\ store.ts + Full <= store.expires + Skew
      BY <2>3 DEF RInv, SeenInTime
    <3>5. spent <= Full + now + Skew + slack
      BY <2>1, <3>2, <3>3, <3>4, Constants
    <3> QED BY <3>5 DEF RedisBounded
  <2> QED BY <2>2, <2>3
<1> QED BY <1>1, RInvHolds, PTL

LEMMA RefusedRun ==
  ASSUME RInv, NEW stamp \in Nat, now <= stamp + Delay, Script(stamp), taken' = taken
  PROVE  now - lastTaken < Period + Skew + Delay
<1> USE Constants
<1>1. now \in Nat /\ taken \in Nat /\ lastTaken \in Nat
  BY DEF RInv, RedisTypeOK
<1>2. Grown(stamp) < Period
  BY <1>1, GrownType DEF Script
<1>3. Live
  BY <1>2 DEF Grown
<1>4. store \in Hash
  BY <1>3 DEF RInv, RedisTypeOK, Live
<1>5. store.tokens \in 0..Full /\ store.ts \in Nat
  BY <1>4 DEF Hash
<1>6. store.tokens = Full \/ store.ts <= store.tokens + lastTaken + Skew
  BY <1>3 DEF RInv, NothingLost, Live
<1>7. store.tokens + AtLeast(0, stamp - store.ts) < Period
  BY <1>2, <1>3, <1>5 DEF Grown, AtMost, AtLeast
<1>8. stamp < Period + lastTaken + Skew
  BY <1>1, <1>5, <1>6, <1>7 DEF AtLeast
<1> QED BY <1>1, <1>8

\* No client is turned away for longer than a token takes to come back, give or
\* take the clocks and the delay.
THEOREM TurnedAwayOnlyIfSpent == RedisSpec => TurnedAwayOnlyWhenSpent
<1>1. RInv /\ [RedisNext]_allVars =>
        [store' # store /\ taken' = taken => now - lastTaken < Period + Skew + Delay]_allVars
  <2> SUFFICES ASSUME RInv, RedisNext, store' # store, taken' = taken
               PROVE  now - lastTaken < Period + Skew + Delay
    BY DEF allVars
  <2>1. ASSUME NEW q \in Requests, Run(q)
        PROVE  now - lastTaken < Period + Skew + Delay
    <3>1. /\ call[q].stamp \in Nat /\ now <= call[q].stamp + Delay
          /\ Script(call[q].stamp)
      BY <2>1, Constants DEF Run, RInv, RedisTypeOK, CallsAreRecent, Recent
    <3> QED BY <3>1, RefusedRun
  <2>2. ASSUME OtherRun
        PROVE  now - lastTaken < Period + Skew + Delay
    <3>1. PICK stamp \in AtLeast(0, now - Delay)..(now + Skew) : Script(stamp)
      BY <2>2 DEF OtherRun
    <3>2. stamp \in Nat /\ now <= stamp + Delay
      BY <3>1, Constants DEF RInv, AtLeast
    <3> QED BY <3>1, <3>2, RefusedRun
  <2>3. (\E q \in Requests : Run(q)) \/ OtherRun
    BY DEF RedisNext, Ask, Answer, FallBack, InMemory, RedisTick
  <2> QED BY <2>1, <2>2, <2>3
<1> QED BY <1>1, RInvHolds, PTL DEF RedisSpec, TurnedAwayOnlyWhenSpent

-----------------------------------------------------------------------------
(* The limiter that Redis stands in front of.                              *)

\* A call of the script, a run of it and its answer leave the map alone; a call
\* that fails is a lookup in it.
LEMMA LimiterBehind == RedisSpec => Spec
<1>1. RedisInit => Init
  BY DEF RedisInit
<1>2. [RedisNext]_allVars => [Next]_vars
  <2> SUFFICES ASSUME [RedisNext]_allVars
               PROVE  Next \/ UNCHANGED vars
    OBVIOUS
  <2>1. CASE UNCHANGED allVars
    BY <2>1 DEF allVars, limiter, vars
  <2>2. CASE OtherRun \/ \E q \in Requests : Ask(q) \/ Run(q) \/ Answer(q)
    BY <2>2, Zenon DEF OtherRun, Ask, Run, Answer, limiter, vars
  <2>3. CASE \E q \in Requests, client \in Clients : FallBack(q, client)
    BY <2>3, Zenon DEF FallBack, Next
  <2>4. CASE InMemory
    BY <2>4, Zenon DEF InMemory, Next
  <2>5. CASE RedisTick
    BY <2>5, Zenon DEF RedisTick, Next
  <2> QED BY <2>1, <2>2, <2>3, <2>4, <2>5 DEF RedisNext
<1> QED BY <1>1, <1>2, PTL DEF RedisSpec, Spec

\* The limiter an instance falls back on answers as one token bucket would,
\* whichever calls fail, however late, and whether or not the script has run
\* for them (allow of redisLimiter, and allow of ipLimiter behind it).
THEOREM FallbackImplementsBucket == RedisSpec => ImplementsTokenBucket
  BY LimiterBehind, LimiterImplementsBucket, PTL

=============================================================================
