---------------------------- MODULE HttpFrontProofs ----------------------------
(***************************************************************************)
(* Theorems about RateLimiter and HttpFront, for every number of requests, *)
(* rate, burst and pair of intervals that LimiterAssumption admits.        *)
(***************************************************************************)
EXTENDS HttpFront, TLAPS

(***************************************************************************)
(* What a bucket regains.                                                  *)
(***************************************************************************)
\* What a bucket has regained at least since its entry was last touched: a
\* request that touched it took its token no later than 2 * MaxStall after.
Regained(i) == Rate * (i - 2 * MaxStall)

\* Arithmetic the provers do not find by themselves.
LEMMA TimesSucc == \A a, b \in Int : a * (b + 1) = a * b + a
  OBVIOUS

\* Multiplying by a natural number keeps the order.
LEMMA TimesMono == \A a \in Nat, b, c \in Int : b <= c => a * b <= a * c
  OBVIOUS

\* Zero times anything.
LEMMA TimesZero == \A a \in Int : a * 0 = 0
  OBVIOUS

\* What a bucket regains is a number.
LEMMA RegainedType == \A i \in Nat : Regained(i) \in Int
  BY LimiterAssumption DEF Regained

\* Nothing is counted on while the touch is recent.
LEMMA RegainedNothing == \A i \in Nat : i <= 2 * MaxStall => Regained(i) <= 0
<1> SUFFICES ASSUME NEW i \in Nat, i <= 2 * MaxStall PROVE Rate * (i - 2 * MaxStall) <= 0
  BY DEF Regained
<1>1. i - 2 * MaxStall \in Int /\ i - 2 * MaxStall <= 0 /\ Rate \in Nat
  BY LimiterAssumption
<1> QED BY <1>1, TimesMono, TimesZero

\* One tick regains what it refills.
LEMMA RegainedTick == \A i \in Nat : Regained(i + 1) = Regained(i) + Rate
<1> SUFFICES ASSUME NEW i \in Nat
             PROVE  Rate * ((i + 1) - 2 * MaxStall) = Rate * (i - 2 * MaxStall) + Rate
  BY DEF Regained
<1>1. i - 2 * MaxStall \in Int /\ Rate \in Int
  BY LimiterAssumption
<1>2. (i + 1) - 2 * MaxStall = (i - 2 * MaxStall) + 1
  BY LimiterAssumption
<1> QED BY <1>1, <1>2, TimesSucc

\* An entry that may be evicted has regained everything.
LEMMA RegainedAll == \A i \in Nat : i > IdleTTL => Regained(i) >= Burst
<1> SUFFICES ASSUME NEW i \in Nat, i > IdleTTL PROVE Rate * (i - 2 * MaxStall) >= Burst
  BY DEF Regained
<1>1. /\ i - 2 * MaxStall \in Int /\ IdleTTL - 2 * MaxStall \in Int /\ Rate \in Nat
      /\ IdleTTL - 2 * MaxStall <= i - 2 * MaxStall
  BY LimiterAssumption
<1>2. Rate * (IdleTTL - 2 * MaxStall) <= Rate * (i - 2 * MaxStall)
  BY <1>1, TimesMono
<1>3. Rate * (i - 2 * MaxStall) \in Int /\ Rate * (IdleTTL - 2 * MaxStall) \in Int
  BY <1>1
<1> QED BY <1>2, <1>3, LimiterAssumption

(***************************************************************************)
(* The limiter's invariant.  A request that fetched a limiter holds the    *)
(* one in the map, touched recently; the bucket in the map is full or has  *)
(* regained what its idle time allows.                                     *)
(***************************************************************************)
FetchedIsCurrent ==
  \A r \in Req : at[r] = "fetched" =>
    /\ got[r] = current /\ current # None
    /\ idle <= MaxStall + since[r]

BucketRegains ==
  current # None => tokens[current] = Burst \/ tokens[current] >= Regained(idle)

LimiterInv == LimiterTypeOK /\ FetchedIsCurrent /\ BucketRegains /\ EvictionIsInvisible

\* An empty map of buckets behaves like the ideal limiter.
LEMMA LimiterInitInv == LimiterInit => LimiterInv
  BY LimiterAssumption
  DEF LimiterInit, LimiterInv, LimiterTypeOK, FetchedIsCurrent, BucketRegains, EvictionIsInvisible

\* A refill stays within the burst, and a full bucket stays full.
LEMMA RefillType == \A n \in 0..Burst : Refill(n) \in 0..Burst /\ (n = Burst => Refill(n) = Burst)
  BY LimiterAssumption DEF Refill

\* Reading the clock touches no bucket.
LEMMA ReadClockInv ==
  ASSUME LimiterInv, NEW r \in Req, ReadClock(r)
  PROVE  LimiterInv'
<1>1. LimiterTypeOK'
  BY LimiterAssumption DEF LimiterInv, LimiterTypeOK, ReadClock, bucketVars
<1>2. FetchedIsCurrent'
  BY DEF LimiterInv, LimiterTypeOK, FetchedIsCurrent, ReadClock, bucketVars
<1>3. BucketRegains' /\ EvictionIsInvisible'
  BY DEF LimiterInv, BucketRegains, EvictionIsInvisible, ReadClock, bucketVars
<1> QED BY <1>1, <1>2, <1>3 DEF LimiterInv

\* Fetching or creating the entry makes it recent.
LEMMA TouchInv ==
  ASSUME LimiterInv, NEW r \in Req, Touch(r)
  PROVE  LimiterInv'
<1>0. since[r] \in 0..MaxStall /\ MaxStall \in Nat /\ since[r] \in Nat
  BY LimiterAssumption DEF LimiterInv, LimiterTypeOK
<1>1. CASE current = None
  <2>1. PICK x \in Limiter : Fetch(r, x, since[r]) /\ tokens' = [tokens EXCEPT ![x] = Burst]
    BY <1>1 DEF Touch
  <2>2. \A q \in Req : at[q] # "fetched"
    BY <1>1 DEF LimiterInv, FetchedIsCurrent
  <2>3. current' = x /\ tokens'[x] = Burst /\ ideal' = ideal /\ idle' = since[r] /\ since' = since
    BY <2>1 DEF Fetch, LimiterInv, LimiterTypeOK
  <2>4. LimiterTypeOK'
    BY <1>0, <2>1, LimiterAssumption DEF LimiterInv, LimiterTypeOK, Fetch
  <2>5. FetchedIsCurrent'
    BY <1>0, <2>1, <2>2, <2>3, LimiterAssumption DEF LimiterInv, LimiterTypeOK, FetchedIsCurrent, Fetch
  <2>6. BucketRegains' /\ EvictionIsInvisible'
    BY <1>1, <2>1, <2>3, LimiterAssumption DEF LimiterInv, BucketRegains, EvictionIsInvisible
  <2> QED BY <2>4, <2>5, <2>6 DEF LimiterInv
<1>2. CASE current # None
  <2>1. Fetch(r, current, since[r]) /\ tokens' = tokens
    BY <1>2 DEF Touch
  <2>2. current' = current /\ ideal' = ideal /\ idle' = since[r] /\ since' = since
    BY <2>1 DEF Fetch
  <2>3. LimiterTypeOK'
    BY <1>0, <1>2, <2>1 DEF LimiterInv, LimiterTypeOK, Fetch
  <2>4. FetchedIsCurrent'
    BY <1>0, <1>2, <2>1, <2>2 DEF LimiterInv, LimiterTypeOK, FetchedIsCurrent, Fetch
  <2>5. BucketRegains'
    <3>1. Regained(since[r]) <= 0 /\ Regained(since[r]) \in Int
      BY <1>0, RegainedNothing, RegainedType
    <3>2. tokens[current] \in Nat
      BY <1>2, LimiterAssumption DEF LimiterInv, LimiterTypeOK
    <3>3. tokens[current] >= Regained(since[r])
      BY <3>1, <3>2
    <3> QED BY <2>1, <2>2, <3>3 DEF BucketRegains, Regained
  <2>6. EvictionIsInvisible'
    BY <1>2, <2>1, <2>2 DEF LimiterInv, EvictionIsInvisible
  <2> QED BY <2>3, <2>4, <2>5, <2>6 DEF LimiterInv
<1> QED BY <1>1, <1>2

\* A request leaves allow, from a bucket touched recently.
LEMMA AllowInv ==
  ASSUME LimiterInv, NEW r \in Req, Admit(r) \/ Refuse(r)
  PROVE  LimiterInv'
<1>1. /\ at[r] = "fetched" /\ got[r] = current /\ current \in Limiter
      /\ idle <= MaxStall + since[r] /\ since[r] \in 0..MaxStall /\ idle \in Nat
  BY DEF LimiterInv, LimiterTypeOK, FetchedIsCurrent, Admit, Refuse
<1>2. current # None /\ tokens[current] = ideal /\ tokens[current] \in 0..Burst
  BY <1>1, LimiterAssumption DEF LimiterInv, LimiterTypeOK, EvictionIsInvisible
<1>3. Leave(r)
  BY DEF Admit, Refuse
<1>4. /\ tokens' \in [Limiter -> 0..Burst] /\ tokens'[current] = ideal'
      /\ ideal' \in 0..Burst
  <2>1. CASE Admit(r)
    BY <1>1, <1>2, <2>1, LimiterAssumption DEF Admit, LimiterInv, LimiterTypeOK
  <2>2. CASE Refuse(r)
    BY <1>1, <1>2, <2>2 DEF Refuse, LimiterInv, LimiterTypeOK
  <2> QED BY <2>1, <2>2
<1>5. LimiterTypeOK'
  BY <1>1, <1>3, <1>4, LimiterAssumption DEF LimiterInv, LimiterTypeOK, Leave
<1>6. FetchedIsCurrent'
  BY <1>3 DEF LimiterInv, LimiterTypeOK, FetchedIsCurrent, Leave
<1>7. BucketRegains'
  <2>1. idle <= 2 * MaxStall
    BY <1>1, LimiterAssumption
  <2>2. Regained(idle) <= 0 /\ Regained(idle) \in Int
    BY <1>1, <2>1, RegainedNothing, RegainedType
  <2>3. tokens'[current] \in Nat
    BY <1>1, <1>4, LimiterAssumption
  <2>4. tokens'[current] >= Regained(idle)
    BY <2>2, <2>3
  <2>5. current' = current /\ idle' = idle
    BY <1>3 DEF Leave
  <2> QED BY <2>4, <2>5 DEF BucketRegains, Regained
<1>8. EvictionIsInvisible'
  BY <1>2, <1>3, <1>4 DEF EvictionIsInvisible, Leave
<1> QED BY <1>5, <1>6, <1>7, <1>8 DEF LimiterInv

\* The janitor drops only a full bucket that no request holds.
LEMMA SweepInv ==
  ASSUME LimiterInv, Sweep
  PROVE  LimiterInv'
<1>0. at' = at /\ since' = since /\ got' = got /\ tokens' = tokens /\ ideal' = ideal
  BY DEF Sweep, allowVars
<1>1. CASE Expired
  <2>1. current' = None /\ idle' = 0
    BY <1>1 DEF Sweep
  <2>2. \A r \in Req : at[r] # "fetched"
    <3> SUFFICES ASSUME NEW r \in Req, at[r] = "fetched" PROVE FALSE
      OBVIOUS
    <3>1. idle <= MaxStall + since[r] /\ since[r] \in 0..MaxStall /\ idle \in Nat
      BY DEF LimiterInv, LimiterTypeOK, FetchedIsCurrent
    <3> QED BY <1>1, <3>1, LimiterAssumption DEF Expired
  <2>3. idle \in Nat /\ idle > IdleTTL /\ current # None /\ tokens[current] \in 0..Burst
    BY <1>1 DEF Expired, LimiterInv, LimiterTypeOK
  <2>4. tokens[current] = Burst
    <3>1. Regained(idle) >= Burst /\ Regained(idle) \in Int
      BY <2>3, RegainedAll, RegainedType
    <3>2. tokens[current] = Burst \/ tokens[current] >= Regained(idle)
      BY <2>3 DEF LimiterInv, BucketRegains
    <3> QED BY <2>3, <3>1, <3>2, LimiterAssumption
  <2>5. ideal = Burst
    BY <2>3, <2>4 DEF LimiterInv, EvictionIsInvisible
  <2>6. LimiterTypeOK'
    BY <1>0, <2>1, LimiterAssumption DEF Sweep, LimiterInv, LimiterTypeOK
  <2> QED BY <1>0, <2>1, <2>2, <2>5, <2>6
          DEF LimiterInv, FetchedIsCurrent, BucketRegains, EvictionIsInvisible
<1>2. CASE ~Expired
  <2>1. current' = current /\ idle' = idle
    BY <1>2 DEF Sweep
  <2>2. LimiterTypeOK'
    BY <1>0, <2>1, LimiterAssumption DEF Sweep, LimiterInv, LimiterTypeOK
  <2> QED BY <1>0, <2>1, <2>2
          DEF LimiterInv, FetchedIsCurrent, BucketRegains, EvictionIsInvisible, Regained
<1> QED BY <1>1, <1>2

\* Time refills the bucket in the map and the ideal one alike.
LEMMA TickInv ==
  ASSUME LimiterInv, LimiterTick
  PROVE  LimiterInv'
<1>0. at' = at /\ got' = got /\ current' = current /\ ideal' = Refill(ideal)
  BY DEF LimiterTick
<1>1. \A x \in Limiter : tokens[x] \in 0..Burst /\ tokens'[x] = Refill(tokens[x])
  BY DEF LimiterTick, LimiterInv, LimiterTypeOK
<1>2. \A r \in Req : /\ since[r] \in Nat
                     /\ at[r] = "fetched" => since'[r] = since[r] + 1
                     /\ since'[r] \in 0..MaxStall
  BY LimiterAssumption DEF LimiterTick, LimiterInv, LimiterTypeOK
<1>3. ideal \in 0..Burst
  BY <1>1, LimiterAssumption DEF LimiterInv, LimiterTypeOK, EvictionIsInvisible
<1>4. LimiterTypeOK'
  <2>1. ideal' \in 0..Burst
    BY <1>0, <1>3, RefillType
  <2>2. tokens' \in [Limiter -> 0..Burst]
    BY <1>1, RefillType DEF LimiterTick
  <2>3. since' \in [Req -> 0..MaxStall]
    BY <1>2 DEF LimiterTick
  <2>4. idle' \in Nat /\ sweepIn' \in 0..SweepInterval
    BY LimiterAssumption DEF LimiterTick, LimiterInv, LimiterTypeOK
  <2> QED BY <1>0, <2>1, <2>2, <2>3, <2>4, LimiterAssumption DEF LimiterInv, LimiterTypeOK
<1>5. FetchedIsCurrent'
  <2> SUFFICES ASSUME NEW r \in Req, at'[r] = "fetched"
               PROVE  got'[r] = current' /\ current' # None /\ idle' <= MaxStall + since'[r]
    BY DEF FetchedIsCurrent
  <2>1. got[r] = current /\ current # None /\ idle <= MaxStall + since[r] /\ idle \in Nat
    BY <1>0 DEF LimiterInv, LimiterTypeOK, FetchedIsCurrent
  <2>2. idle' = idle + 1 /\ since'[r] = since[r] + 1
    BY <1>0, <1>2, <2>1 DEF LimiterTick
  <2> QED BY <1>0, <1>2, <2>1, <2>2, LimiterAssumption
<1>6. BucketRegains'
  <2> SUFFICES ASSUME current # None
               PROVE  tokens'[current] = Burst \/ tokens'[current] >= Regained(idle')
    BY <1>0 DEF BucketRegains, Regained
  <2>1. current \in Limiter /\ idle \in Nat /\ idle' = idle + 1
    BY DEF LimiterInv, LimiterTypeOK, LimiterTick
  <2>2. Regained(idle') = Regained(idle) + Rate /\ Regained(idle) \in Int
    BY <2>1, RegainedTick, RegainedType
  <2>3. tokens[current] = Burst \/ tokens[current] >= Regained(idle)
    BY DEF LimiterInv, BucketRegains
  <2>4. tokens'[current] = Refill(tokens[current]) /\ tokens[current] \in 0..Burst
    BY <1>1, <2>1
  <2> QED BY <2>2, <2>3, <2>4, LimiterAssumption DEF Refill
<1>7. EvictionIsInvisible'
  BY <1>0, <1>1, <1>3, RefillType, LimiterAssumption DEF LimiterInv, LimiterTypeOK, EvictionIsInvisible
<1> QED BY <1>4, <1>5, <1>6, <1>7 DEF LimiterInv

\* Every step of the limiter keeps its invariant.
LEMMA LimiterNextInv == LimiterInv /\ [LimiterNext]_limiterVars => LimiterInv'
<1> SUFFICES ASSUME LimiterInv, [LimiterNext]_limiterVars PROVE LimiterInv'
  OBVIOUS
<1>1. CASE \E r \in Req : ReadClock(r) \/ Touch(r) \/ Admit(r) \/ Refuse(r)
  BY <1>1, ReadClockInv, TouchInv, AllowInv
<1>2. CASE Sweep \/ LimiterTick
  BY <1>2, SweepInv, TickInv
<1>3. CASE UNCHANGED limiterVars
  BY <1>3 DEF limiterVars, allowVars, bucketVars, LimiterInv, LimiterTypeOK, FetchedIsCurrent,
              BucketRegains, EvictionIsInvisible, Regained
<1> QED BY <1>1, <1>2, <1>3 DEF LimiterNext

(***************************************************************************)
(* The middleware chain drives the limiter as its specification allows.    *)
(***************************************************************************)
\* Every behaviour of the chain is one of the limiter: gzip, recover, the
\* router and the handlers leave its state alone.
THEOREM FrontImplementsLimiter == Spec => LimiterSpec
<1>1. Init => LimiterInit
  BY DEF Init
<1>2. [Next]_vars => [LimiterNext]_limiterVars
  <2> SUFFICES ASSUME [Next]_vars PROVE [LimiterNext]_limiterVars
    OBVIOUS
  <2>1. CASE \E r \in Req : Arrive(r) \/ Limit(r)
    BY <2>1 DEF Arrive, Limit, LimiterNext
  <2>2. CASE \E r \in Req : Handle(r) \/ WriteBody(r) \/ Panic(r) \/ Close(r) \/ Finish(r)
    BY <2>2 DEF Handle, WriteHeader, WriteBody, Panic, Close, Finish
  <2>3. CASE limiting /\ (Sweep \/ LimiterTick) /\ UNCHANGED frontVars
    BY <2>3 DEF LimiterNext
  <2>4. CASE UNCHANGED vars
    BY <2>4 DEF vars
  <2> QED BY <2>1, <2>2, <2>3, <2>4 DEF Next
<1> QED BY <1>1, <1>2, PTL DEF Spec, LimiterSpec

\* Whatever the traffic, evicting idle entries admits and refuses exactly the
\* requests that a limiter without eviction would (allow, cleanupLoop).
THEOREM EvictionInvisible == Spec => []EvictionIsInvisible
<1>1. LimiterInv => EvictionIsInvisible
  BY DEF LimiterInv
<1> QED BY <1>1, LimiterInitInv, LimiterNextInv, FrontImplementsLimiter, PTL DEF LimiterSpec

\* How far an entry's age may be, by the time since the janitor's last sweep.
SweptInTime ==
  /\ idle <= IdleTTL + SweepInterval - sweepIn
  /\ current = None => idle = 0

\* An entry that no request touches is gone after the idle time and one sweep
\* interval, so the map does not grow with the addresses ever seen (cleanupLoop).
THEOREM IdleEntriesForgotten == Spec => []EntriesForgotten
<1>1. LimiterInit => SweptInTime
  BY LimiterAssumption DEF LimiterInit, SweptInTime
<1>2. LimiterInv /\ SweptInTime /\ [LimiterNext]_limiterVars => SweptInTime'
  <2> SUFFICES ASSUME LimiterInv, SweptInTime, [LimiterNext]_limiterVars PROVE SweptInTime'
    OBVIOUS
  <2>0. sweepIn \in Nat /\ sweepIn <= SweepInterval /\ idle \in Nat
    BY LimiterAssumption DEF LimiterInv, LimiterTypeOK
  <2>1. CASE \E r \in Req : Touch(r)
    <3>1. PICK r \in Req : Touch(r)
      BY <2>1
    <3>2. idle' = since[r] /\ sweepIn' = sweepIn /\ current' # None
      BY <3>1, LimiterAssumption DEF Touch, Fetch
    <3>3. since[r] \in Nat /\ since[r] <= MaxStall
      BY LimiterAssumption DEF LimiterInv, LimiterTypeOK
    <3> QED BY <2>0, <3>2, <3>3, LimiterAssumption DEF SweptInTime
  <2>2. CASE \E r \in Req : ReadClock(r) \/ Admit(r) \/ Refuse(r)
    BY <2>2 DEF ReadClock, Admit, Refuse, Leave, bucketVars, SweptInTime
  <2>3. CASE Sweep
    BY <2>0, <2>3, LimiterAssumption DEF Sweep, Expired, SweptInTime, LimiterInv, LimiterTypeOK
  <2>4. CASE LimiterTick
    BY <2>0, <2>4, LimiterAssumption DEF LimiterTick, SweptInTime
  <2>5. CASE UNCHANGED limiterVars
    BY <2>5 DEF limiterVars, bucketVars, SweptInTime
  <2> QED BY <2>1, <2>2, <2>3, <2>4, <2>5 DEF LimiterNext
<1>3. LimiterInv /\ SweptInTime => EntriesForgotten
  BY LimiterAssumption DEF LimiterInv, LimiterTypeOK, SweptInTime, EntriesForgotten
<1> QED BY <1>1, <1>2, <1>3, LimiterInitInv, LimiterNextInv, FrontImplementsLimiter, PTL
        DEF LimiterSpec

(***************************************************************************)
(* Responses and their writers.                                            *)
(***************************************************************************)
Types == {"none", "json", "html", "text", "mixed"}
Resp == [status : Nat, type : Types, ce : 0..1, len : -1..1, data : -1..1,
         sent : SUBSET (0..2), cut : BOOLEAN, done : BOOLEAN]

FrontTyped ==
  /\ pc \in [Req -> {"idle", "limiter", "limited", "handler", "body", "close", "sent"}]
  /\ method \in [Req -> {"GET", "HEAD", "POST"}]
  /\ resp \in [Req -> Resp]
  /\ writer \in [Req -> Writer \cup {None}]
  /\ dest \in [Writer -> Req \cup {None}]

\* A header agrees with the body its handler goes on to write through n more
\* layers; only recover's, with status 500, may stand over another's coding.
Agrees(h, n, m) ==
  /\ h.type = "mixed" => h.status = 500
  /\ h.type # "mixed" =>
       /\ h.len \in {-1, h.ce}
       /\ h.data # -1 => h.ce = h.data + n
       /\ h.len = -1 => h.ce = n
       /\ h.len # -1 /\ h.data = -1 => m = "HEAD"

\* What Decodable asks of one response.
Readable(h) ==
  \/ h.sent \subseteq {h.ce} /\ ~h.cut
  \/ h.type = "mixed" /\ (h.status = 500 \/ h.cut)

Announced(r) ==
  /\ resp[r].done <=> writer[r] = None
  /\ pc[r] = "body" => Agrees(resp[r], Layer(r), method[r])
  /\ pc[r] # "body" => Readable(resp[r])

Phased ==
  \A r \in Req :
    /\ pc[r] \notin {"body", "close"} => writer[r] = None
    /\ pc[r] \in {"body", "close", "sent"} => Announced(r)

FrontInv == FrontTyped /\ Phased /\ WritersAreClean

\* The fields of a response as it leaves its handler.
LEMMA ResponseFields ==
  ASSUME NEW s \in Nat, NEW t \in Types, NEW c \in 0..1, NEW n \in -1..1, NEW d \in -1..1
  PROVE  LET x == Response(s, t, c, n, d)
         IN  /\ x \in Resp /\ x.done /\ x.status = s /\ x.type = t /\ x.ce = c /\ x.len = n
             /\ x.data = d
<1>1. {} \in SUBSET (0..2) /\ FALSE \in BOOLEAN /\ TRUE \in BOOLEAN
  OBVIOUS
<1> QED BY <1>1 DEF Response, Resp

\* The headers of the handlers, and recover's, agree with what follows them.
LEMMA HandledAnnounced ==
  ASSUME NEW r \in Req, NEW h, h \in Handled(r) \/ h = Json(200) \/ h \in Recovered(r)
  PROVE  h \in Resp /\ h.done /\ Agrees(h, 0, method[r])
<1>0. /\ {-1, 0, 1} \subseteq -1..1 /\ {0, 1} \subseteq 0..1 /\ {200, 204, 304, 500} \subseteq Nat
      /\ {"none", "json", "html", "text", "mixed"} \subseteq Types
  BY DEF Types
<1>a. ASSUME NEW s \in {200, 204, 304, 500}, NEW t \in {"none", "json", "text"}, NEW d \in {-1, 0},
             h = Response(s, t, 0, -1, d)
      PROVE  h \in Resp /\ h.done /\ Agrees(h, 0, method[r])
  <2>1. s \in Nat /\ t \in Types /\ 0 \in 0..1 /\ -1 \in -1..1 /\ d \in -1..1
    BY <1>0
  <2>2. /\ h \in Resp /\ h.done /\ h.status = s /\ h.type = t /\ h.ce = 0 /\ h.len = -1
        /\ h.data = d
    BY <1>a, <2>1, ResponseFields
  <2> QED BY <2>2 DEF Agrees
<1>1. CASE h = Json(200) \/ h = Json(500)
  BY <1>1, <1>a DEF Json
<1>2. CASE h = Plain
  BY <1>2, <1>a DEF Plain
<1>3. CASE h = Empty(204) \/ h = Empty(304)
  BY <1>3, <1>a DEF Empty
<1>7. PICK n : n = IF gz[r] THEN 1 ELSE 0
  OBVIOUS
<1>8. PICK d : d = IF method[r] = "HEAD" THEN -1 ELSE n
  OBVIOUS
<1>9. Asset(r) = Response(200, "html", n, n, d)
  BY <1>7, <1>8 DEF Asset
<1>10. n \in {0, 1} /\ d \in {-1, n} /\ (d = -1 => method[r] = "HEAD")
  BY <1>7, <1>8
<1>11. Asset(r) \in Resp /\ Asset(r).ce = n /\ Asset(r).len = n /\ Asset(r).data = d
       /\ Asset(r).type = "html" /\ Asset(r).done
  BY <1>0, <1>9, <1>10, ResponseFields
<1>4. CASE h = Asset(r)
  BY <1>4, <1>10, <1>11 DEF Agrees
<1>5. CASE h \in Recovered(r) /\ h # Json(500)
  <2>0. PICK k \in IF method[r] = "POST" THEN {} ELSE {-1, Asset(r).len} :
          h = [Json(500) EXCEPT !.type = "mixed", !.ce = Asset(r).ce, !.len = k]
    BY <1>5 DEF Recovered
  <2>1. k \in {-1, n} /\ h = [Json(500) EXCEPT !.type = "mixed", !.ce = n, !.len = k]
    BY <1>11, <2>0
  <2>2. h = Response(500, "mixed", n, k, 0)
    BY <2>1 DEF Json, Response
  <2>3. k \in {-1, 0, 1}
    BY <1>10, <2>1
  <2> QED BY <1>0, <1>10, <2>2, <2>3, ResponseFields DEF Agrees
<1>6. \A body : \A x \in Cached(body) : x = Empty(304) \/ x = body
  BY DEF Cached
<1> QED BY <1>1, <1>2, <1>3, <1>4, <1>5, <1>6 DEF Handled

\* The header goes out, with or without a writer from the pool.
LEMMA WriteHeaderInv ==
  ASSUME FrontInv, NEW r \in Req, NEW h \in Resp, WriteHeader(r, h),
         pc[r] \in {"limited", "handler"}, h.done, Agrees(h, 0, method[r])
  PROVE  FrontInv'
<1>0. writer[r] = None /\ pc' = [pc EXCEPT ![r] = "body"] /\ method' = method
  BY DEF FrontInv, Phased, WriteHeader, Set
<1>1. CASE Compresses(r, h)
  <2>1. PICK w \in Writer :
          /\ \A q \in Req : writer[q] # w
          /\ writer' = [writer EXCEPT ![r] = w]
          /\ dest' = [dest EXCEPT ![w] = r]
          /\ resp' = [resp EXCEPT ![r] = [h EXCEPT !.ce = 1, !.len = -1, !.done = FALSE]]
    BY <1>1 DEF WriteHeader, Set
  <2>2. h.ce = 0 /\ h.type # "mixed"
    BY <1>1 DEF Compresses, Compressible
  <2>3. FrontTyped'
    <3>1. [h EXCEPT !.ce = 1, !.len = -1, !.done = FALSE] \in Resp
      <4>1. \A x \in Resp : [x EXCEPT !.ce = 1] \in Resp
        BY DEF Resp
      <4>2. \A x \in Resp, n \in -1..1 : [x EXCEPT !.len = n] \in Resp
        BY DEF Resp
      <4>3. \A x \in Resp : [x EXCEPT !.done = FALSE] \in Resp
        BY DEF Resp
      <4>4. -1 \in -1..1
        OBVIOUS
      <4>5. [[[h EXCEPT !.ce = 1] EXCEPT !.len = -1] EXCEPT !.done = FALSE] \in Resp
        BY <4>1, <4>2, <4>3, <4>4
      <4> QED BY <4>5
    <3> QED BY <1>0, <2>1, <3>1 DEF FrontInv, FrontTyped
  <2>4. WritersAreClean'
    BY <1>0, <2>1, FrontAssumption DEF FrontInv, FrontTyped, WritersAreClean
  <2>5. Phased'
    <3> SUFFICES ASSUME NEW q \in Req
                 PROVE  /\ pc'[q] \notin {"body", "close"} => writer'[q] = None
                        /\ pc'[q] \in {"body", "close", "sent"} => Announced(q)'
      BY DEF Phased
    <3>1. CASE q = r
      <4>1. writer'[r] = w /\ w # None /\ pc'[r] = "body"
        BY <1>0, <2>1, FrontAssumption DEF FrontInv, FrontTyped
      <4>2. /\ resp'[r].ce = 1 /\ resp'[r].len = -1 /\ ~resp'[r].done
            /\ resp'[r].data = h.data /\ resp'[r].type = h.type
        BY <2>1 DEF FrontInv, FrontTyped, Resp
      <4>3. h.data # -1 => h.data = 0
        BY <2>2 DEF Agrees, Resp
      <4> QED BY <2>2, <3>1, <4>1, <4>2, <4>3 DEF Announced, Layer, Agrees
    <3>2. CASE q # r
      BY <1>0, <2>1, <3>2 DEF FrontInv, FrontTyped, Phased, Announced, Layer
    <3> QED BY <3>1, <3>2
  <2> QED BY <2>3, <2>4, <2>5 DEF FrontInv
<1>2. CASE ~Compresses(r, h)
  <2>1. resp' = [resp EXCEPT ![r] = h] /\ writer' = writer /\ dest' = dest
    BY <1>2 DEF WriteHeader, Set
  <2>2. FrontTyped' /\ WritersAreClean'
    BY <1>0, <2>1 DEF FrontInv, FrontTyped, WritersAreClean
  <2>3. Phased'
    <3> SUFFICES ASSUME NEW q \in Req
                 PROVE  /\ pc'[q] \notin {"body", "close"} => writer'[q] = None
                        /\ pc'[q] \in {"body", "close", "sent"} => Announced(q)'
      BY DEF Phased
    <3>1. CASE q = r
      <4>1. resp'[r] = h /\ pc'[r] = "body" /\ writer'[r] = None /\ method'[r] = method[r]
        BY <1>0, <2>1 DEF FrontInv, FrontTyped
      <4> QED BY <3>1, <4>1 DEF Announced, Layer
    <3>2. CASE q # r
      BY <1>0, <2>1, <3>2 DEF FrontInv, FrontTyped, Phased, Announced, Layer
    <3> QED BY <3>1, <3>2
  <2> QED BY <2>2, <2>3 DEF FrontInv
<1> QED BY <1>1, <1>2

\* The fields of a body on the wire.
LEMMA BodyFields ==
  ASSUME NEW r \in Req, resp[r] \in Resp, NEW pieces \in SUBSET (0..2), NEW cut \in BOOLEAN,
         NEW x, x = Body(r, pieces, cut)
  PROVE  /\ x \in Resp /\ (x.done <=> resp[r].done) /\ x.ce = resp[r].ce /\ x.type = resp[r].type
         /\ x.status = resp[r].status
         /\ (x.sent = {} /\ ~x.cut) \/ (x.sent = pieces /\ (x.cut <=> cut))
         /\ method[r] = "HEAD" => x.sent = {} /\ ~x.cut
<1>1. PICK none \in BOOLEAN : none = (method[r] = "HEAD" \/ ~StatusAllowsBody(resp[r].status))
  OBVIOUS
<1>2. PICK p : p = IF none THEN {} ELSE pieces
  OBVIOUS
<1>3. PICK c \in BOOLEAN : c = (cut /\ ~none)
  OBVIOUS
<1>4. Body(r, pieces, cut) = [resp[r] EXCEPT !.sent = p, !.cut = c]
  BY <1>1, <1>2, <1>3 DEF Body
<1>5. p \in SUBSET (0..2) /\ c \in BOOLEAN
  BY <1>2, <1>3
<1>6. \A y \in Resp : [y EXCEPT !.sent = p] \in Resp
  BY <1>5 DEF Resp
<1>7. \A y \in Resp : [y EXCEPT !.cut = c] \in Resp
  BY <1>5 DEF Resp
<1>8. [[resp[r] EXCEPT !.sent = p] EXCEPT !.cut = c] \in Resp
  BY <1>6, <1>7
<1>9. x = [resp[r] EXCEPT !.sent = p, !.cut = c]
  BY <1>4
<1>10. /\ x \in Resp /\ (x.done <=> resp[r].done) /\ x.ce = resp[r].ce /\ x.type = resp[r].type
       /\ x.status = resp[r].status /\ x.sent = p /\ (x.cut <=> c)
  BY <1>8, <1>9 DEF Resp
<1>11. (p = {} /\ ~c) \/ (p = pieces /\ (c <=> cut))
  <2>1. CASE none
    <3>1. p = {}
      BY <1>2, <2>1
    <3>2. ~c
      BY <1>3, <2>1
    <3> QED BY <3>1, <3>2
  <2>2. CASE ~none
    BY <1>2, <1>3, <2>2
  <2> QED BY <2>1, <2>2
<1>12. method[r] = "HEAD" => p = {} /\ ~c
  BY <1>1, <1>2, <1>3
<1> QED BY <1>10, <1>11, <1>12

\* What the handler writes has the layers its header declares.
LEMMA WrittenLayers ==
  ASSUME FrontInv, NEW r \in Req, pc[r] = "body"
  PROVE  /\ resp[r] \in Resp /\ Written(r) \in SUBSET (0..2) /\ Layer(r) \in 0..1
         /\ Agrees(resp[r], Layer(r), method[r])
         /\ resp[r].type # "mixed" => Written(r) \subseteq {resp[r].ce}
<1>1. resp[r] \in Resp /\ Agrees(resp[r], Layer(r), method[r])
  BY DEF FrontInv, FrontTyped, Phased, Announced
<1> QED BY <1>1 DEF Written, Layer, Agrees, Resp

\* A body goes out, the handler's or what a panic leaves.
LEMMA BodyInv ==
  ASSUME FrontInv, NEW r \in Req, pc[r] = "body", NEW x \in Resp,
         (x.done <=> resp[r].done), Readable(x),
         pc' = [pc EXCEPT ![r] = "close"], resp' = [resp EXCEPT ![r] = x],
         writer' = writer, dest' = dest, method' = method
  PROVE  FrontInv'
<1>1. FrontTyped' /\ WritersAreClean'
  BY DEF FrontInv, FrontTyped, WritersAreClean
<1>2. Phased'
  <2> SUFFICES ASSUME NEW q \in Req
               PROVE  /\ pc'[q] \notin {"body", "close"} => writer'[q] = None
                      /\ pc'[q] \in {"body", "close", "sent"} => Announced(q)'
    BY DEF Phased
  <2>1. CASE q = r
    <3>1. resp'[r] = x /\ pc'[r] = "close" /\ writer'[r] = writer[r]
      BY DEF FrontInv, FrontTyped
    <3>2. resp[r].done <=> writer[r] = None
      BY DEF FrontInv, Phased, Announced
    <3> QED BY <2>1, <3>1, <3>2 DEF Announced
  <2>2. CASE q # r
    BY <2>2 DEF FrontInv, FrontTyped, Phased, Announced, Layer
  <2> QED BY <2>1, <2>2
<1> QED BY <1>1, <1>2 DEF FrontInv

\* The handler's body has what its header declares; recover's has status 500.
LEMMA WriteBodyInv ==
  ASSUME FrontInv, NEW r \in Req, WriteBody(r)
  PROVE  FrontInv'
<1>1. PICK cut \in BOOLEAN :
        cut = (resp[r].len # -1 /\ (resp[r].type = "mixed" \/ resp[r].len \notin Written(r)))
  OBVIOUS
<1>2. PICK x : x = Body(r, Written(r), cut)
  OBVIOUS
<1>3. /\ pc[r] = "body" /\ pc' = [pc EXCEPT ![r] = "close"] /\ resp' = [resp EXCEPT ![r] = x]
      /\ writer' = writer /\ dest' = dest /\ method' = method
  BY <1>1, <1>2 DEF WriteBody, Set
<1>4. /\ x \in Resp /\ (x.done <=> resp[r].done) /\ x.ce = resp[r].ce /\ x.type = resp[r].type
      /\ x.status = resp[r].status
      /\ (x.sent = {} /\ ~x.cut) \/ (x.sent = Written(r) /\ (x.cut <=> cut))
      /\ method[r] = "HEAD" => x.sent = {} /\ ~x.cut
  <2>1. resp[r] \in Resp /\ Written(r) \in SUBSET (0..2)
    BY <1>3, WrittenLayers
  <2>2. cut \in BOOLEAN
    BY <1>1
  <2>3. x \in Resp /\ (x.done <=> resp[r].done) /\ x.ce = resp[r].ce /\ x.type = resp[r].type
    BY <1>2, <2>1, <2>2, BodyFields
  <2>4. x.status = resp[r].status /\ (method[r] = "HEAD" => x.sent = {} /\ ~x.cut)
    BY <1>2, <2>1, <2>2, BodyFields
  <2>5. (x.sent = {} /\ ~x.cut) \/ (x.sent = Written(r) /\ (x.cut <=> cut))
    BY <1>2, <2>1, <2>2, BodyFields
  <2> QED BY <2>3, <2>4, <2>5
<1>5. Readable(x)
  <2>1. CASE resp[r].type = "mixed"
    BY <1>3, <1>4, <2>1, WrittenLayers DEF Readable, Agrees
  <2>2. CASE resp[r].type # "mixed"
    <3>1. Written(r) \subseteq {resp[r].ce}
      BY <1>3, <2>2, WrittenLayers
    <3>2. cut => method[r] = "HEAD"
      <4> SUFFICES ASSUME cut PROVE method[r] = "HEAD"
        OBVIOUS
      <4>1. resp[r].len # -1 /\ resp[r].len \notin Written(r)
        BY <1>1, <2>2
      <4>2. resp[r].len = resp[r].ce /\ resp[r].data = -1
        BY <1>3, <2>2, <4>1, WrittenLayers DEF Agrees, Written
      <4> QED BY <1>3, <2>2, <4>1, <4>2, WrittenLayers DEF Agrees
    <3> QED BY <1>4, <3>1, <3>2 DEF Readable
  <2> QED BY <2>1, <2>2
<1> QED BY <1>3, <1>4, <1>5, BodyInv

\* recover's JSON after a header keeps to it, or leaves the body short.
LEMMA FollowedReadable ==
  ASSUME FrontInv, NEW r \in Req, pc[r] = "body", resp[r].status # 500,
         NEW wrote \in {{}, Written(r)}, NEW x, x = Followed(r, wrote)
  PROVE  x \in Resp /\ (x.done <=> resp[r].done) /\ Readable(x)
<1>1. PICK full \in BOOLEAN : full = (resp[r].len # -1 /\ wrote = Written(r))
  OBVIOUS
<1>2. PICK pieces : pieces = IF full THEN wrote ELSE wrote \cup {Layer(r)}
  OBVIOUS
<1>3. PICK cut \in BOOLEAN : cut = (resp[r].len # -1 /\ ~full)
  OBVIOUS
<1>4. PICK y : y = Body(r, pieces, cut)
  OBVIOUS
<1>5. Followed(r, wrote) = [y EXCEPT !.type = "mixed"]
  BY <1>1, <1>2, <1>3, <1>4 DEF Followed
<1>6. pieces \in SUBSET (0..2) /\ cut \in BOOLEAN
  BY <1>2, <1>3, WrittenLayers
<1>7. /\ y \in Resp /\ (y.done <=> resp[r].done) /\ y.ce = resp[r].ce
      /\ (y.sent = {} /\ ~y.cut) \/ (y.sent = pieces /\ (y.cut <=> cut))
  <2>1. resp[r] \in Resp
    BY WrittenLayers
  <2>2. pieces \in SUBSET (0..2)
    BY <1>6
  <2>3. cut \in BOOLEAN
    BY <1>6
  <2>4. y \in Resp /\ (y.done <=> resp[r].done) /\ y.ce = resp[r].ce
    BY <1>4, <2>1, <2>2, <2>3, BodyFields
  <2>5. (y.sent = {} /\ ~y.cut) \/ (y.sent = pieces /\ (y.cut <=> cut))
    BY <1>4, <2>1, <2>2, <2>3, BodyFields
  <2> QED BY <2>4, <2>5
<1>8. ~cut /\ y.sent = pieces => pieces \subseteq {resp[r].ce}
  <2>1. resp[r].type # "mixed"
    BY WrittenLayers DEF Agrees
  <2>2. wrote \subseteq {resp[r].ce}
    BY <2>1, WrittenLayers
  <2>3. CASE full
    BY <1>2, <2>2, <2>3
  <2>4. CASE ~full /\ ~cut
    <3>1. resp[r].len = -1 /\ Layer(r) = resp[r].ce
      BY <1>3, <2>1, <2>4, WrittenLayers DEF Agrees
    <3> QED BY <1>2, <2>2, <3>1, <2>4
  <2> QED BY <2>3, <2>4
<1>9. x = [y EXCEPT !.type = "mixed"]
  BY <1>5
<1>10. /\ x \in Resp /\ (x.done <=> y.done) /\ x.ce = y.ce /\ x.sent = y.sent /\ (x.cut <=> y.cut)
       /\ x.type = "mixed"
  <2>1. "mixed" \in Types
    BY DEF Types
  <2> QED BY <1>7, <1>9, <2>1 DEF Resp
<1>11. Readable(x)
  <2>1. CASE y.sent = {} /\ ~y.cut
    BY <1>10, <2>1 DEF Readable
  <2>2. CASE y.sent = pieces /\ (y.cut <=> cut)
    BY <1>7, <1>8, <1>10, <2>2 DEF Readable
  <2> QED BY <1>7, <2>1, <2>2
<1> QED BY <1>7, <1>10, <1>11

\* The stream is completed and its writer goes back.
LEMMA CloseInv ==
  ASSUME FrontInv, NEW r \in Req, Close(r)
  PROVE  FrontInv'
<1>0. Announced(r) /\ resp[r] \in Resp
  BY DEF FrontInv, FrontTyped, Phased, Close
<1>1. /\ pc[r] = "close" /\ pc' = [pc EXCEPT ![r] = "sent"]
      /\ writer' = [writer EXCEPT ![r] = None]
      /\ resp' = [resp EXCEPT ![r] = [resp[r] EXCEPT !.done = TRUE]]
      /\ dest' = IF writer[r] = None THEN dest ELSE [dest EXCEPT ![writer[r]] = None]
      /\ method' = method
  BY DEF Close, Set
<1>2. FrontTyped'
  BY <1>0, <1>1 DEF FrontInv, FrontTyped, Resp
<1>3. WritersAreClean'
  BY <1>1, FrontAssumption DEF FrontInv, FrontTyped, WritersAreClean
<1>4. Phased'
  <2> SUFFICES ASSUME NEW q \in Req
               PROVE  /\ pc'[q] \notin {"body", "close"} => writer'[q] = None
                      /\ pc'[q] \in {"body", "close", "sent"} => Announced(q)'
    BY DEF Phased
  <2>1. CASE q = r
    <3>1. /\ resp'[r].ce = resp[r].ce /\ resp'[r].type = resp[r].type
          /\ resp'[r].status = resp[r].status /\ resp'[r].cut = resp[r].cut
          /\ resp'[r].done /\ resp'[r].sent = resp[r].sent
          /\ pc'[r] = "sent" /\ writer'[r] = None
      BY <1>0, <1>1 DEF FrontInv, FrontTyped, Resp
    <3> QED BY <1>0, <1>1, <2>1, <3>1 DEF Announced, Readable
  <2>2. CASE q # r
    BY <1>1, <2>2 DEF FrontInv, FrontTyped, Phased, Announced, Layer
  <2> QED BY <2>1, <2>2
<1> QED BY <1>2, <1>3, <1>4 DEF FrontInv

\* Arriving, passing the limiter and ending the exchange touch no response.
LEMMA OutsideInv ==
  ASSUME FrontInv, NEW r \in Req, Arrive(r) \/ Limit(r) \/ Finish(r)
  PROVE  FrontInv'
<1>0. /\ writer' = writer /\ dest' = dest /\ writer[r] = None
      /\ resp' = resp \/ resp' = [resp EXCEPT ![r] = NoResponse]
      /\ pc' = pc \/ \E p \in {"idle", "limiter", "limited", "handler"} : pc' = [pc EXCEPT ![r] = p]
      /\ pc[r] \in {"idle", "limiter", "sent"}
      /\ pc[r] = "sent" => pc' = [pc EXCEPT ![r] = "idle"]
      /\ method' = method \/ \E m \in {"GET", "HEAD", "POST"} : method' = [method EXCEPT ![r] = m]
  BY DEF Arrive, Limit, Finish, Set, FrontInv, Phased
<1>1. NoResponse \in Resp
  BY DEF NoResponse, Response, Resp, Types
<1>2. FrontTyped' /\ WritersAreClean'
  BY <1>0, <1>1 DEF FrontInv, FrontTyped, WritersAreClean
<1>3. Phased'
  BY <1>0 DEF FrontInv, FrontTyped, Phased, Announced, Layer
<1> QED BY <1>2, <1>3 DEF FrontInv

\* The chain's invariant.
LEMMA FrontInvariant == Spec => []FrontInv
<1>1. Init => FrontInv
  BY FrontAssumption DEF Init, FrontInv, FrontTyped, Phased, WritersAreClean, NoResponse, Response, Resp, Types
<1>2. FrontInv /\ [Next]_vars => FrontInv'
  <2> SUFFICES ASSUME FrontInv, [Next]_vars PROVE FrontInv'
    OBVIOUS
  <2>1. ASSUME NEW r \in Req, Arrive(r) \/ Limit(r) \/ Finish(r) PROVE FrontInv'
    BY <2>1, OutsideInv
  <2>2. ASSUME NEW r \in Req, Handle(r) PROVE FrontInv'
    BY <2>2, HandledAnnounced, WriteHeaderInv DEF Handle
  <2>3. ASSUME NEW r \in Req, WriteBody(r) PROVE FrontInv'
    BY <2>3, WriteBodyInv
  <2>4. ASSUME NEW r \in Req, Panic(r) PROVE FrontInv'
    <3>1. CASE pc[r] = "handler" /\ \E h \in Recovered(r) : WriteHeader(r, h)
      BY <3>1, HandledAnnounced, WriteHeaderInv
    <3>2. CASE pc[r] = "body"
      <4>1. /\ pc' = [pc EXCEPT ![r] = "close"] /\ resp[r].status # 500
            /\ writer' = writer /\ dest' = dest /\ method' = method
        BY <2>4, <3>2 DEF Panic, Set
      <4>2. PICK wrote \in {{}, Written(r)} : resp' = [resp EXCEPT ![r] = Followed(r, wrote)]
        BY <2>4, <3>2 DEF Panic, Set
      <4>3. PICK x : x = Followed(r, wrote)
        OBVIOUS
      <4>4. x \in Resp /\ (x.done <=> resp[r].done) /\ Readable(x)
        <5>1. wrote \in {{}, Written(r)}
          BY <4>2
        <5>2. resp[r].status # 500
          BY <4>1
        <5> QED BY <3>2, <4>3, <5>1, <5>2, FollowedReadable
      <4> QED BY <3>2, <4>1, <4>2, <4>3, <4>4, BodyInv
    <3> QED BY <2>4, <3>1, <3>2 DEF Panic
  <2>5. ASSUME NEW r \in Req, Close(r) PROVE FrontInv'
    BY <2>5, CloseInv
  <2>6. CASE UNCHANGED frontVars
    BY <2>6 DEF frontVars, FrontInv, FrontTyped, Phased, Announced, Layer, WritersAreClean
  <2>7. UNCHANGED vars => UNCHANGED frontVars
    BY DEF vars
  <2> QED BY <2>1, <2>2, <2>3, <2>4, <2>5, <2>6, <2>7 DEF Next
<1> QED BY <1>1, <1>2, PTL DEF Spec

\* Every response that was sent is complete and has the coding and length its
\* header declares, through handlers, prepared assets, the wrapper and recovered
\* panics; a panic amid a prepared asset's header or body, which recover's JSON
\* cannot match, shows as status 500 or as a body short of its Content-Length.
THEOREM ResponsesDecodable == Spec => []Decodable
<1>1. FrontInv => Decodable
  BY DEF FrontInv, Phased, Announced, Readable, Decodable
<1> QED BY <1>1, FrontInvariant, PTL

\* No pooled gzip.Writer is shared, lost or able to write into a past response.
THEOREM WritersClean == Spec => []WritersAreClean
<1>1. FrontInv => WritersAreClean
  BY DEF FrontInv
<1> QED BY <1>1, FrontInvariant, PTL

(***************************************************************************)
(* Negotiation.                                                            *)
(***************************************************************************)
\* acceptsGzip never takes for acceptance what the header's meaning is not,
\* wherever and however often gzip and the wildcard are listed in it.
LEMMA AcceptsWanted == \A header : AcceptsGzip(header) => Wants(header)
<1> SUFFICES ASSUME NEW header, AcceptsGzip(header) PROVE Wants(header)
  OBVIOUS
<1> DEFINE At(c) == {i \in 1..Len(header) : header[i].coding = c}
           Of(c) == {header[i].q : i \in {j \in 1..Len(header) : header[j].coding = c}}
<1>1. \A c : Of(c) = {} <=> At(c) = {}
  OBVIOUS
<1>2. CASE At("gzip") # {}
  <2>1. PICK i \in At("gzip") : header[i].q > 0
    BY <1>2 DEF AcceptsGzip
  <2>2. header[i].q \in Of("gzip") /\ header[i].q # 0
    BY <2>1
  <2>3. Of("gzip") # {} /\ Of("gzip") # {0}
    BY <2>2
  <2> QED BY <2>3 DEF Wants
<1>3. CASE At("gzip") = {}
  <2>1. PICK i \in At("*") : header[i].q > 0
    BY <1>3 DEF AcceptsGzip
  <2>2. header[i].q \in Of("*")
    BY <2>1
  <2>3. Of("gzip") = {} /\ \E q \in Of("*") : q > 0
    BY <1>1, <1>3, <2>1, <2>2
  <2> QED BY <2>3 DEF Wants
<1> QED BY <1>2, <1>3

\* A response is coded only on a connection whose client takes gzip.
Negotiated ==
  \A r \in Req : /\ gz[r] => wanted[r]
                 /\ resp[r].ce = 1 => gz[r]
                 /\ pc[r] = "idle" => resp[r].ce = 0

FlagsTyped ==
  /\ limiting \in BOOLEAN
  /\ method \in [Req -> {"GET", "HEAD", "POST"}]
  /\ gz \in [Req -> BOOLEAN] /\ wanted \in [Req -> BOOLEAN]

\* A handler's own coding is that of an asset for a client that takes gzip.
LEMMA HandledWanted ==
  ASSUME NEW r \in Req, NEW h, h \in Handled(r) \/ h = Json(200) \/ h \in Recovered(r), h.ce = 1
  PROVE  gz[r]
<1>1. h # Json(200) /\ h # Json(500) /\ h # Plain /\ h # Empty(204) /\ h # Empty(304)
  BY DEF Json, Plain, Empty, Response
<1>2. \A body : \A x \in Cached(body) : x = Empty(304) \/ x = body
  BY DEF Cached
<1>3. h = Asset(r) \/ h \in Recovered(r)
  BY <1>1, <1>2 DEF Handled
<1>4. h.ce = Asset(r).ce
  <2>1. CASE h \in Recovered(r)
    <3>1. PICK n \in IF method[r] = "POST" THEN {} ELSE {-1, Asset(r).len} :
            h = [Json(500) EXCEPT !.type = "mixed", !.ce = Asset(r).ce, !.len = n]
      BY <1>1, <2>1 DEF Recovered
    <3> QED BY <3>1 DEF Json, Response
  <2> QED BY <1>3, <2>1
<1> QED BY <1>4 DEF Asset, Response

\* The header that goes out is coded by the asset, or by the wrapper.
LEMMA WriteHeaderWanted ==
  ASSUME FrontInv, Negotiated, NEW r \in Req,
         WriteHeader(r, Json(200)) \/ \E h \in Handled(r) \cup Recovered(r) : WriteHeader(r, h)
  PROVE  Negotiated'
<1>1. PICK h : (h \in Handled(r) \/ h = Json(200) \/ h \in Recovered(r)) /\ WriteHeader(r, h)
  OBVIOUS
<1>2. h \in Resp
  BY <1>1, HandledAnnounced
<1>3. UNCHANGED <<gz, wanted>> /\ pc' = [pc EXCEPT ![r] = "body"]
  BY <1>1 DEF WriteHeader, Set
<1>4. \E x : resp' = [resp EXCEPT ![r] = x] /\ (x.ce = 1 => gz[r])
  <2>1. CASE Compresses(r, h)
    <3>1. resp' = [resp EXCEPT ![r] = [h EXCEPT !.ce = 1, !.len = -1, !.done = FALSE]]
      BY <1>1, <2>1 DEF WriteHeader, Set
    <3> QED BY <2>1, <3>1 DEF Compresses
  <2>2. CASE ~Compresses(r, h)
    <3>1. resp' = [resp EXCEPT ![r] = h]
      BY <1>1, <2>2 DEF WriteHeader, Set
    <3> QED BY <1>1, <3>1, HandledWanted
  <2> QED BY <2>1, <2>2
<1> QED BY <1>3, <1>4 DEF Negotiated, FrontInv, FrontTyped

\* Every step keeps the flags and what they allow.
LEMMA NextNegotiated ==
  ASSUME FrontInv, FlagsTyped, Negotiated, [Next]_vars
  PROVE  FlagsTyped' /\ Negotiated'
<1>1. ASSUME NEW r \in Req, Arrive(r) PROVE FlagsTyped' /\ Negotiated'
  <2>1. PICK m \in {"GET", "HEAD", "POST"}, header \in AcceptEncoding :
          /\ method' = [method EXCEPT ![r] = m]
          /\ gz' = [gz EXCEPT ![r] = AcceptsGzip(header)]
          /\ wanted' = [wanted EXCEPT ![r] = Wants(header)]
    BY <1>1 DEF Arrive, Set
  <2>2. /\ resp' = resp /\ limiting' = limiting /\ pc[r] = "idle"
        /\ \E p \in {"limiter", "handler"} : pc' = [pc EXCEPT ![r] = p]
    BY <1>1 DEF Arrive, Set
  <2>3. AcceptsGzip(header) \in BOOLEAN /\ Wants(header) \in BOOLEAN
    BY DEF AcceptsGzip, Wants
  <2>4. FlagsTyped'
    BY <2>1, <2>2, <2>3 DEF FlagsTyped
  <2>5. ASSUME NEW q \in Req
        PROVE  (gz'[q] => wanted'[q]) /\ (resp'[q].ce = 1 => gz'[q]) /\ (pc'[q] = "idle" => resp'[q].ce = 0)
    <3>1. CASE q = r
      <4>1. gz'[r] = AcceptsGzip(header) /\ wanted'[r] = Wants(header)
        BY <2>1 DEF FlagsTyped
      <4>2. resp'[r].ce = 0
        BY <2>2 DEF Negotiated
      <4> QED BY <3>1, <4>1, <4>2, AcceptsWanted
    <3>2. CASE q # r
      <4>1. gz'[q] = gz[q] /\ wanted'[q] = wanted[q] /\ pc'[q] = pc[q]
        BY <2>1, <2>2, <3>2 DEF FlagsTyped, FrontInv, FrontTyped
      <4> QED BY <2>2, <4>1 DEF Negotiated
    <3> QED BY <3>1, <3>2
  <2> QED BY <2>4, <2>5 DEF Negotiated
<1>2. ASSUME NEW r \in Req, Limit(r) PROVE FlagsTyped' /\ Negotiated'
  <2>1. /\ UNCHANGED <<limiting, method, gz, wanted, resp>> /\ pc[r] = "limiter"
        /\ pc' = pc \/ \E p \in {"handler", "limited"} : pc' = [pc EXCEPT ![r] = p]
    BY <1>2 DEF Limit, Set
  <2> QED BY <2>1 DEF FlagsTyped, Negotiated, FrontInv, FrontTyped
<1>3. ASSUME NEW r \in Req, Handle(r) \/ (Panic(r) /\ pc[r] # "body") PROVE FlagsTyped' /\ Negotiated'
  <2>1. WriteHeader(r, Json(200)) \/ \E h \in Handled(r) \cup Recovered(r) : WriteHeader(r, h)
    BY <1>3 DEF Handle, Panic
  <2>2. UNCHANGED <<limiting, method, gz, wanted>>
    BY <2>1 DEF WriteHeader
  <2> QED BY <2>1, <2>2, WriteHeaderWanted DEF FlagsTyped
<1>4. ASSUME NEW r \in Req, WriteBody(r) \/ (Panic(r) /\ pc[r] = "body") \/ Close(r)
      PROVE  FlagsTyped' /\ Negotiated'
  <2>1. UNCHANGED <<limiting, method, gz, wanted>>
    BY <1>4 DEF WriteBody, Panic, Close
  <2>2. \E p \in {"close", "sent"} : pc' = [pc EXCEPT ![r] = p]
    BY <1>4 DEF WriteBody, Panic, Close, Set
  <2>3. resp[r] \in Resp
    BY DEF FrontInv, FrontTyped
  <2>4. /\ \A pieces, cut : Body(r, pieces, cut).ce = resp[r].ce
        /\ \A wrote : Followed(r, wrote).ce = resp[r].ce
    BY <2>3 DEF Body, Followed, Resp
  <2>5. [resp[r] EXCEPT !.done = TRUE].ce = resp[r].ce
    BY <2>3 DEF Resp
  <2>6. \E x : resp' = [resp EXCEPT ![r] = x] /\ x.ce = resp[r].ce
    <3>1. CASE WriteBody(r)
      BY <2>4, <3>1 DEF WriteBody, Set
    <3>2. CASE Panic(r) /\ pc[r] = "body"
      BY <2>4, <3>2 DEF Panic, Set
    <3>3. CASE Close(r)
      BY <2>5, <3>3 DEF Close, Set
    <3> QED BY <1>4, <3>1, <3>2, <3>3
  <2> QED BY <2>1, <2>2, <2>6 DEF FlagsTyped, Negotiated, FrontInv, FrontTyped
<1>5. ASSUME NEW r \in Req, Finish(r) PROVE FlagsTyped' /\ Negotiated'
  <2>1. /\ pc' = [pc EXCEPT ![r] = "idle"] /\ method' = [method EXCEPT ![r] = "GET"]
        /\ gz' = [gz EXCEPT ![r] = FALSE] /\ wanted' = [wanted EXCEPT ![r] = FALSE]
        /\ resp' = [resp EXCEPT ![r] = NoResponse] /\ limiting' = limiting
    BY <1>5 DEF Finish, Set
  <2>2. NoResponse.ce = 0
    BY DEF NoResponse, Response
  <2> QED BY <2>1, <2>2 DEF FlagsTyped, Negotiated, FrontInv, FrontTyped
<1>6. CASE UNCHANGED frontVars
  BY <1>6 DEF frontVars, FlagsTyped, Negotiated
<1>7. UNCHANGED vars => UNCHANGED frontVars
  BY DEF vars
<1> QED BY <1>1, <1>2, <1>3, <1>4, <1>5, <1>6, <1>7 DEF Next

\* The invariant holds throughout.
LEMMA NegotiatedInvariant == Spec => [](FlagsTyped /\ Negotiated)
<1>1. Init => FlagsTyped /\ Negotiated
  BY DEF Init, FlagsTyped, Negotiated, NoResponse, Response
<1>2. FrontInv /\ (FlagsTyped /\ Negotiated) /\ [Next]_vars => (FlagsTyped /\ Negotiated)'
  BY NextNegotiated
<1> QED BY <1>1, <1>2, FrontInvariant, PTL DEF Spec

\* No client is sent a coding that its Accept-Encoding excludes, by the wrapper,
\* a prepared asset, the limiter's refusal or a recovered panic.
THEOREM CodingsWanted == Spec => []OnlyIfWanted
<1>1. Negotiated => OnlyIfWanted
  BY DEF Negotiated, OnlyIfWanted
<1> QED BY <1>1, NegotiatedInvariant, PTL

\* The chain and the limiter keep their types: no bucket goes below zero or
\* above its burst, and no header declares more than one layer of gzip.
THEOREM FrontTypeCorrect == Spec => []TypeOK
<1>1. LimiterInv /\ FrontInv /\ FlagsTyped => TypeOK
  BY DEF LimiterInv, FrontInv, FrontTyped, FlagsTyped, Resp, TypeOK
<1> QED BY <1>1, LimiterInitInv, LimiterNextInv, FrontImplementsLimiter, FrontInvariant,
           NegotiatedInvariant, PTL DEF LimiterSpec
=============================================================================
