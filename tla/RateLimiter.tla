------------------------------ MODULE RateLimiter ------------------------------
(***************************************************************************)
(* The per-address token bucket in front of the mutating handlers, for one *)
(* client address (the entries of two addresses share only the mutex).     *)
(* allow reads the clock, then fetches or creates the entry under the      *)
(* mutex, then takes a token outside it; the janitor drops idle entries.   *)
(*                                                                         *)
(* Time is kept as ages: idle is the time since the entry's lastSeen,      *)
(* since[r] the time since request r read the clock.  A tick refills every *)
(* bucket at once, which a reader of rate.Limiter cannot tell from its     *)
(* lazy refill.  ideal is the bucket of a limiter that never evicts.       *)
(***************************************************************************)
EXTENDS Integers

CONSTANTS
  Req,            \* requests of the address that may run at once
  Limiter,        \* rate.Limiter objects
  None,
  Rate, Burst,    \* tokens per tick, and the bucket's size
  IdleTTL, SweepInterval,
  MaxStall        \* bound: how long a goroutine may take to get through allow

ASSUME LimiterAssumption ==
  /\ None \notin Limiter
  /\ Rate \in Nat \ {0} /\ Burst \in Nat \ {0}
  /\ IdleTTL \in Nat /\ SweepInterval \in Nat /\ MaxStall \in Nat
  /\ IdleTTL >= 2 * MaxStall
  /\ Rate * (IdleTTL - 2 * MaxStall) >= Burst

VARIABLES
  at,        \* where each request is in allow: "out", "now" or "fetched"
  since,     \* the age of its clock reading
  got,       \* the limiter it fetched
  current,   \* the limiter in the map, if any
  idle,      \* the age of its lastSeen
  tokens,    \* the tokens of every limiter
  ideal,     \* the tokens an eviction-free limiter would have
  sweepIn    \* time to the janitor's next tick

allowVars == <<at, since, got>>
bucketVars == <<current, idle, tokens, ideal>>
limiterVars == <<allowVars, bucketVars, sweepIn>>

LimiterTypeOK ==
  /\ at \in [Req -> {"out", "now", "fetched"}]
  /\ since \in [Req -> 0..MaxStall]
  /\ got \in [Req -> Limiter \cup {None}]
  /\ current \in Limiter \cup {None}
  /\ idle \in Nat
  /\ tokens \in [Limiter -> 0..Burst]
  /\ ideal \in Int /\ ideal <= Burst
  /\ sweepIn \in 0..SweepInterval

LimiterInit ==
  /\ at = [r \in Req |-> "out"]
  /\ since = [r \in Req |-> 0]
  /\ got = [r \in Req |-> None]
  /\ current = None /\ idle = 0
  /\ tokens = [x \in Limiter |-> Burst] /\ ideal = Burst
  /\ sweepIn = SweepInterval

\* allow reads the clock before it asks for the mutex.
ReadClock(r) ==
  /\ at[r] = "out"
  /\ at' = [at EXCEPT ![r] = "now"]
  /\ since' = [since EXCEPT ![r] = 0]
  /\ UNCHANGED <<got, bucketVars, sweepIn>>

Fetch(r, x, seen) ==
  /\ at[r] = "now"
  /\ at' = [at EXCEPT ![r] = "fetched"]
  /\ got' = [got EXCEPT ![r] = x]
  /\ current' = x
  /\ idle' = seen
  /\ UNCHANGED <<since, ideal, sweepIn>>

\* An object no entry and no request refers to.
Unused(x) == x # current /\ \A r \in Req : got[r] # x

\* Mutant: lastSeen is set only when the entry is created.
TouchOnCreate(r) ==
  IF current = None
  THEN \E x \in Limiter : /\ Unused(x) /\ Fetch(r, x, since[r])
                          /\ tokens' = [tokens EXCEPT ![x] = Burst]
  ELSE Fetch(r, current, idle) /\ UNCHANGED tokens

\* The critical section; the clock reading may be older than another's.
Touch(r) ==
  IF current = None
  THEN \E x \in Limiter : /\ Unused(x) /\ Fetch(r, x, since[r])
                          /\ tokens' = [tokens EXCEPT ![x] = Burst]
  ELSE Fetch(r, current, since[r]) /\ UNCHANGED tokens

Leave(r) ==
  /\ at' = [at EXCEPT ![r] = "out"]
  /\ since' = [since EXCEPT ![r] = 0]
  /\ got' = [got EXCEPT ![r] = None]
  /\ UNCHANGED <<current, idle, sweepIn>>

\* Mutant: Allow's answer is not looked at.
AdmitAnyway(r) ==
  /\ at[r] = "fetched"
  /\ tokens' = [tokens EXCEPT ![got[r]] = @ - 1]
  /\ ideal' = ideal - 1
  /\ Leave(r)

Admit(r) ==
  /\ at[r] = "fetched" /\ tokens[got[r]] > 0
  /\ tokens' = [tokens EXCEPT ![got[r]] = @ - 1]
  /\ ideal' = ideal - 1
  /\ Leave(r)

Refuse(r) ==
  /\ at[r] = "fetched" /\ tokens[got[r]] = 0
  /\ UNCHANGED <<tokens, ideal>>
  /\ Leave(r)

\* Mutant: the comparison with the cutoff never holds.
ExpiredNever == current # None /\ idle < 0

Expired == current # None /\ idle > IdleTTL

\* cleanupLoop, at once when its ticker fires.
Sweep ==
  /\ sweepIn = 0
  /\ sweepIn' = SweepInterval
  /\ current' = IF Expired THEN None ELSE current
  /\ idle' = IF Expired THEN 0 ELSE idle
  /\ UNCHANGED <<allowVars, tokens, ideal>>

Refill(n) == IF n + Rate > Burst THEN Burst ELSE n + Rate

LimiterTick ==
  /\ sweepIn > 0
  /\ \A r \in Req : at[r] # "out" => since[r] < MaxStall
  /\ since' = [r \in Req |-> IF at[r] # "out" THEN since[r] + 1 ELSE since[r]]
  /\ idle' = IF current = None THEN idle ELSE idle + 1
  /\ tokens' = [x \in Limiter |-> Refill(tokens[x])]
  /\ ideal' = Refill(ideal)
  /\ sweepIn' = sweepIn - 1
  /\ UNCHANGED <<at, got, current>>

LimiterNext ==
  \/ \E r \in Req : ReadClock(r) \/ Touch(r) \/ Admit(r) \/ Refuse(r)
  \/ Sweep \/ LimiterTick

LimiterSpec == LimiterInit /\ [][LimiterNext]_limiterVars

-----------------------------------------------------------------------------
\* Eviction cannot be noticed: an address whose entry is gone would have a full
\* bucket, and one that has an entry has exactly the tokens it would have if
\* nothing were ever evicted, whatever requests are between fetching the entry
\* and taking a token (allow, cleanupLoop).
EvictionIsInvisible ==
  IF current = None THEN ideal = Burst ELSE tokens[current] = ideal

\* The map forgets: no entry stays longer than the idle time and one sweep
\* interval, although a late request may set its lastSeen back.
EntriesForgotten == idle <= IdleTTL + SweepInterval
=============================================================================
