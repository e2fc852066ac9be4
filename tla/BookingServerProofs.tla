-------------------------- MODULE BookingServerProofs --------------------------
(***************************************************************************)
(* Theorems about BookingServer, for every number of requests, pool size,  *)
(* deadline, number of retries, backoff and grace period.                  *)
(***************************************************************************)
EXTENDS BookingServer, FiniteSetTheorems, TLAPS

ServerTyped ==
  /\ proc \in {"starting", "fatal", "up", "draining", "closing", "exited"}
  /\ cfg \in Config
  /\ grace \in 0..Grace
  /\ kind \in [Req -> Kinds \cup {"none"}]
  /\ pc \in [Req -> OpenPc \cup {"idle"}]
  /\ left \in [Req -> Int]
  /\ held \in [Req -> Nat]

\* A process that runs was started with a valid configuration.
RunsValid == Running => Valid(cfg)

\* A request that runs under a deadline.
Timed(r) == Open(r) /\ HasDeadline(r)

\* The patience of a shutdown outlasts every deadline that is shorter.
GraceOutlasts ==
  /\ proc \in {"starting", "fatal", "up"} => grace = Grace
  /\ \A r \in Req : Timed(r) => left[r] <= cfg.timeout
  /\ cfg.timeout < Grace =>
       /\ proc = "draining" => \A r \in Req : Timed(r) => left[r] < grace
       /\ proc \in {"closing", "exited"} => \A r \in Req : ~Timed(r)

ServerInv ==
  ServerTyped /\ RunsValid /\ AnsweredByDeadline /\ NoConnectionLeaked /\ GraceOutlasts

\* Nothing is open when a process begins.
LEMMA ServerInit == Init => ServerInv
<1> SUFFICES ASSUME Init PROVE ServerInv
  OBVIOUS
<1>1. cfg \in Config
  BY EnvironmentAssumption DEF Init
<1>2. \A r \in Req : pc[r] = "idle" /\ held[r] = 0
  BY DEF Init
<1>3. ServerTyped
  BY <1>1, ServerAssumption DEF Init, ServerTyped
<1>4. \A r \in Req : ~Open(r)
  BY <1>2 DEF Open, OpenPc, WaitPc, RunPc
<1> QED BY <1>2, <1>3, <1>4
        DEF Init, ServerInv, RunsValid, Running, AnsweredByDeadline, NoConnectionLeaked,
            GraceOutlasts, Timed

\* A request moves on to another place of its call.
LEMMA GotoInv ==
  ASSUME ServerInv, NEW r \in Req, Open(r), NEW to \in OpenPc, NEW conns \in Nat,
         conns > 0 => to \in RunPc \cup {"getReplay"}, Goto(r, to, conns)
  PROVE  ServerInv'
<1>1. /\ pc' = [pc EXCEPT ![r] = to] /\ held' = [held EXCEPT ![r] = conns]
      /\ proc' = proc /\ cfg' = cfg /\ grace' = grace /\ kind' = kind /\ left' = left
  BY DEF Goto, process
<1>2. ServerTyped'
  BY <1>1 DEF ServerInv, ServerTyped
<1>3. \A q \in Req : Open(q)' = Open(q) /\ HasDeadline(q)' = HasDeadline(q)
  BY <1>1 DEF Open, HasDeadline, ServerInv, ServerTyped
<1>4. RunsValid' /\ AnsweredByDeadline' /\ GraceOutlasts'
  BY <1>1, <1>3 DEF ServerInv, RunsValid, Running, Valid, AnsweredByDeadline, GraceOutlasts, Timed
<1>5. NoConnectionLeaked'
  BY <1>1 DEF ServerInv, ServerTyped, NoConnectionLeaked
<1> QED BY <1>2, <1>4, <1>5 DEF ServerInv

\* A request answers and is free.
LEMMA AnswerInv ==
  ASSUME ServerInv, NEW r \in Req, Answer(r)
  PROVE  ServerInv'
<1>1. /\ pc' = [pc EXCEPT ![r] = "idle"] /\ held' = [held EXCEPT ![r] = 0]
      /\ kind' = [kind EXCEPT ![r] = "none"] /\ left' = [left EXCEPT ![r] = 0]
      /\ proc' = proc /\ cfg' = cfg /\ grace' = grace
  BY DEF Answer, Return, process
<1>2. ServerTyped'
  BY <1>1 DEF ServerInv, ServerTyped
<1>3. ~Open(r)'
  BY <1>1 DEF Open, OpenPc, WaitPc, RunPc, ServerInv, ServerTyped
<1>4. \A q \in Req : q # r => /\ Open(q)' = Open(q) /\ HasDeadline(q)' = HasDeadline(q)
                             /\ left'[q] = left[q] /\ held'[q] = held[q] /\ pc'[q] = pc[q]
  BY <1>1 DEF Open, HasDeadline, ServerInv, ServerTyped
<1>5. RunsValid' /\ AnsweredByDeadline' /\ GraceOutlasts'
  BY <1>1, <1>3, <1>4
  DEF ServerInv, RunsValid, Running, Valid, AnsweredByDeadline, GraceOutlasts, Timed
<1>6. NoConnectionLeaked'
  BY <1>1, <1>4 DEF ServerInv, ServerTyped, NoConnectionLeaked
<1> QED BY <1>2, <1>5, <1>6 DEF ServerInv

\* A request goes to sleep without a connection.
LEMMA RetryInv ==
  ASSUME ServerInv, NEW r \in Req, Retry(r)
  PROVE  ServerInv'
<1>1. CASE Answer(r)
  BY <1>1, AnswerInv
<1>2. CASE /\ pc' = [pc EXCEPT ![r] = "backoff"] /\ held' = [held EXCEPT ![r] = 0]
           /\ UNCHANGED <<process, kind, left>>
  <2>1. Open(r)
    BY DEF Retry, Open, OpenPc, RunPc
  <2>2. ServerTyped'
    BY <1>2 DEF ServerInv, ServerTyped, process, OpenPc
  <2>3. \A q \in Req : Open(q)' = Open(q) /\ HasDeadline(q)' = HasDeadline(q)
    BY <1>2, <2>1 DEF Open, OpenPc, HasDeadline, ServerInv, ServerTyped
  <2>4. RunsValid' /\ AnsweredByDeadline' /\ GraceOutlasts'
    BY <1>2, <2>3
    DEF ServerInv, RunsValid, Running, Valid, AnsweredByDeadline, GraceOutlasts, Timed, process
  <2>5. NoConnectionLeaked'
    BY <1>2 DEF ServerInv, ServerTyped, NoConnectionLeaked
  <2> QED BY <2>2, <2>4, <2>5 DEF ServerInv
<1> QED BY <1>1, <1>2 DEF Retry

\* What the server does about a request.
LEMMA StepInv ==
  ASSUME ServerInv, NEW r \in Req, Step(r)
  PROVE  ServerInv'
<1> USE DEF OpenPc, WaitPc, RunPc
<1>0. held[r] \in Nat
  BY DEF ServerInv, ServerTyped
<1>1. CASE Attempt(r)
  <2>1. Open(r) /\ FirstWait(r) \in OpenPc
    BY <1>1 DEF Attempt, Open, FirstWait
  <2> QED BY <1>1, <2>1, AnswerInv, GotoInv DEF Attempt
<1>2. CASE Retry(r)
  BY <1>2, RetryInv
<1>3. CASE Awake(r)
  <2>1. Open(r)
    BY <1>3 DEF Awake, Open
  <2> QED BY <1>3, <2>1, GotoInv DEF Awake
<1>4. CASE Acquire(r)
  <2>1. Open(r) /\ RunOf(pc[r]) \in RunPc
    BY <1>4 DEF Acquire, Open, RunOf
  <2> QED BY <1>0, <1>4, <2>1, GotoInv DEF Acquire
<1>5. CASE Lookup(r)
  <2>1. Open(r)
    BY <1>5 DEF Lookup, Open
  <2> QED BY <1>5, <2>1, AnswerInv, GotoInv DEF Lookup
<1>6. CASE Transaction(r)
  <2>1. Open(r)
    BY <1>6 DEF Transaction, Open
  <2> QED BY <1>6, <2>1, AnswerInv, GotoInv DEF Transaction
<1>7. CASE Replay(r) \/ Deadline(r)
  BY <1>7, AnswerInv DEF Replay, Deadline
<1> QED BY <1>1, <1>2, <1>3, <1>4, <1>5, <1>6, <1>7 DEF Step

\* A request arrives, with a whole deadline ahead.
LEMMA ArriveInv ==
  ASSUME ServerInv, NEW r \in Req, Arrive(r)
  PROVE  ServerInv'
<1>1. PICK k \in Kinds :
        /\ kind' = [kind EXCEPT ![r] = k]
        /\ pc' = [pc EXCEPT ![r] = IF k \in {"keyed", "retried"} THEN "loop" ELSE "getTx"]
  BY DEF Arrive
<1>2. /\ proc = "up" /\ left' = [left EXCEPT ![r] = cfg.timeout] /\ held' = held
      /\ proc' = proc /\ cfg' = cfg /\ grace' = grace /\ held[r] = 0
  BY DEF Arrive, process, ServerInv, ServerTyped, NoConnectionLeaked, RunPc
<1>3. cfg.timeout \in Int /\ cfg.timeout > 0
  BY <1>2 DEF ServerInv, ServerTyped, Config, RunsValid, Running, Valid
<1>4. ServerTyped'
  BY <1>1, <1>2, <1>3 DEF ServerInv, ServerTyped, OpenPc, WaitPc
<1>5. \A q \in Req : q # r => /\ Open(q)' = Open(q) /\ HasDeadline(q)' = HasDeadline(q)
                             /\ left'[q] = left[q] /\ pc'[q] = pc[q]
  BY <1>1, <1>2 DEF Open, HasDeadline, ServerInv, ServerTyped
<1>6. left'[r] = cfg.timeout
  BY <1>2 DEF ServerInv, ServerTyped
<1>7. RunsValid' /\ AnsweredByDeadline' /\ GraceOutlasts'
  BY <1>2, <1>3, <1>5, <1>6
  DEF ServerInv, RunsValid, Running, Valid, AnsweredByDeadline, GraceOutlasts, Timed
<1>8. NoConnectionLeaked'
  BY <1>2, <1>5, ServerAssumption DEF ServerInv, NoConnectionLeaked
<1> QED BY <1>4, <1>7, <1>8 DEF ServerInv

\* The client is gone: no deadline is later than it was.
LEMMA HangupInv ==
  ASSUME ServerInv, NEW r \in Req, Hangup(r)
  PROVE  ServerInv'
<1>1. /\ left' = [left EXCEPT ![r] = 0] /\ left[r] \in Int /\ left[r] > 0
      /\ proc' = proc /\ cfg' = cfg /\ grace' = grace /\ kind' = kind /\ pc' = pc /\ held' = held
  BY DEF Hangup, process, ServerInv, ServerTyped
<1>2. ServerTyped'
  BY <1>1 DEF ServerInv, ServerTyped
<1>3. \A q \in Req : /\ Open(q)' = Open(q) /\ HasDeadline(q)' = HasDeadline(q)
                     /\ left[q] \in Int /\ left'[q] \in Int
                     /\ left'[q] = left[q] \/ (left'[q] = 0 /\ left[q] > 0)
  BY <1>1 DEF Open, HasDeadline, ServerInv, ServerTyped
<1>4. cfg.timeout \in Int /\ grace \in Int
  BY ServerAssumption DEF ServerInv, ServerTyped, Config
<1>5. AnsweredByDeadline' /\ RunsValid' /\ NoConnectionLeaked'
  BY <1>1, <1>3 DEF ServerInv, AnsweredByDeadline, RunsValid, Running, Valid, NoConnectionLeaked
<1>6. GraceOutlasts'
  <2>1. \A q \in Req : left'[q] <= left[q]
    BY <1>1 DEF ServerInv, ServerTyped
  <2>2. \A q \in Req : Timed(q)' <=> Timed(q)
    BY <1>1 DEF Timed, Open, HasDeadline
  <2>3. \A q \in Req : Timed(q)' => left'[q] <= cfg'.timeout
    BY <1>1, <1>3, <1>4, <2>1, <2>2 DEF ServerInv, GraceOutlasts
  <2>4. cfg'.timeout < Grace /\ proc' = "draining" =>
          \A q \in Req : Timed(q)' => left'[q] < grace'
    BY <1>1, <1>3, <1>4, <2>1, <2>2 DEF ServerInv, GraceOutlasts
  <2>5. cfg'.timeout < Grace /\ proc' \in {"closing", "exited"} => \A q \in Req : ~Timed(q)'
    BY <1>1, <2>2 DEF ServerInv, GraceOutlasts
  <2>6. proc' \in {"starting", "fatal", "up"} => grace' = Grace
    BY <1>1 DEF ServerInv, GraceOutlasts
  <2> QED BY <2>3, <2>4, <2>5, <2>6 DEF GraceOutlasts
<1> QED BY <1>2, <1>5, <1>6 DEF ServerInv

\* Time passes only when nobody who could react is overdue.
LEMMA TickInv ==
  ASSUME ServerInv, Tick
  PROVE  ServerInv'
<1>1. proc' = proc /\ cfg' = cfg /\ kind' = kind /\ pc' = pc /\ held' = held
  BY DEF Tick
<1>2. \A q \in Req : Open(q)' = Open(q) /\ HasDeadline(q)' = HasDeadline(q)
  BY <1>1 DEF Open, HasDeadline
<1>3. \A q \in Req : left[q] \in Int /\ left'[q] \in Int /\ (Open(q) /\ left[q] >= 0 => left'[q] = left[q] - 1)
  BY DEF Tick, ServerInv, ServerTyped
<1>4. \A q \in Req : Timed(q) => left[q] > 0
  BY <1>3 DEF Tick, Timed, Open, Overdue, Selects, OpenPc
<1>5. ServerTyped'
  <2>1. left' \in [Req -> Int]
    BY <1>3 DEF Tick
  <2>2. grace' \in 0..Grace
    BY ServerAssumption DEF Tick, ServerInv, ServerTyped
  <2> QED BY <1>1, <2>1, <2>2 DEF ServerInv, ServerTyped
<1>6. AnsweredByDeadline'
  BY <1>2, <1>3, <1>4 DEF AnsweredByDeadline, Timed
<1>7. RunsValid' /\ NoConnectionLeaked'
  BY <1>1 DEF ServerInv, RunsValid, Running, Valid, NoConnectionLeaked
<1>8. GraceOutlasts'
  <2>1. cfg.timeout \in Int /\ grace \in Nat
    BY ServerAssumption DEF ServerInv, ServerTyped, Config
  <2>2. /\ proc # "draining" => grace' = grace
        /\ proc = "draining" /\ grace > 0 => grace' = grace - 1
        /\ proc = "draining" /\ grace = 0 => grace' = 0
    BY <2>1 DEF Tick
  <2>3. \A q \in Req : Timed(q)' => Timed(q) /\ left'[q] = left[q] - 1
    BY <1>2, <1>3, <1>4 DEF Timed
  <2> QED BY <1>1, <1>3, <1>4, <2>1, <2>2, <2>3 DEF ServerInv, GraceOutlasts
<1> QED BY <1>5, <1>6, <1>7, <1>8 DEF ServerInv

\* The process starts, is told to stop, has waited, and is gone.
LEMMA ProcessInv ==
  ASSUME ServerInv, Start \/ Signal \/ Shutdown \/ Exit
  PROVE  ServerInv'
<1>1. cfg' = cfg /\ grace' = grace /\ kind' = kind /\ pc' = pc /\ left' = left /\ held' = held
  BY DEF Start, Signal, Shutdown, Exit, requests
<1>2. \A q \in Req : Timed(q)' = Timed(q) /\ left'[q] = left[q] /\ left[q] \in Int
  BY <1>1 DEF Timed, Open, HasDeadline, ServerInv, ServerTyped
<1>3. ServerTyped'
  BY <1>1 DEF ServerInv, ServerTyped, Start, Signal, Shutdown, Exit
<1>4. AnsweredByDeadline' /\ NoConnectionLeaked'
  BY <1>1 DEF ServerInv, AnsweredByDeadline, NoConnectionLeaked, Open, HasDeadline
<1>5. RunsValid'
  BY <1>1 DEF ServerInv, RunsValid, Running, Valid, Start, Signal, Shutdown, Exit
<1>6. cfg.timeout \in Int /\ grace \in Nat /\ Grace \in Nat
  BY ServerAssumption DEF ServerInv, ServerTyped, Config
<1>7. GraceOutlasts'
  <2>1. CASE Start
    BY <1>1, <1>2, <2>1 DEF Start, ServerInv, GraceOutlasts
  <2>2. CASE Signal
    BY <1>1, <1>2, <1>6, <2>2 DEF Signal, ServerInv, GraceOutlasts
  <2>3. CASE Shutdown
    <3>1. cfg.timeout < Grace => \A q \in Req : ~Timed(q)
      BY <1>2, <1>6, <2>3 DEF Shutdown, Timed, ServerInv, GraceOutlasts, AnsweredByDeadline
    <3> QED BY <1>1, <1>2, <2>3, <3>1 DEF Shutdown, ServerInv, GraceOutlasts
  <2>4. CASE Exit
    BY <1>1, <1>2, <2>4 DEF Exit, ServerInv, GraceOutlasts
  <2> QED BY <2>1, <2>2, <2>3, <2>4
<1> QED BY <1>3, <1>4, <1>5, <1>7 DEF ServerInv

\* The invariant the theorems follow from.
LEMMA ServerInvariant == Spec => []ServerInv
<1>1. ServerInv /\ [Next]_vars => ServerInv'
  <2> SUFFICES ASSUME ServerInv, [Next]_vars PROVE ServerInv'
    OBVIOUS
  <2>1. CASE Start \/ Signal \/ Shutdown \/ Exit
    BY <2>1, ProcessInv
  <2>2. CASE Tick
    BY <2>2, TickInv
  <2>3. CASE \E r \in Req : Arrive(r) \/ Hangup(r) \/ Step(r)
    BY <2>3, ArriveInv, HangupInv, StepInv
  <2>4. CASE UNCHANGED vars
    BY <2>4 DEF vars, process, ServerInv, ServerTyped, RunsValid, Running, Valid,
       AnsweredByDeadline, NoConnectionLeaked, GraceOutlasts, Timed, Open, HasDeadline
  <2> QED BY <2>1, <2>2, <2>3, <2>4 DEF Next
<1> QED BY <1>1, ServerInit, PTL DEF Spec

\* No request outlives its deadline, wherever it blocks and however the pool,
\* the retries and the backoff are configured (withDeadline, withRetry).
THEOREM DeadlineKept == Spec => []AnsweredByDeadline
<1>1. ServerInv => AnsweredByDeadline
  BY DEF ServerInv
<1> QED BY <1>1, ServerInvariant, PTL

\* No path out of a store call keeps a pool connection.
THEOREM ConnectionsReturned == Spec => []NoConnectionLeaked
<1>1. ServerInv => NoConnectionLeaked
  BY DEF ServerInv
<1> QED BY <1>1, ServerInvariant, PTL

\* A deadline shorter than the grace period makes every shutdown clean.
THEOREM ShutdownIsClean == Spec => []ShutdownDrains
<1>1. ServerInv => ShutdownDrains
  BY DEF ServerInv, GraceOutlasts, ShutdownDrains, Timed
<1> QED BY <1>1, ServerInvariant, PTL

-----------------------------------------------------------------------------
(***************************************************************************)
(* The pool.  How many connections a request has follows from its place,   *)
(* so a step lends one more only by Acquire, which asks the pool first.    *)
(***************************************************************************)
HeldAt(p) == IF p \in {"lookup", "tx", "getReplay"} THEN 1 ELSE IF p = "replay" THEN 2 ELSE 0

PoolInv ==
  /\ attempt \in [Req -> Nat]
  /\ sleep \in [Req -> 0..MaxBackoff]
  /\ held \in [Req -> 0..2]
  /\ \A r \in Req : held[r] = HeldAt(pc[r])
  /\ IsFiniteSet(Lent)
  /\ proc \in {"starting", "fatal"} => \A r \in Req : held[r] = 0
  /\ Running => InUse <= cfg.pool

\* A backoff ceiling is within the cap, whatever the shift has overflowed to.
LEMMA CeilingCapped == \A a \in Nat : Ceiling(a) \in 0..MaxBackoff
<1> SUFFICES ASSUME NEW a \in Nat PROVE Ceiling(a) \in 0..MaxBackoff
  OBVIOUS
<1> DEFINE shift == IF a > MaxBackoffShift THEN MaxBackoffShift ELSE a
           c == Wrap(BaseBackoff * 2^shift, Int64Half)
<1>1. 2^shift \in Int
  BY ServerAssumption
<1>2. BaseBackoff * 2^shift \in Int
  BY <1>1, ServerAssumption
<1>3. c \in Int
  BY <1>2, ServerAssumption DEF Wrap
<1> HIDE DEF c
<1>4. (IF c <= 0 \/ c > MaxBackoff THEN MaxBackoff ELSE c) \in 0..MaxBackoff
  BY <1>3, ServerAssumption
<1> QED BY <1>4 DEF Ceiling, c

\* Giving connections back, or keeping them, lends no more than before.
LEMMA LendsNoMore ==
  ASSUME IsFiniteSet(Lent), held \in [Req -> 0..2], held' \in [Req -> 0..2],
         \A r \in Req : held'[r] <= held[r]
  PROVE  IsFiniteSet(Lent') /\ InUse' <= InUse /\ InUse' \in Nat /\ InUse \in Nat
<1>1. Lent' \subseteq Lent
  BY DEF Lent
<1> QED BY <1>1, FS_Subset, FS_CardinalityType DEF InUse

\* One more connection for one request is one more in use.
LEMMA LendsOne ==
  ASSUME IsFiniteSet(Lent), held \in [Req -> 0..2], NEW r \in Req, held[r] < 2,
         held' = [held EXCEPT ![r] = held[r] + 1]
  PROVE  IsFiniteSet(Lent') /\ InUse' <= InUse + 1 /\ InUse' \in Nat /\ InUse \in Nat
<1>1. held[r] + 1 \in {1, 2}
  OBVIOUS
<1>2. Lent' = Lent \cup {<<r, held[r] + 1>>}
  BY <1>1 DEF Lent
<1>3. PICK x : x = <<r, held[r] + 1>>
  OBVIOUS
<1>4. /\ IsFiniteSet(Lent \cup {x}) /\ Cardinality(Lent) \in Nat
      /\ Cardinality(Lent \cup {x}) \in {Cardinality(Lent), Cardinality(Lent) + 1}
  BY FS_AddElement, FS_CardinalityType
<1>5. InUse' = Cardinality(Lent \cup {x}) /\ InUse = Cardinality(Lent)
  BY <1>2, <1>3 DEF InUse
<1> QED BY <1>2, <1>3, <1>4, <1>5

\* A request moves, and has as many connections as its new place needs.
LEMMA MoveInv ==
  ASSUME ServerInv, PoolInv, Running, NEW r \in Req, NEW to \in OpenPc \cup {"idle"},
         pc' = [pc EXCEPT ![r] = to], held' = [held EXCEPT ![r] = HeldAt(to)],
         UNCHANGED <<proc, cfg>>, attempt' \in [Req -> Nat], sleep' \in [Req -> 0..MaxBackoff],
         \/ HeldAt(to) <= held[r]
         \/ HeldAt(to) = held[r] + 1 /\ InUse < cfg.pool
  PROVE  PoolInv'
<1>1. HeldAt(to) \in 0..2
  BY DEF HeldAt
<1>2. held' \in [Req -> 0..2]
  BY <1>1 DEF PoolInv
<1>3. \A q \in Req : held'[q] = HeldAt(pc'[q])
  BY DEF PoolInv, ServerInv, ServerTyped
<1>4. cfg.pool \in Int /\ cfg' = cfg
  BY DEF ServerInv, ServerTyped, Config
<1>5. IsFiniteSet(Lent') /\ InUse' <= cfg.pool
  <2>1. CASE HeldAt(to) <= held[r]
    <3>1. \A q \in Req : held'[q] <= held[q]
      BY <1>1, <2>1 DEF PoolInv
    <3>2. IsFiniteSet(Lent') /\ InUse' <= InUse /\ InUse' \in Nat /\ InUse \in Nat
      BY <1>2, <3>1, LendsNoMore DEF PoolInv
    <3> QED BY <1>4, <3>2 DEF PoolInv
  <2>2. CASE HeldAt(to) = held[r] + 1 /\ InUse < cfg.pool
    <3>1. held[r] < 2
      BY <1>1, <2>2 DEF PoolInv
    <3>2. IsFiniteSet(Lent') /\ InUse' <= InUse + 1 /\ InUse' \in Nat /\ InUse \in Nat
      BY <2>2, <3>1, LendsOne DEF PoolInv
    <3> QED BY <1>4, <2>2, <3>2
  <2> QED BY <2>1, <2>2
<1>6. proc' \notin {"starting", "fatal"}
  BY DEF Running
<1> QED BY <1>2, <1>3, <1>4, <1>5, <1>6 DEF PoolInv

\* What the server does about a request keeps within the pool.
LEMMA StepPool ==
  ASSUME ServerInv, PoolInv, NEW r \in Req, Step(r)
  PROVE  PoolInv'
<1> USE DEF OpenPc, WaitPc, RunPc
<1>0. /\ Running /\ held[r] = HeldAt(pc[r]) /\ HeldAt("idle") = 0 /\ held[r] \in 0..2
      /\ 0 \in 0..MaxBackoff
  BY ServerAssumption DEF Step, PoolInv, HeldAt
<1>1. ASSUME Answer(r) PROVE PoolInv'
  <2>1. /\ pc' = [pc EXCEPT ![r] = "idle"] /\ held' = [held EXCEPT ![r] = 0]
        /\ attempt' = [attempt EXCEPT ![r] = 0] /\ sleep' = [sleep EXCEPT ![r] = 0]
        /\ UNCHANGED <<proc, cfg>>
    BY <1>1 DEF Answer, Return, process
  <2>2. attempt' \in [Req -> Nat] /\ sleep' \in [Req -> 0..MaxBackoff]
    BY <1>0, <2>1 DEF PoolInv
  <2>3. held' = [held EXCEPT ![r] = HeldAt("idle")] /\ HeldAt("idle") <= held[r]
    BY <1>0, <2>1 DEF HeldAt
  <2> QED BY <1>0, <2>1, <2>2, <2>3, MoveInv
<1>2. ASSUME NEW to \in OpenPc, NEW conns, Goto(r, to, conns), conns = HeldAt(to),
             HeldAt(to) <= held[r] \/ (HeldAt(to) = held[r] + 1 /\ InUse < cfg.pool)
      PROVE  PoolInv'
  <2>1. /\ pc' = [pc EXCEPT ![r] = to] /\ held' = [held EXCEPT ![r] = HeldAt(to)]
        /\ UNCHANGED <<proc, cfg, attempt, sleep>>
    BY <1>2 DEF Goto, process
  <2> QED BY <1>0, <1>2, <2>1, MoveInv DEF PoolInv
<1>3. CASE Attempt(r)
  <2>1. FirstWait(r) \in OpenPc /\ HeldAt(FirstWait(r)) = 0
    BY DEF FirstWait, HeldAt
  <2> QED BY <1>0, <1>1, <1>2, <1>3, <2>1 DEF Attempt
<1>4. CASE Retry(r)
  <2>1. CASE Answer(r) BY <1>1, <2>1
  <2>2. CASE ~Answer(r)
    <3>1. /\ pc' = [pc EXCEPT ![r] = "backoff"] /\ held' = [held EXCEPT ![r] = 0]
          /\ attempt' = [attempt EXCEPT ![r] = @ + 1] /\ UNCHANGED <<proc, cfg>>
      BY <1>4, <2>2 DEF Retry, process
    <3>2. attempt' \in [Req -> Nat]
      BY <3>1 DEF PoolInv
    <3>3. PICK d \in 0..Ceiling(attempt[r]) :
            sleep' = [sleep EXCEPT ![r] = IF d > left[r] THEN left[r] + 1 ELSE d]
      BY <1>4, <2>2 DEF Retry
    <3>4. left[r] \in Int /\ left[r] >= 0
      BY <1>4 DEF Retry, ServerInv, ServerTyped, AnsweredByDeadline, Open, HasDeadline
    <3>5. d \in 0..MaxBackoff
      BY <3>3, CeilingCapped, ServerAssumption DEF PoolInv
    <3>6. sleep' \in [Req -> 0..MaxBackoff]
      <4>1. (IF d > left[r] THEN left[r] + 1 ELSE d) \in 0..MaxBackoff
        BY <3>4, <3>5, ServerAssumption
      <4> QED BY <3>3, <4>1 DEF PoolInv
    <3>7. HeldAt("backoff") = 0 /\ "backoff" \in OpenPc
      BY DEF HeldAt
    <3>8. held' = [held EXCEPT ![r] = HeldAt("backoff")] /\ HeldAt("backoff") <= held[r]
      BY <1>0, <3>1 DEF HeldAt
    <3> QED BY <1>0, <3>1, <3>2, <3>6, <3>7, <3>8, MoveInv
  <2> QED BY <2>1, <2>2
<1>5. CASE Awake(r)
  <2>1. "loop" \in OpenPc /\ HeldAt("loop") = 0
    BY DEF HeldAt
  <2> QED BY <1>0, <1>2, <1>5, <2>1 DEF Awake
<1>6. CASE Acquire(r)
  <2>1. RunOf(pc[r]) \in OpenPc /\ HeldAt(RunOf(pc[r])) = held[r] + 1
    BY <1>0, <1>6 DEF Acquire, RunOf, HeldAt
  <2> QED BY <1>2, <1>6, <2>1 DEF Acquire
<1>7. CASE Lookup(r)
  <2>1. "getTx" \in OpenPc /\ HeldAt("getTx") = 0
    BY DEF HeldAt
  <2> QED BY <1>0, <1>1, <1>2, <1>7, <2>1 DEF Lookup
<1>8. CASE Transaction(r)
  <2>1. "getReplay" \in OpenPc /\ HeldAt("getReplay") = 1 /\ HeldAt("tx") = 1
    BY DEF HeldAt
  <2> QED BY <1>0, <1>1, <1>2, <1>8, <2>1 DEF Transaction
<1>9. CASE Replay(r) \/ Deadline(r)
  BY <1>1, <1>9 DEF Replay, Deadline
<1> QED BY <1>3, <1>4, <1>5, <1>6, <1>7, <1>8, <1>9 DEF Step

\* Steps that lend and take back nothing.
LEMMA OtherPool ==
  ASSUME ServerInv, PoolInv,
         \/ Start \/ Signal \/ Shutdown \/ Exit \/ Tick \/ UNCHANGED vars
         \/ \E r \in Req : Arrive(r) \/ Hangup(r)
  PROVE  PoolInv'
<1>1. UNCHANGED <<cfg, held, attempt>>
  <2>1. CASE Start \/ Signal \/ Shutdown \/ Exit \/ UNCHANGED vars
    BY <2>1 DEF Start, Signal, Shutdown, Exit, vars, process, requests
  <2>2. CASE Tick BY <2>2 DEF Tick
  <2>3. CASE \E r \in Req : Arrive(r) \/ Hangup(r)
    BY <2>3 DEF Arrive, Hangup, process
  <2> QED BY <2>1, <2>2, <2>3
<1>2. sleep' \in [Req -> 0..MaxBackoff]
  <2>1. CASE Start \/ Signal \/ Shutdown \/ Exit \/ UNCHANGED vars
    BY <2>1 DEF Start, Signal, Shutdown, Exit, vars, requests, PoolInv
  <2>2. CASE Tick BY <2>2, ServerAssumption DEF Tick, PoolInv
  <2>3. CASE \E r \in Req : Arrive(r) \/ Hangup(r)
    BY <2>3 DEF Arrive, Hangup, PoolInv
  <2> QED BY <2>1, <2>2, <2>3
<1>3. \A r \in Req : HeldAt(pc'[r]) = HeldAt(pc[r])
  <2>1. CASE Start \/ Signal \/ Shutdown \/ Exit \/ UNCHANGED vars
    BY <2>1 DEF Start, Signal, Shutdown, Exit, vars, requests
  <2>2. CASE Tick BY <2>2 DEF Tick
  <2>3. CASE \E r \in Req : Hangup(r)
    BY <2>3 DEF Hangup
  <2>4. ASSUME NEW r \in Req, Arrive(r) PROVE \A q \in Req : HeldAt(pc'[q]) = HeldAt(pc[q])
    <3>1. pc[r] = "idle" /\ \E p \in {"loop", "getTx"} : pc' = [pc EXCEPT ![r] = p]
      BY <2>4 DEF Arrive
    <3> QED BY <3>1 DEF HeldAt, ServerInv, ServerTyped
  <2> QED BY <2>1, <2>2, <2>3, <2>4
<1>4. Lent' = Lent /\ InUse' = InUse
  BY <1>1 DEF Lent, InUse
<1>5. /\ proc' \in {"starting", "fatal"} => proc \in {"starting", "fatal"}
      /\ Running' => Running \/ (Start /\ Valid(cfg) /\ proc = "starting")
  <2>1. CASE Start BY <2>1 DEF Start, Running
  <2>2. CASE Signal \/ Shutdown \/ Exit BY <2>2 DEF Signal, Shutdown, Exit, Running
  <2>3. CASE Tick \/ UNCHANGED vars BY <2>3 DEF Tick, vars, process, Running
  <2>4. CASE \E r \in Req : Arrive(r) \/ Hangup(r)
    BY <2>4 DEF Arrive, Hangup, process, Running
  <2> QED BY <2>1, <2>2, <2>3, <2>4
<1>6. Running' => InUse <= cfg.pool
  <2>1. CASE Valid(cfg) /\ proc = "starting"
    <3>1. \A r \in Req : held[r] = 0
      BY <2>1 DEF PoolInv
    <3>2. Lent = {}
      BY <3>1 DEF Lent
    <3>3. InUse = 0
      BY <3>2, FS_EmptySet DEF InUse
    <3> QED BY <2>1, <3>3 DEF Valid, ServerInv, ServerTyped, Config
  <2> QED BY <1>5, <2>1 DEF PoolInv
<1> QED BY <1>1, <1>2, <1>3, <1>4, <1>5, <1>6 DEF PoolInv

\* The server keeps its types, and the pool its bound: the connections that
\* requests use, and the second ones that keyed holds take while they have a
\* first, are never more than the pool size, for any number of requests.
THEOREM PoolIsBounded == Spec => []TypeOK
<1>1. Init => PoolInv
  <2> SUFFICES ASSUME Init PROVE PoolInv
    OBVIOUS
  <2>1. Lent = {}
    BY DEF Init, Lent
  <2>2. IsFiniteSet(Lent)
    BY <2>1, FS_EmptySet
  <2> QED BY <2>2, ServerAssumption DEF Init, PoolInv, HeldAt, Running
<1>2. ServerInv /\ PoolInv /\ [Next]_vars => PoolInv'
  BY StepPool, OtherPool DEF Next
<1>3. ServerInv /\ PoolInv => TypeOK
  BY DEF ServerInv, ServerTyped, PoolInv, TypeOK
<1> QED BY <1>1, <1>2, <1>3, ServerInvariant, PTL DEF Spec

\* Later attempts never back off less than earlier ones: the clamp on the shift
\* keeps it from overflowing, and the cap is reached once and for all.
THEOREM BackoffNeverShrinks == Spec => []BackoffGrows
<1> DEFINE Shift(a) == IF a > MaxBackoffShift THEN MaxBackoffShift ELSE a
<1>1. ASSUME NEW s \in 0..MaxBackoffShift
      PROVE  Wrap(BaseBackoff * 2^s, Int64Half) = BaseBackoff * 2^s
  <2>1. PICK n : n = BaseBackoff * 2^s
    OBVIOUS
  <2>2. n \in 1..(Int64Half - 1)
    BY <2>1, ShiftAssumption
  <2>3. Wrap(n, Int64Half) = n
    BY <2>2, ServerAssumption DEF Wrap
  <2> QED BY <2>1, <2>3
<1>2. ASSUME NEW s \in 1..MaxBackoffShift
      PROVE  BaseBackoff * 2^(s - 1) <= BaseBackoff * 2^s
  <2>1. PICK n : n = BaseBackoff * 2^(s - 1)
    OBVIOUS
  <2>2. n \in Int /\ n >= 1
    BY <2>1, ShiftAssumption, ServerAssumption
  <2>3. BaseBackoff * 2^s = 2 * n
    <3>1. 2^(s - 1) \in Int BY ServerAssumption
    <3>2. \A p \in Int : BaseBackoff * (2 * p) = 2 * (BaseBackoff * p) BY ServerAssumption
    <3> QED BY <2>1, <3>1, <3>2, ShiftAssumption
  <2> QED BY <2>1, <2>2, <2>3
<1>3. ASSUME NEW a \in Nat \ {0} PROVE Ceiling(a - 1) <= Ceiling(a)
  <2>1. /\ Shift(a) \in 0..MaxBackoffShift /\ Shift(a - 1) \in 0..MaxBackoffShift
        /\ Shift(a - 1) = Shift(a) \/ (Shift(a - 1) = Shift(a) - 1 /\ Shift(a) \in 1..MaxBackoffShift)
    BY ServerAssumption
  <2>2. PICK c : c = BaseBackoff * 2^Shift(a)
    OBVIOUS
  <2>3. PICK b : b = BaseBackoff * 2^Shift(a - 1)
    OBVIOUS
  <2>4. b \in Int /\ c \in Int /\ b >= 1 /\ c >= 1
    BY <2>1, <2>2, <2>3, ShiftAssumption, ServerAssumption
  <2>5. b <= c
    BY <1>2, <2>1, <2>2, <2>3, <2>4
  <2>6. Ceiling(a) = IF c <= 0 \/ c > MaxBackoff THEN MaxBackoff ELSE c
    BY <1>1, <2>1, <2>2 DEF Ceiling
  <2>7. Ceiling(a - 1) = IF b <= 0 \/ b > MaxBackoff THEN MaxBackoff ELSE b
    BY <1>1, <2>1, <2>3 DEF Ceiling
  <2> QED BY <2>4, <2>5, <2>6, <2>7, ServerAssumption
<1>4. ServerInv => BackoffGrows
  BY <1>3 DEF ServerInv, ServerTyped, Config, BackoffGrows
<1> QED BY <1>4, ServerInvariant, PTL
=============================================================================
