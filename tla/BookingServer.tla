----------------------------- MODULE BookingServer -----------------------------
(***************************************************************************)
(* One server process: it loads its configuration, opens a bounded         *)
(* connection pool, serves requests and shuts down.  A request is one      *)
(* goroutine r that runs a store call under the request deadline, again    *)
(* and again while withRetry lets it, and pc[r] is the place where it      *)
(* blocks or works.  What the store call does to the tables is             *)
(* BookingStore's; here only its connections, its errors and its time      *)
(* count.                                                                  *)
(*                                                                         *)
(* Time is relative: left[r] is what remains of a request's deadline, and  *)
(* -1 means that it was overrun.  The database may take any time and fail  *)
(* in any way; a goroutine that selects on its context reacts at the       *)
(* deadline, before time goes on.                                          *)
(***************************************************************************)
EXTENDS Integers, FiniteSets, FiniteSetsExt

CONSTANTS
  Req,                    \* request goroutines; one that has answered is free again
  Environment,            \* the environments a process may be started in
  Fallback,               \* config.Load's default values
  MaxTTL,                 \* the upper bound on HOLD_TTL, 1h
  Int32Half, Int64Half,   \* 2^31 and 2^63
  BaseBackoff, MaxBackoff, MaxBackoffShift,
  Grace                   \* how long Shutdown waits, 10s

ASSUME ServerAssumption ==
  /\ Int32Half \in Nat \ {0} /\ Int64Half \in Nat \ {0}
  /\ BaseBackoff \in Nat \ {0} /\ MaxBackoff \in Nat \ {0} /\ MaxBackoffShift \in Nat
  /\ Grace \in Nat

\* No shift that backoffFor allows overflows: 10ms << 20 is far below 2^63.  The
\* second conjunct is what << does, and 2^s is, for every such shift.
ASSUME ShiftAssumption ==
  /\ \A s \in 0..MaxBackoffShift : BaseBackoff * 2^s \in 1..(Int64Half - 1)
  /\ \A s \in 1..MaxBackoffShift : 2^s = 2 * 2^(s - 1)

VARIABLES
  proc,      \* the process
  cfg,       \* its configuration
  grace,     \* what remains of the shutdown's patience
  kind,      \* what each request asks for
  pc,        \* where each request is
  left,      \* what remains of its deadline
  attempt,   \* withRetry's loop variable
  sleep,     \* what remains of its backoff
  held       \* pool connections it has

process == <<proc, cfg, grace>>
vars == <<process, kind, pc, left, attempt, sleep, held>>

(***************************************************************************)
(* Configuration.  An environment gives every setting a set: empty when    *)
(* the variable is unset or does not parse, else the one number it holds.  *)
(***************************************************************************)
Get(setting, fallback) == IF setting = {} THEN fallback ELSE Min(setting)

Wrap(n, half) == ((n + half) % (2 * half)) - half

Load(env) ==
  [ttl     |-> Get(env.ttl, Fallback.ttl),
   pool    |-> Wrap(Get(env.pool, Fallback.pool), Int32Half),
   timeout |-> Get(env.timeout, Fallback.timeout),
   batch   |-> Get(env.batch, Fallback.batch),
   retries |-> Get(env.retries, Fallback.retries)]

Valid(c) ==
  /\ c.ttl > 0 /\ c.ttl <= MaxTTL
  /\ c.pool > 0 /\ c.timeout > 0 /\ c.batch > 0
  /\ c.retries >= 0

Config == [ttl : Int, pool : Int, timeout : Int, batch : Int, retries : Int]

ASSUME EnvironmentAssumption == \A env \in Environment : Load(env) \in Config

\* keyed: a hold with an idempotency key; retried: a keyless hold, a confirm or
\* a cancel; once: a release or a booking list; ping: a health check.
Kinds == {"keyed", "retried", "once", "ping"}

\* Mutant: only the calls that retry are given a deadline.
HasDeadlineIfRetried(r) == kind[r] \in {"keyed", "retried"}

HasDeadline(r) == kind[r] # "ping"

\* Waiting for a connection, and using one.
WaitPc == {"getLookup", "getTx", "getReplay"}
RunPc == {"lookup", "tx", "replay"}
RunOf(p) == CASE p = "getLookup" -> "lookup" [] p = "getTx" -> "tx" [] p = "getReplay" -> "replay"
OpenPc == WaitPc \cup RunPc \cup {"loop", "backoff"}

Running == proc \in {"up", "draining", "closing"}
Lent == {c \in Req \X {1, 2} : c[2] <= held[c[1]]}   \* r's first, r's second connection
InUse == Cardinality(Lent)

TypeOK ==
  /\ proc \in {"starting", "fatal", "up", "draining", "closing", "exited"}
  /\ cfg \in Config
  /\ grace \in 0..Grace
  /\ kind \in [Req -> Kinds \cup {"none"}]
  /\ pc \in [Req -> OpenPc \cup {"idle"}]
  /\ left \in [Req -> Int]
  /\ attempt \in [Req -> Nat]
  /\ sleep \in [Req -> 0..MaxBackoff]
  /\ held \in [Req -> 0..2]
  /\ Running => InUse <= cfg.pool

Init ==
  /\ proc = "starting"
  /\ cfg \in {Load(env) : env \in Environment}
  /\ grace = Grace
  /\ kind = [r \in Req |-> "none"]
  /\ pc = [r \in Req |-> "idle"]
  /\ left = [r \in Req |-> 0]
  /\ attempt = [r \in Req |-> 0]
  /\ sleep = [r \in Req |-> 0]
  /\ held = [r \in Req |-> 0]

(***************************************************************************)
(* The process.  main stops on an invalid configuration, and when NewPool  *)
(* cannot reach the database.                                              *)
(***************************************************************************)
requests == <<kind, pc, left, attempt, sleep, held>>

Start ==
  /\ proc = "starting"
  /\ proc' \in IF Valid(cfg) THEN {"up", "fatal"} ELSE {"fatal"}
  /\ UNCHANGED <<cfg, grace, requests>>

Signal ==
  /\ proc = "up"
  /\ proc' = "draining"
  /\ UNCHANGED <<cfg, grace, requests>>

Open(r) == pc[r] \in OpenPc

\* Mutant: the listener is closed and main does not wait for the handlers.
ShutdownAtOnce ==
  /\ proc = "draining"
  /\ proc' = "closing"
  /\ UNCHANGED <<cfg, grace, requests>>

\* srv.Shutdown returns when no request is open, or when its context is done.
Shutdown ==
  /\ proc = "draining"
  /\ grace = 0 \/ \A r \in Req : ~Open(r)
  /\ proc' = "closing"
  /\ UNCHANGED <<cfg, grace, requests>>

\* The deferred pool.Close waits for every connection; then the process is gone
\* and with it every goroutine.
Exit ==
  /\ proc = "closing" /\ \A r \in Req : held[r] = 0
  /\ proc' = "exited"
  /\ UNCHANGED <<cfg, grace, requests>>

(***************************************************************************)
(* Handlers.                                                               *)
(***************************************************************************)
FirstWait(r) == IF kind[r] = "keyed" THEN "getLookup" ELSE "getTx"

\* A handler that has read and accepted its input (a malformed request is answered
\* at once) begins the deadline, and withRetry's loop when its service call has
\* one.  Reading the body comes first and has no deadline: it is not modelled.
Arrive(r) ==
  /\ proc = "up" /\ pc[r] = "idle"
  /\ \E k \in Kinds :
       /\ kind' = [kind EXCEPT ![r] = k]
       /\ pc' = [pc EXCEPT ![r] = IF k \in {"keyed", "retried"} THEN "loop" ELSE "getTx"]
  /\ left' = [left EXCEPT ![r] = cfg.timeout]
  /\ UNCHANGED <<process, attempt, sleep, held>>

\* The call returns, with a result or any error: the deferred Rollback and the
\* end of a query give the connections back, the handler writes its response
\* and the goroutine's variables are gone.
Return(r, leaked) ==
  /\ kind' = [kind EXCEPT ![r] = "none"]
  /\ pc' = [pc EXCEPT ![r] = "idle"]
  /\ left' = [left EXCEPT ![r] = 0]
  /\ attempt' = [attempt EXCEPT ![r] = 0]
  /\ sleep' = [sleep EXCEPT ![r] = 0]
  /\ held' = [held EXCEPT ![r] = leaked]
  /\ UNCHANGED process

Answer(r) == Return(r, 0)

Goto(r, to, conns) ==
  /\ pc' = [pc EXCEPT ![r] = to]
  /\ held' = [held EXCEPT ![r] = conns]
  /\ UNCHANGED <<process, kind, left, attempt, sleep>>

(***************************************************************************)
(* withRetry.                                                              *)
(***************************************************************************)
\* Mutant: the exponent is not clamped.
CeilingUnclamped(a) ==
  LET c == Wrap(BaseBackoff * 2^a, Int64Half)
  IN  IF c <= 0 \/ c > MaxBackoff THEN MaxBackoff ELSE c

\* backoffFor draws from 0..Ceiling(attempt).
Ceiling(a) ==
  LET shift == IF a > MaxBackoffShift THEN MaxBackoffShift ELSE a
      c == Wrap(BaseBackoff * 2^shift, Int64Half)
  IN  IF c <= 0 \/ c > MaxBackoff THEN MaxBackoff ELSE c

\* The top of the loop: the context is asked before every attempt.
Attempt(r) ==
  /\ pc[r] = "loop"
  /\ \/ left[r] <= 0 /\ Answer(r)
     \/ left[r] > 0 /\ Goto(r, FirstWait(r), 0)

\* A serialization failure or a deadlock: sleep, or give up after the last try.
\* Naps longer than what is left of the deadline are not told apart.
Retry(r) ==
  /\ pc[r] = "tx" /\ kind[r] \in {"keyed", "retried"}
  /\ \/ /\ attempt[r] < cfg.retries
        /\ pc' = [pc EXCEPT ![r] = "backoff"]
        /\ \E d \in 0..Ceiling(attempt[r]) :
             sleep' = [sleep EXCEPT ![r] = IF d > left[r] THEN left[r] + 1 ELSE d]
        /\ attempt' = [attempt EXCEPT ![r] = @ + 1]
        /\ held' = [held EXCEPT ![r] = 0]
        /\ UNCHANGED <<process, kind, left>>
     \/ attempt[r] >= cfg.retries /\ Answer(r)

Awake(r) ==
  /\ pc[r] = "backoff" /\ sleep[r] = 0
  /\ Goto(r, "loop", 0)

(***************************************************************************)
(* Store calls.  placeHold with a key looks the key up before it begins    *)
(* its transaction, and once more, on a second connection, after a unique  *)
(* violation has aborted it.                                               *)
(***************************************************************************)
\* Mutant: the pool grows on demand.
AcquireUnbounded(r) ==
  /\ pc[r] \in WaitPc
  /\ Goto(r, RunOf(pc[r]), held[r] + 1)

Acquire(r) ==
  /\ pc[r] \in WaitPc /\ InUse < cfg.pool
  /\ Goto(r, RunOf(pc[r]), held[r] + 1)

\* A replay (or a key conflict) answers; else the transaction begins.
Lookup(r) ==
  /\ pc[r] = "lookup"
  /\ Answer(r) \/ Goto(r, "getTx", 0)

Transaction(r) ==
  /\ pc[r] = "tx"
  /\ Answer(r) \/ (kind[r] = "keyed" /\ Goto(r, "getReplay", 1))

Replay(r) ==
  /\ pc[r] = "replay"
  /\ Answer(r)

\* Mutant: the backoff is a plain time.Sleep.
SelectsSleep == WaitPc \cup RunPc

\* Where a goroutine is woken by its context: waiting for a connection or for
\* PostgreSQL, and sleeping.
Selects == WaitPc \cup RunPc \cup {"backoff"}

Overdue(r) == HasDeadline(r) /\ left[r] <= 0

\* Mutant: the transaction is not rolled back when the second lookup fails.
DeadlineLeaks(r) ==
  /\ pc[r] \in Selects /\ Overdue(r)
  /\ Return(r, IF pc[r] = "getReplay" THEN 1 ELSE 0)

Deadline(r) ==
  /\ pc[r] \in Selects /\ Overdue(r)
  /\ Answer(r)

\* The client closes its connection: net/http cancels the request's context.
Hangup(r) ==
  /\ Open(r) /\ HasDeadline(r) /\ left[r] > 0
  /\ left' = [left EXCEPT ![r] = 0]
  /\ UNCHANGED <<process, kind, pc, attempt, sleep, held>>

Tick ==
  /\ Running
  /\ \A r \in Req : Overdue(r) => pc[r] \notin Selects \cup {"loop"}
  /\ left' = [r \in Req |-> IF Open(r) /\ left[r] >= 0 THEN left[r] - 1 ELSE left[r]]
  /\ sleep' = [r \in Req |-> IF pc[r] = "backoff" /\ sleep[r] > 0
                             THEN sleep[r] - 1 ELSE sleep[r]]
  /\ grace' = IF proc = "draining" /\ grace > 0 THEN grace - 1 ELSE grace
  /\ UNCHANGED <<proc, cfg, kind, pc, attempt, held>>

-----------------------------------------------------------------------------
\* What the server does about a request by itself.
Step(r) ==
  /\ Running
  /\ \/ Attempt(r) \/ Retry(r) \/ Awake(r) \/ Acquire(r)
     \/ Lookup(r) \/ Transaction(r) \/ Replay(r) \/ Deadline(r)

Next ==
  \/ Start \/ Signal \/ Shutdown \/ Exit \/ Tick
  \/ \E r \in Req : Arrive(r) \/ Hangup(r) \/ Step(r)

Spec == Init /\ [][Next]_vars

\* Goroutines run, time passes, the pool serves whoever waits longest, and a
\* health check's query comes back.  Nothing else PostgreSQL does is promised.
Fairness ==
  /\ SF_vars(Tick) /\ WF_vars(Shutdown) /\ WF_vars(Exit)
  /\ \A r \in Req :
       /\ WF_vars(Running /\ (Attempt(r) \/ Awake(r) \/ Deadline(r)))
       /\ SF_vars(Running /\ kind[r] = "ping" /\ (Acquire(r) \/ Transaction(r)))

FairSpec == Spec /\ Fairness

-----------------------------------------------------------------------------
\* A request never outlives its deadline, wherever it blocks: on a saturated
\* pool, on PostgreSQL, asleep between attempts, or holding one connection and
\* waiting for a second one (withDeadline, withRetry).
AnsweredByDeadline ==
  \A r \in Req : Open(r) /\ HasDeadline(r) => left[r] >= 0

\* No path out of a store call keeps a connection: who is not in a call has
\* none, also after an error, a retry or a deadline in mid-transaction.
NoConnectionLeaked ==
  \A r \in Req : held[r] > 0 => pc[r] \in RunPc \cup {"getReplay"}

\* Every request is answered or dies with its process, even when each
\* connection is held by a request that waits for another one.
EveryRequestAnswered ==
  \A r \in Req : Open(r) ~> (~Open(r) \/ proc = "exited")

\* A shutdown cuts nobody off: when the deadline is shorter than the grace
\* period, the process exits with every request but health checks answered.
ShutdownDrains ==
  proc = "exited" /\ cfg.timeout < Grace =>
    \A r \in Req : Open(r) => ~HasDeadline(r)

\* A process asked to stop stops: pool.Close does not wait for ever.
SignalEndsProcess == proc = "draining" ~> proc = "exited"

\* Later attempts never back off less than earlier ones, however many retries
\* are configured: the shift does not overflow into a smaller ceiling.
BackoffGrows ==
  \A a \in 1..cfg.retries : Ceiling(a - 1) <= Ceiling(a)
=============================================================================
