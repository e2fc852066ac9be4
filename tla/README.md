# A TLA+ model of the stadium booking system

The system sells the seats of cricket matches.  Buyers hold a seat for a few
minutes, confirm or release it, and may cancel a purchase before the match; a
background worker refunds cancellations and cleans up.  Go servers and workers
share one PostgreSQL database, which is the only shared state between
processes.  Paths below are relative to `src/cricket-stadium-booking/`.

## Inventory

| Component | State | Operations | Hard behaviour | What makes it correct |
|---|---|---|---|---|
| Store, booking tables (`internal/store/holds.go`, `refunds.go`, `invariants.go`, `migrations/`) | `bookings`, `idempotency_keys`, `refunds` | `PlaceHold[WithKey]`, `ConfirmHold`, `ReleaseHold`, `CancelBooking`, `SweepExpiredHolds`, `PruneIdempotencyKeys` | transactions of many goroutines and processes interleave statement by statement; snapshots, row locks, unique indexes, an advisory lock, deadlocks, lost commits, retries with keys, `now()` standing still in a transaction | a seat has one active row, a buyer one hold per match; a replacement is atomic; keys replay the right booking; one refund per cancelled purchase |
| Outbox and worker (`outbox.go`, `refunds.go`, `cmd/worker`) | `refunds`, `outbox_events` with a lease, what a worker has in hand | poll, gateway, record, release, mark | several workers, crashes between statements, leases that run out under a slow worker, poison events | no refund forgotten, invented or overwritten; everything is processed in the end |
| Seat-map cache (`internal/booking/seatcache.go`, `service.go`) | one entry per match, one load in flight | get, load, put, invalidate | loads race writes and invalidations; waiters time out; other instances write | bounded staleness, no going back, no stranded reader |
| Booking service (`internal/booking/service.go` and the wrappers) | the cache, a deadline and a retry counter per request | `withDeadline`, `withRetry`, `backoffFor`, invalidation | a backoff races the deadline; 64-bit shifts | an answer by the deadline; bounded, growing backoffs |
| Connection pool (`internal/store/pool.go`) | connections | acquire, release, close | a request that holds one connection waits for a second | no leak, no stand-still |
| Configuration (`internal/config`) | one record | `Load`, `Validate` | an int wraps into an int32 | nothing unusable is accepted |
| Server process (`cmd/server`) | starting, up, draining, gone | start, signal, shutdown | a shutdown overtakes requests | nobody is cut off; it ends |
| HTTP API (`internal/httpapi`: router, handlers, render, errors) | none | decode, call, answer, recover | a panic in mid-response | the client can read what it gets |
| Rate limiter (`ratelimit.go`) | a token bucket and `lastSeen` per address | `allow`, `cleanupLoop` | eviction races a request between its steps | eviction is invisible, and happens |
| Static delivery and compression (`delivery.go`, `static.go`) | pooled `gzip.Writer`s, prepared assets | negotiate, wrap, close | pooled writers, prepared bodies and panics meet | right coding and length, writers not shared |
| Reads (`store/seats.go`, `store/bookings.go`) | none | `ListSeats`, `ListBookings` | status derived from the clock | a snapshot of what was committed |
| Browser UI (`web/app.js`) | hold, countdown, seat request, bookings request, timers | hold, confirm, release, cancel, refresh, poll, change buyer, hide, show | overlapping, failing and lost answers | the last map was asked for after one's own mutations; bookings are one's own; polling goes on |
| Logging, load test | - | - | - | out of scope, see below |

Servers call the store through the service; they and the worker meet only in
the database.  A service call that commits then invalidates the cache of its
own instance.  `CancelBooking` hands work to the worker through `outbox_events`.

## Modules

| Module | Models |
|---|---|
| `BookingStore` | the booking tables and every statement run on them |
| `SeatLedger` | abstract: what a box office may do with a seat |
| `StoreRefinement` | `BookingStore` implements `SeatLedger` |
| `BookingStoreProofs` | theorems about `BookingStore` |
| `StoreRefundProofs` | theorems about refunds and the rows' lifecycle |
| `StoreLedgerProofs` | theorems about what clients rely on: holds, keys, answers, losers, and the refinement of `SeatLedger` |
| `RefundOutbox`, `RefundOutboxProofs` | cancellations, outbox events and workers |
| `SeatCache`, `SeatCacheProofs` | the cache of one match on one server |
| `BookingServer`, `BookingServerProofs` | one server process: configuration, pool, deadlines, retries, shutdown |
| `RateLimiter` | the token bucket of one client address and its eviction |
| `HttpFront`, `HttpFrontProofs` | the middleware chain; EXTENDS `RateLimiter` and implements its specification |
| `WebClient`, `WebClientProofs` | the page's event loop against an unreliable server |
| `MCStore`, `MCOutbox`, `MCCache`, `MCServer`, `MCFront`, `MCWeb` | instances for TLC |

Definitions named as mutants in a comment are wrong versions of the definition
that follows; no specification uses them.  They show that a property notices
the bug they stand for.

### BookingStore

A request is a goroutine `r`.  `pc[r]` names the SQL statement it runs next,
`req[r]` its parameters, `tx[r]` its open transaction: the rows it has rewritten
(`cancels`, `expires`), the row it has inserted (`new`), its changes to
`idempotency_keys`, the rows an `UPDATE` has picked and waits for (`wait`),
and the value of `now()`.  The committed tables are `bookings`, `keys` and
`refunds`; a commit applies `tx[r]` to them in one step, an abort forgets it.
`tries[r]` counts what `withRetry` has used and `reply` is what the last step
told its client.

PostgreSQL is external.  It is modelled as the code relies on it:

* READ COMMITTED: a statement sees what was committed when it ran.  An `UPDATE`
  picks rows in one step (`ReleasePrevious`, `ExpireStale`) and rewrites them in
  another (`ReleaseRows`, `ExpireRows`), once no other transaction has them
  locked, re-checking `status`.
* A unique index lets an `INSERT` wait while a rival row is uncommitted or is
  being rewritten (`PendingRivals`, `RowLocked`), and fails it on a committed
  rival (`InsertRefused`).
* The advisory lock is held from its statement to the end of the transaction.
  Two buyers whose hashes collide would wait for each other; that only adds
  waiting and is left out.
* The deadlock detector aborts some member of a cycle (`DeadlockAbort`);
  `withRetry` starts `placeHold` again at most `MaxRetries` times.
* `Fail` is the request deadline, a dropped connection or a dying server: the
  transaction is rolled back.  A lost answer to `COMMIT` is the second
  disjunct of `CommitHold`, `CommitCancel`, `ConfirmHold` and `ReleaseHold`.

`ConfirmHold`, `ReleaseHold` and the `UPDATE` of `CancelBooking` touch one row:
`StartRowOp` fixes `now()`, then the statement takes its row or misses.
`SweepExpiredHolds` and `PruneIdempotencyKeys` are one step each, over a batch
of the oldest rows nobody has locked.

### RefundOutbox

One event per purchase (`CancelBooking` succeeds once per booking, which
`BookingStore` shows) plus a set `Bad` of malformed ones.  Each statement of
`processBatch` is a step; each may fail before or after the server applied it;
`Crash` may come between any two.  Time is kept as ages that stop counting once
the lease has run out, so the model is finite without a bound on time.
`external_ref` is the worker whose gateway call it came from.

### SeatCache

A seat map is the number of committed writes it reflects: two maps are told
apart by that and nothing else, which is what `seatSnapshotVersion` does up to
writes that cancel out.  `Get` is the lookup, `DoChan` joins or starts the call,
`Recheck`, `Query`, `Put` and `Deliver` are the call, `Receive` and `GiveUp` the
two arms of the `select`.  `Commit` and `Invalidate` are a service call;
`CommitUnseen` stands for all writes that do not invalidate this cache: another
instance's, the worker's, a hold running out, a commit whose answer was lost.
Steps in memory take no time; a query may take up to its deadline.

### BookingServer

A request is a goroutine; `pc` says where it blocks: before an attempt of
`withRetry` (`loop`), waiting for a connection (`getLookup`, `getTx`,
`getReplay`), using it, or asleep (`backoff`).  What its statements do to the
tables is `BookingStore`'s business; here they take any time, fail in any way and
use connections.  A keyed `placeHold` holds its transaction's connection while it
waits for a second one (`getReplay`), because the deferred `Rollback` runs when
the function returns.  Four kinds of request are told apart: keyed holds; calls
with `withRetry`; calls with a deadline only; and the health check, which has
neither.  A read of the seat map is of the third kind: its query runs detached
from the reader for at most one deadline of its own, which `SeatCache` follows.  A
request arrives when its body has been read: `decodeJSON` runs before `withDeadline`
(`httpapi/holds.go:15`) and the `http.Server` has no `ReadTimeout` (`cmd/server/main.go:36`),
so a client that stops in the middle of a body blocks its handler without a deadline.
`ShutdownDrains`, `EveryRequestAnswered` and `AnsweredByDeadline` say nothing of it.

Time is relative: `left` counts a deadline down, and time does not pass a deadline
while the goroutine is in a place that selects on its context.  `Load` and `Valid`
are `config.Load` and `Validate` over environments in which a variable is absent
(or does not parse) or a number; `Wrap` is the conversion to `int32` and the shift
in 64 bits, with the word sizes as constants.

### RateLimiter and HttpFront

`allow` is three steps: it reads the clock, then fetches or creates the entry under
the mutex, then takes a token outside it.  Between them the janitor may evict the
entry and another request may write an older `lastSeen`.  `ideal` is the bucket of a
limiter that never evicts.  `MaxStall` bounds the time a goroutine needs for `allow`;
the assumption that the bucket refills in the idle time, less twice that, is what the
code's 10 minutes, 10 per second and burst of 20 give with a large margin.
Entries of two addresses share only the mutex, so one address is modelled.

`HttpFront` is the chain gzip, recover, limiter, router.  A response is reduced to its
status, type and gzip layers: those declared by `Content-Encoding` (`ce`), those
`Content-Length` counts (`len`), those of what the handler writes (`data`) and those of
each piece that was sent.  Status 200 stands for every status that allows a body.
Accept-Encoding headers are sequences of codings with a quality, and `Wants` is what RFC
9110 says a client means; the code reads one header line, and so does the model.

A handler may panic before its header or between header and end of body.
`recoverMiddleware` then writes its JSON by the same `ResponseWriter`, and undoes nothing:

* before the header, a `Content-Encoding` and a `Content-Length` that `serveStaticAsset`
  has set by then stay (`Recovered`).  The JSON goes out under them with status 500, raw
  where gzip is declared and short of the length;
* after the header, the JSON follows what the handler wrote (`Followed`).  In a response
  that the wrapper compresses it joins the stream, which `close` completes.  In a prepared
  asset it is raw, and either ends before the declared length, so that `net/http` cuts the
  connection (`cut`), or is refused because the whole body is out already.

`type` is "mixed" for such a response.  `Decodable` demands a readable body of all others
and of mixed ones in a compressed stream, and of the rest that the client can tell: status
500 or a body that ends early.  None of the statements of `serveStaticAsset` is known to
panic; the model lets all of them.  A surviving ETag or Cache-Control is not modelled.

### WebClient

One action per event handler, timer or continuation of an `await`.  A seat request is
only old or new: whether it was sent after the last mutation the server applied.
`fetch` is `refreshPromise`, `again` a `refreshAfterMutation` that waits for it; `req` is
`bookingRequest`, `poll` the refund timer's callback that awaits it.  `waiting` is what the
calls that will `scheduleNextRefresh` still await: the seat request, or for the map's
refresh button (`refreshAllAndReschedule`) both requests and then the one that is left.
A mutation is sent, applied, and answered, refused (also after its commit) or
lost; a lost one may still be applied later, on behalf of the buyer who sent it.
Bounds: one purchase is made in all, and one mutation at a time is late.

Two limits of what its properties say.  The answer to a new seat request comes from the
server's cache and may be older than the request: `CacheReadYourWrites` shows it,
`StalenessBounded` says for how long, and the page's next poll repairs it.
`LastReadFollowsMutation` is about the page's part, that no request from before the
mutation is the last.  And `SeatsPolled` allows a page without a seat request and a timer
while the refresh button's bookings request is in flight; if that one hangs, the seats are
not polled until it ends, is aborted, or something else refreshes them.

## Runs

| Run | Instance | Kind | Shows |
|---|---|---|---|
| `StorePurchase` | 2 requests, 2 seats, 2 buyers, all operations, 2 rows | safety | `RefundPerCancelledPurchase`, `RowsFollowLifecycle`, `ImplementsLedger`, `TypeOK` |
| `StoreKeys` | 2 requests, one key, 3 rows, time 0..3 | safety | `AnswerIsOwnBooking`, `KeysLeaveDeadBookingsOnly`, `NoFalseConflict`, `OneActivePerSeat` |
| `StoreProgress` | 2 requests, 2 buyers whose holds are about to run out, 4 rows | liveness too | `OneHeldPerBuyer`, `BuyerIndexIsBackstop`, `HoldsEndByTheirOwner`, `LosersHaveAWinner`, `EveryRequestAnswered`, `DeadHoldsAreSwept` |
| `Outbox` | 1 purchase, 1 malformed event, 2 workers, 1 crash, lease 1 | liveness too | `ProcessedMeansRefunded`, `RefundsAreReal`, `RefundIsFinal`, `EveryEventProcessed`, `TypeOK` |
| `CacheReads` | 2 readers, 2 writers, 2 writes | liveness too | `ReadsAreMonotonic`, `StalenessBounded`, `ReadersAnswered`, `TypeOK` |
| `Server` | 2 requests, pools of 1 and 2, 4 environments | liveness too | `AnsweredByDeadline`, `NoConnectionLeaked`, `ShutdownDrains`, `BackoffGrows`, `EveryRequestAnswered`, `SignalEndsProcess`, `TypeOK` |
| `HttpFront` | 2 requests, 2 writers, 2 limiter objects, all headers of up to two parts | safety | `EvictionIsInvisible`, `EntriesForgotten`, `Decodable`, `OnlyIfWanted`, `WritersAreClean`, `TypeOK` |
| `WebClient` | 2 buyers | liveness too | `LastReadFollowsMutation`, `SeatsPolled`, `KnownIsOwn`, `RefundFollowed` |

Bounds.  Two seats and two buyers of one match are the least that gives a swap,
a race for one seat and a foreign hold.  A row-lock
cycle needs two committed holds and two more in flight, hence four rows in
`StoreProgress`; it begins (`HoldsRunOutInit`) in a state that `Spec` reaches, with both
holds at their last instant, so that the deadlock, the expiry and the sweep all lie
within reach.  With `TTL = 1` a
clock of 0..2 passes before, at and after an expiry, and 0..3 also lets a key
outlive its booking and its retention.  `SweepBatch = 1` makes the batch limit
bite.  `MaxBookings` ends a behaviour when the ids are used up, so the store's
runs do not check for deadlock; that no request is stuck is
`EveryRequestAnswered`.  Requests, seats and buyers (and workers and purchases) are
interchangeable, and symmetry is used in safety runs only.

In `Server` two requests and a pool of one or two are the least for a request that holds
one connection and waits for another while a rival has it; the word sizes are scaled so
that a pool of 17 wraps to 1, a pool of 8 to a negative number, and an unclamped shift
overflows.  (With the code's 10ms and 64 bits an unclamped shift gives a number below 1 or
above the maximum, which is cut to it, so the clamp matters for other constants than today's.)
The grace period exceeds one of the two deadlines and equals the other.
`HttpFront` has two limiter objects, so that a request could hold an evicted one, and an
idle time just long enough for the bucket to refill.  `Server` and the store's runs do
not check for deadlock because their behaviours end (a process exits, ids run out).
Neither does `HttpFront`: the bound `MaxStall` and the finite writers may stop it.

Fairness.  In `BookingStore` a request whose statement can run again and again
runs it (strong fairness: PostgreSQL serves lock waiters first come, first
served), a cycle is found, and the worker sweeps at every tick of its loop.  No
request has to start, fail or hit its deadline.  `DeadHoldsAreSwept` assumes
that the row does not stay locked for ever.  In `RefundOutbox` workers loop, time
passes, and a poll, record or mark that is tried again and again succeeds at
some time (a database that fails for ever processes nothing); crashes are
bounded.  In `SeatCache` goroutines run, loads end by their deadline and time
passes; nobody has to read, write or give up.

In `BookingServer` goroutines run and time passes (strong fairness of `Tick`: it is
disabled at an instant only while some goroutine has yet to react).  PostgreSQL need not answer
anything, except that a health check, which has no deadline, gets its connection and
its answer; without that neither the request nor `pool.Close` need end.  In `WebClient`
timers fire, the worker refunds, and not every bookings request fails (strong fairness
of the answer); seats need never be served.

## Where the text and the code disagree

Each of these runs ends in a counterexample on purpose.

* `StoreLateConfirm` (`ConfirmsLiveHoldsOnly`): the root README says a late
  confirm cannot revive an expired hold.  `ConfirmHold` compares with `now()`,
  fixed when the statement starts; while it waits for a row that a replacing
  `placeHold` has locked and then rolls back, the hold expires, and it is
  confirmed.  `PromptSpec` restricts the run to behaviours in which time passes
  in such a statement only while it waits for the lock.
* `StoreFalseConflict` (`TakenSeatIsNotRefused`): `placeHold` falls through to
  `ErrSeatUnavailable` when its key turns out to lead to a booking that has died
  since, although its own `INSERT` has taken the seat.
* `OutboxLease` (`LeaseIsExclusive`): `ReleaseClaim` clears the claim of whoever
  has it now.  The refund stays right (`RefundIsFinal`); the gateway is called
  more often than the lease promises.
* `CacheReadYourWrites` (`ReadsOwnWrites`): a load that queried before a write
  delivers, or puts its map back, after the write was answered.

Smaller ones have no run.

* A hold that expires at exactly `now()` is dead for `ConfirmHold` and for reads (`>`) but
  is not reclaimed by `placeHold` (`<`); a microsecond later it is.
* The cache's TTL counts from `put`, so the bound on staleness is TTL plus one load, as
  `StalenessBounded` states it.
* `app.js:287` promises to keep checking a pending refund while the page is visible.
  The `visibilitychange` handler asks once and sets no timer, so if that request fails
  before anything was rendered the watch ends until the next one.  `gap` marks
  exactly this case, and `RefundFollowed` holds outside it.
* `confirmBooking` forgets the hold on any error status.  A 500 after the commit
  or a transient one leaves a purchase or a live hold the page no longer
  shows as a hold; the bookings list and the map show it.
* The comment on `recoverMiddleware` speaks of "a JSON 500 with a logged error" for every
  handler.  It logs nothing, and after the handler's header the status stays what it was.
* The limiter lets `GET` pass and counts `HEAD`, although it is described as a cap on
  mutating requests.

## Proofs

Each theorem holds for all values of the constants, from the named assumptions of its
module alone.

`BookingStoreProofs` (`StoreAssumption`):

* `TypeCorrect`: `TypeOK`.  The strengthening `ReqShape` says which kind of
  request a statement serves, and that a transaction has an inserted row
  exactly between its `INSERT` and its `COMMIT`.
* `NeverOversold` and `OneHoldPerBuyerMatch`: `OneActivePerSeat` and
  `OneHeldPerBuyer`.  Neither is inductive: a commit adds a row that was checked
  many steps earlier.  `IndexInv` adds `InsertedRowsFit` (an inserted,
  uncommitted row still fits the committed tables and all other inserted rows,
  once the rewrites of its own transaction are applied) and `WritesDisjoint` (two
  transactions never rewrite the same row, so no one else undoes what that
  depends on).
* `LockMakesIndexABackstop`: `BuyerIndexIsBackstop`.  `LockInv` adds that
  the advisory lock excludes (`AdvisoryExclusive`), that a transaction has
  written nothing before its statements (`WritesFollowStatements`) and that
  between the release of the previous hold and the `INSERT` the buyer has no hold
  left but on the target seat or waiting to be released
  (`PreviousHoldsTaken`): only a commit of the same buyer could add one, and
  that needs the lock.

Each invariant is preserved action by action (`NextTyped`, `NextIndexInv`,
`NextLockInv`); steps that only rewrite rows downwards share the lemma
`ShrinkIndexInv`.

`StoreRefundProofs`, on top of it: `OneRefundPerCancellation` and `LifecycleKept`.  A commit
applies what its transaction picked earlier, so the invariant says that
what was picked still stands: a row some transaction has rewritten is still held, or still confirmed
for a cancel (`WritesStand`), and a row is marked as a purchase once it has been
confirmed (`PurchasesMarked`).

`StoreLedgerProofs`, on top of both:

* `OnlyOwnersEndHolds`: `HoldsEndByTheirOwner`.  A row is cancelled or expired by a commit
  long after an `UPDATE` picked it, so `WritesReasoned` keeps the reason: what a
  transaction has picked or rewritten is another hold of its buyer, or a hold of its
  seat that was dead at its `now()` (which is never ahead of the clock).
* `StoreImplementsLedger`: `ImplementsLedger`, the refinement of `SeatLedger`.  There is one
  lemma per visible step (`CommitGrants`, `ConfirmSells`, `CancelVacates`, `SweepFrees`
  and so on); all other steps leave the active rows alone (`TableStepsOnly`).  The `CHOOSE`
  in `LedgerOf` is determined because of `OneActivePerSeat` (`EntryIsRow`).  The hard case is
  a commit: it grants the seat, frees the buyer's other hold and reclaims the
  dead one in a single step of the ledger, which needs `WritesReasoned` and
  `PreviousHoldsTaken`.
* `AnswersAreOwn`, `KeysKeepActiveBookings`, `RetriesMeetNoFalseConflict`:
  `AnswerIsOwnBooking`, `KeysLeaveDeadBookingsOnly`, `NoFalseConflict`.  `KeyInv` says that a transaction
  that deleted or inserted a key row is alone with that key (`KeysExclusive`), that the
  booking it takes the key from is on its own seat (`KeyOwned`), so its `INSERT` would
  have failed while that booking was active, and that an active booking placed under
  a key for the seat the key leads to is the one it leads to (`KeysLead`).
* `LosersLoseToWinners`: `Spec /\ []CommitsInTime => LosersHaveAWinner`.  The hypothesis is
  that no hold is committed after its own expiry: a transaction ends by
  `REQUEST_TIMEOUT` (2s unless configured) and a hold lasts `HOLD_TTL` (5 minutes).
  Without it the property is false, as its comment says.  `RivalsFresh` says
  that what can still refuse an `INSERT` is alive for it, or is about to be expired by it.

`RefundOutboxProofs`: `OutboxTyped`, `NoRefundForgotten`, `MoneyFollowsCancellation` and
`FirstRefundStands`.  The worker's progress is in its memory, so `OutboxInv` ties
`wpc` to the tables: what it has in hand is a visible event (`Handed`), and visible
events belong to committed cancellations (`Committed`).

`SeatCacheProofs`: `MonotonicReads`.  `CacheInv` orders the maps in play: an entry, a load
past its query and a result in an inbox are no older than what was handed out
before the reader that will get them began (`LoadsOrdered`, `FlightHasMap`).
`CacheTypeCorrect` is `TypeOK`, with the bounds on ages.  `StalenessIsBounded` rests on `MapsAge`: a
map that a load carries has been out of date for no longer than the load has run, one in
the cache for no longer than its age and one load, and no time passes between
delivery and answer.

`BookingServerProofs` (`ServerAssumption`, `EnvironmentAssumption`): `DeadlineKept`,
`ConnectionsReturned`, `ShutdownIsClean`.  The last rests on `GraceOutlasts`: while the
process drains, no open deadline is longer than what remains of the grace period.
`PoolIsBounded` is `TypeOK`, whose last conjunct bounds the connections in use by the pool.
`PoolInv` fixes how many connections a request has by its place, and that they are finitely
many, so `Acquire`, which asks the pool first, is the only step that lends one more; `Req` may
be infinite.  `BackoffNeverShrinks` is `BackoffGrows`, from `ShiftAssumption`: no shift up to
`MaxBackoffShift` leaves 64 bits (10ms << 20 does not), and 2^s doubles with s, an
arithmetic fact the provers have no rule for and TLC evaluates on the instance.

`HttpFrontProofs` (`LimiterAssumption`, `FrontAssumption`): `FrontImplementsLimiter` (every
step of the chain is a step of `LimiterSpec` or leaves it alone), from which
`EvictionInvisible` and `IdleEntriesForgotten` follow for the chain.  `LimiterInv` adds that
who has fetched a limiter has the current one (`FetchedIsCurrent`: an entry just
fetched is too young to evict) and that an idle bucket regains its tokens in
proportion to its age (`BucketRegains`).  `SweptInTime` bounds an entry's age by the time
since the last sweep.  `ResponsesDecodable` and `WritersClean` rest on `Phased`: whether a
response holds a writer at each place of the chain, that until its body is written the
header agrees with what the handler and the writer make of it (`Agrees`), and that then it
is readable, or mixed and visibly so (`Readable`).
`CodingsWanted` is `OnlyIfWanted`, for every header: `AcceptsWanted` compares `acceptsGzip`
with the header's meaning, and `Negotiated` carries it to the responses.  `FrontTypeCorrect` is `TypeOK`.

`WebClientProofs` (`WebAssumption`):

* `PageTyped`: this type invariant is proved and has no run.  `Waits` says that whoever
  awaits a request has one to wait for, and adds that a request being sent has a buyer.
* `PageKeepsPolling`: from `Waits` and `Polled`, somebody has set or will set the next timer.
* `LastReadFollows` (`ReadFollows`): after an acknowledged mutation a request from before it
  is followed by another one, and the last one was shown or failed.
* `ListIsOwn` (`KnownInv`): answers in flight are past states of their buyer.

Only model-checked: liveness (`EveryRequestAnswered` of the store and of the server,
`DeadHoldsAreSwept`, `EveryEventProcessed`, `ReadersAnswered`, `SignalEndsProcess`,
`RefundFollowed`), which needs fairness and `ENABLED` and is out of the prover's reach.
Every safety and action property that a passing run checks is stated by a theorem.

## Not modelled

* Logging and the load test: the first keeps no state, the second is a client.
* The table of errors and status codes, the JSON shapes, the columns and order of the
  read queries: stateless conversions no property here is about.
* Seed data, performance indexes, and the data step of migration 0008, whose
  atomicity is decided by the way `psql` is called.
* The page's markup, layout, selection and dialogs.
* Reads are snapshots.  That PostgreSQL, `net/http`, `pgxpool`, `singleflight` and
  `rate.Limiter` do what the code relies on is assumed, as described above.

## Plan

1. Proofs: safety facts that the liveness arguments rest on, for every instance: who can be
   waiting for whom in the store, and what keeps an outbox event visible.
2. Models: a composition of the store with the outbox and the cache of two
   instances, if TLC can still explore it.
