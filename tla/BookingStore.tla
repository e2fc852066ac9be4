----------------------------- MODULE BookingStore -----------------------------
(***************************************************************************)
(* The booking tables and the statements that internal/store runs on them: *)
(* placeHold, ConfirmHold, ReleaseHold, CancelBooking, SweepExpiredHolds   *)
(* and PruneIdempotencyKeys, together with the deadlock retry (withRetry)  *)
(* of internal/booking, which wraps the calls of all but ReleaseHold among *)
(* the first four.  Those on one row hold no lock while they wait for it,  *)
(* so only placeHold is ever aborted and run again.                        *)
(*                                                                         *)
(* A request is a goroutine r; pc[r] names the SQL statement it runs next, *)
(* one step per statement.  A transaction's writes stay in tx[r] until     *)
(* COMMIT applies them at once; while they are there the rows are locked.  *)
(* PostgreSQL is external and is modelled as the code relies on it: READ   *)
(* COMMITTED, now() fixed at BEGIN (or at the start of an autocommitted    *)
(* statement), an UPDATE that picks its rows from a snapshot, waits for    *)
(* their row locks and re-checks its WHERE clause, a unique index that     *)
(* waits for an unfinished rival and fails on a committed one, and a       *)
(* deadlock detector.                                                      *)
(***************************************************************************)
EXTENDS Integers, FiniteSets

CONSTANTS
  Req,            \* request goroutines
  Seat,           \* (match_id, seat_id) pairs of the seats table
  Match, MatchOf, \* matches, and the match of every seat
  Buyer,          \* buyer ids
  Key, NoKey,     \* idempotency keys, and the empty key
  Ops,            \* the operations requests may call
  TTL,            \* hold TTL (svc.holdTTL)
  StartTime,      \* start_time of every match
  Retention,      \* idempotencyKeyRetention
  SweepBatch,     \* sweepBatchSize and pruneBatchSize
  MaxRetries,     \* svc.maxRetries
  MaxTime,        \* bound on the clock
  MaxBookings     \* bound on the rows of the bookings table

ASSUME StoreAssumption ==
  /\ MatchOf \in [Seat -> Match]
  /\ NoKey \notin Key
  /\ Ops \subseteq {"hold", "confirm", "release", "cancel"}
  /\ TTL \in Nat \ {0}
  /\ StartTime \in [Match -> Nat]
  /\ Retention \in Nat
  /\ SweepBatch \in Nat \ {0}
  /\ MaxRetries \in Nat
  /\ MaxTime \in Nat
  /\ MaxBookings \in Nat

VARIABLES
  clock,     \* the PostgreSQL clock
  bookings,  \* committed rows of bookings, by id
  keys,      \* committed rows of idempotency_keys, by key
  refunds,   \* committed refunds rows (each with its outbox event), per booking
  pc,        \* the statement each request runs next
  req,       \* what each request asked for
  tx,        \* the open transaction of each request
  tries,     \* retries withRetry has used
  reply      \* the answer the last step gave its client, if it gave one

vars == <<clock, bookings, keys, refunds, pc, req, tx, tries, reply>>
tables == <<bookings, keys, refunds>>

(***************************************************************************)
(* Rows, requests and transactions.                                        *)
(***************************************************************************)
None == 0     \* SQL NULL, and Go's zero staleBookingID
Id == 1..MaxBookings
Status == {"held", "confirmed", "expired", "cancelled"}

\* confirmed is confirmed_at IS NOT NULL; key is a history field, the key the
\* hold was placed under.
Booking == [seat : Seat, buyer : Buyer, status : Status, expires : Nat,
            confirmed : BOOLEAN, key : Key \cup {NoKey}]
KeyRow == [booking : Id, created : Nat]

HoldReq == [op : {"hold"}, seat : Seat, buyer : Buyer, key : Key \cup {NoKey}]
RowReq == [op : {"confirm", "release", "cancel"}, id : Id, buyer : Buyer]
NoReq == [op |-> "none"]

\* now: the value now() has in the transaction; stale: staleBookingID; wait:
\* rows an UPDATE has picked and not locked yet; cancels, expires, new: the
\* uncommitted writes to bookings; clear, keyed: the uncommitted DELETE and
\* INSERT on idempotency_keys.
Transaction == [now : Nat, stale : Id \cup {None}, wait : SUBSET Id,
                cancels : SUBSET Id, expires : SUBSET Id,
                new : Id \cup {None}, clear : BOOLEAN, keyed : BOOLEAN]
NoTx == [now |-> 0, stale |-> None, wait |-> {}, cancels |-> {},
         expires |-> {}, new |-> None, clear |-> FALSE, keyed |-> FALSE]

Answers == {"held", "replay", "seatUnavailable", "keyReuse", "confirmed",
            "released", "cancelled", "holdExpired", "notFound", "error"}
NoReply == [kind |-> "none", id |-> None]

\* Statements that run under the advisory lock of placeHold.
LockedPc == {"clear", "release", "releaseRows", "expire", "expireRows",
             "insert", "insertKey"}
HoldPc == LockedPc \cup {"lookup", "begin", "lock", "relookup", "relookupKey"}

TypeOK ==
  /\ clock \in 0..MaxTime
  /\ DOMAIN bookings \subseteq Id
  /\ bookings \in [DOMAIN bookings -> Booking]
  /\ DOMAIN keys \subseteq Key
  /\ keys \in [DOMAIN keys -> KeyRow]
  /\ refunds \in [Id -> Nat]
  /\ pc \in [Req -> HoldPc \cup {"idle", "row", "commit"}]
  /\ req \in [Req -> HoldReq \cup RowReq \cup {NoReq}]
  /\ tx \in [Req -> Transaction]
  /\ tries \in [Req -> 0..MaxRetries]
  /\ reply \in [kind : Answers \cup {"none"}, id : Id \cup {None}]

Init ==
  /\ clock = 0
  /\ bookings = [i \in {} |-> {}]
  /\ keys = [k \in {} |-> {}]
  /\ refunds = [i \in Id |-> 0]
  /\ pc = [r \in Req |-> "idle"]
  /\ req = [r \in Req |-> NoReq]
  /\ tx = [r \in Req |-> NoTx]
  /\ tries = [r \in Req |-> 0]
  /\ reply = NoReply

(***************************************************************************)
(* Row conditions and locks.                                               *)
(***************************************************************************)
Held(i) == bookings[i].status = "held"
Active(i) == bookings[i].status \in {"held", "confirmed"}
Live(i) == \/ bookings[i].status = "confirmed"
           \/ Held(i) /\ bookings[i].expires > clock

Writes(r) == tx[r].cancels \cup tx[r].expires
RowLocked(i, r) == \E q \in Req \ {r} : i \in Writes(q)

SameBuyerMatch(a, b) == /\ a.buyer = b.buyer
                        /\ MatchOf[a.seat] = MatchOf[b.seat]

\* pg_advisory_xact_lock is held from its statement to the transaction's end.
HasBuyerLock(q) == \/ pc[q] \in LockedPc
                   \/ pc[q] = "commit" /\ req[q].op = "hold"
\* Mutant: the advisory lock is not taken.
LockNotTaken(r) == TRUE
BuyerLockFree(r) ==
  \A q \in Req \ {r} : HasBuyerLock(q) => ~SameBuyerMatch(req[q], req[r])

(***************************************************************************)
(* Ends of a request.  A transaction that does not commit is rolled back   *)
(* by forgetting tx[r]; an aborted one has released its locks already.     *)
(***************************************************************************)
Answer(r, kind, id) ==
  /\ pc' = [pc EXCEPT ![r] = "idle"]
  /\ req' = [req EXCEPT ![r] = NoReq]
  /\ tx' = [tx EXCEPT ![r] = NoTx]
  /\ tries' = [tries EXCEPT ![r] = 0]
  /\ reply' = [kind |-> kind, id |-> id]
  /\ UNCHANGED clock

\* A statement of r's transaction that only changes tx[r].
Goto(r, stmt, t) ==
  /\ pc' = [pc EXCEPT ![r] = stmt]
  /\ tx' = [tx EXCEPT ![r] = t]
  /\ reply' = NoReply
  /\ UNCHANGED <<clock, tables, req, tries>>

(***************************************************************************)
(* placeHold.                                                              *)
(***************************************************************************)
\* Every hold in flight may still need an id of its own.
BudgetLeft ==
  Cardinality(DOMAIN bookings)
    + Cardinality({q \in Req : pc[q] \in HoldPc \cup {"commit"}}) < MaxBookings

FirstStatement(k) == IF k = NoKey THEN "begin" ELSE "lookup"

PlaceHold(r) ==
  /\ pc[r] = "idle" /\ "hold" \in Ops /\ BudgetLeft
  /\ \E s \in Seat, b \in Buyer, k \in Key \cup {NoKey} :
       /\ req' = [req EXCEPT ![r] = [op |-> "hold", seat |-> s, buyer |-> b, key |-> k]]
       /\ pc' = [pc EXCEPT ![r] = FirstStatement(k)]
  /\ reply' = NoReply
  /\ UNCHANGED <<clock, tables, tx, tries>>

\* Mutant: the stored booking is not compared with the request.
IdemStateUnchecked(q) ==
  IF q.key \notin DOMAIN keys THEN "miss"
  ELSE IF Live(keys[q.key].booking) THEN "live" ELSE "dead"

\* lookupIdempotentHold: one autocommitted SELECT over committed rows.
IdemState(q) ==
  IF q.key \notin DOMAIN keys THEN "miss"
  ELSE LET i == keys[q.key].booking
       IN  IF bookings[i].seat # q.seat \/ bookings[i].buyer # q.buyer THEN "mismatch"
           ELSE IF Live(i) THEN "live" ELSE "dead"

Lookup(r) ==
  /\ pc[r] = "lookup"
  /\ LET state == IdemState(req[r]) IN
     \/ /\ state = "mismatch"
        /\ Answer(r, "keyReuse", None) /\ UNCHANGED tables
     \/ /\ state = "live"
        /\ Answer(r, "replay", keys[req[r].key].booking) /\ UNCHANGED tables
     \/ /\ state = "dead"
        /\ Goto(r, "begin", [NoTx EXCEPT !.stale = keys[req[r].key].booking])
     \/ /\ state = "miss"
        /\ Goto(r, "begin", NoTx)

Begin(r) ==
  /\ pc[r] = "begin"
  /\ Goto(r, "lock", [tx[r] EXCEPT !.now = clock])

AcquireLock(r) ==
  /\ pc[r] = "lock" /\ BuyerLockFree(r)
  /\ Goto(r, IF tx[r].stale = None THEN "release" ELSE "clear", tx[r])

\* Another transaction has an uncommitted DELETE or INSERT of the same key.  (A
\* DELETE would not wait for an INSERT; here it does, and deletes as little.)
KeyBusy(r) == \E q \in Req \ {r} : /\ tx[q].clear \/ tx[q].keyed
                                   /\ req[q].key = req[r].key

ClearStaleKey(r) ==
  /\ pc[r] = "clear" /\ ~KeyBusy(r)
  /\ LET k == req[r].key
     IN  Goto(r, "release", [tx[r] EXCEPT !.clear =
                   k \in DOMAIN keys /\ keys[k].booking = tx[r].stale])

\* Mutant: the UPDATE does not filter on buyer_id.
PreviousHoldsOfAnyone(r) ==
  {i \in DOMAIN bookings : /\ Held(i)
                           /\ MatchOf[bookings[i].seat] = MatchOf[req[r].seat]
                           /\ bookings[i].seat # req[r].seat}

\* UPDATE ... 'cancelled' on the buyer's other hold: the rows its snapshot
\* picks, and, once their locks are free, those that still qualify.
PreviousHolds(r) ==
  {i \in DOMAIN bookings : /\ Held(i)
                           /\ SameBuyerMatch(bookings[i], req[r])
                           /\ bookings[i].seat # req[r].seat}

ReleasePrevious(r) ==
  /\ pc[r] = "release"
  /\ Goto(r, IF PreviousHolds(r) = {} THEN "expire" ELSE "releaseRows",
          [tx[r] EXCEPT !.wait = PreviousHolds(r)])

ReleaseRows(r) ==
  /\ pc[r] = "releaseRows" /\ \A i \in tx[r].wait : ~RowLocked(i, r)
  /\ Goto(r, "expire", [tx[r] EXCEPT !.wait = {},
                                     !.cancels = {i \in tx[r].wait : Held(i)}])

\* Mutant: only the buyer's own dead hold is reclaimed.
DeadHoldsOfBuyer(r) ==
  {i \in DOMAIN bookings : /\ Held(i)
                           /\ bookings[i].seat = req[r].seat
                           /\ bookings[i].buyer = req[r].buyer
                           /\ bookings[i].expires < tx[r].now}

\* UPDATE ... 'expired' on a dead hold of the target seat, the same way.
DeadHolds(r) ==
  {i \in DOMAIN bookings : /\ Held(i)
                           /\ bookings[i].seat = req[r].seat
                           /\ bookings[i].expires < tx[r].now}

ExpireStale(r) ==
  /\ pc[r] = "expire"
  /\ Goto(r, IF DeadHolds(r) = {} THEN "insert" ELSE "expireRows",
          [tx[r] EXCEPT !.wait = DeadHolds(r)])

ExpireRows(r) ==
  /\ pc[r] = "expireRows" /\ \A i \in tx[r].wait : ~RowLocked(i, r)
  /\ Goto(r, "insert", [tx[r] EXCEPT !.wait = {},
                                     !.expires = {i \in tx[r].wait : Held(i)}])

\* Mutant: the index covers confirmed rows only.
SeatRivalsConfirmed(r) ==
  {i \in DOMAIN bookings \ Writes(r) : /\ bookings[i].status = "confirmed"
                                       /\ bookings[i].seat = req[r].seat}

\* Committed rows, not rewritten by r itself, that ux_bookings_active_seat and
\* ux_bookings_one_held_seat_per_buyer refuse the new row for.
SeatRivals(r) ==
  {i \in DOMAIN bookings \ Writes(r) : Active(i) /\ bookings[i].seat = req[r].seat}
BuyerRivals(r) ==
  {i \in DOMAIN bookings \ Writes(r) : Held(i) /\ SameBuyerMatch(bookings[i], req[r])}

\* Requests whose uncommitted row has the same index key.
PendingRivals(r) ==
  {q \in Req \ {r} : /\ tx[q].new # None
                     /\ \/ req[q].seat = req[r].seat
                        \/ SameBuyerMatch(req[q], req[r])}

FreeId == {i \in Id : i \notin DOMAIN bookings /\ \A q \in Req : tx[q].new # i}

InsertBooking(r) ==
  /\ pc[r] = "insert"
  /\ SeatRivals(r) \cup BuyerRivals(r) = {} /\ PendingRivals(r) = {}
  /\ \E i \in FreeId :
       /\ \A j \in FreeId : i <= j
       /\ Goto(r, IF req[r].key = NoKey THEN "commit" ELSE "insertKey",
               [tx[r] EXCEPT !.new = i])

\* Mutant: a unique violation is a 409 at once, without looking the key up.
InsertRefusedAtOnce(r) ==
  /\ pc[r] = "insert"
  /\ \E i \in SeatRivals(r) \cup BuyerRivals(r) : ~RowLocked(i, r)
  /\ Answer(r, "seatUnavailable", None) /\ UNCHANGED tables

\* A rival whose own fate is open makes the INSERT wait; any other fails it.
InsertRefused(r) ==
  /\ pc[r] = "insert"
  /\ \E i \in SeatRivals(r) \cup BuyerRivals(r) : ~RowLocked(i, r)
  /\ \/ req[r].key = NoKey /\ Answer(r, "seatUnavailable", None) /\ UNCHANGED tables
     \/ req[r].key # NoKey /\ Goto(r, "relookup", NoTx)

\* Mutant: the key row is upserted.
InsertKeyUpsert(r) ==
  /\ pc[r] = "insertKey" /\ ~KeyBusy(r)
  /\ Goto(r, "commit", [tx[r] EXCEPT !.keyed = TRUE])

InsertKey(r) ==
  /\ pc[r] = "insertKey" /\ ~KeyBusy(r)
  /\ \/ /\ req[r].key \notin DOMAIN keys \/ tx[r].clear
        /\ Goto(r, "commit", [tx[r] EXCEPT !.keyed = TRUE])
     \/ /\ req[r].key \in DOMAIN keys /\ ~tx[r].clear
        /\ Goto(r, "relookupKey", NoTx)

\* After a unique violation: replay the winner if the key leads to it.
Relookup(r) ==
  /\ pc[r] \in {"relookup", "relookupKey"}
  /\ UNCHANGED tables
  /\ LET state == IdemState(req[r]) IN
     \/ state = "mismatch" /\ Answer(r, "keyReuse", None)
     \/ state = "live" /\ Answer(r, "replay", keys[req[r].key].booking)
     \/ state \in {"dead", "miss"} /\ Answer(r, "seatUnavailable", None)

(***************************************************************************)
(* COMMIT of placeHold and of CancelBooking.  The connection may be lost   *)
(* after the server committed: the caller then sees an error.              *)
(***************************************************************************)
NewRow(r) == [seat |-> req[r].seat, buyer |-> req[r].buyer, status |-> "held",
              expires |-> tx[r].now + TTL, confirmed |-> FALSE, key |-> req[r].key]

\* Mutants: the buyer's previous hold is not released, or is given a status
\* the schema does not know.
RowAfterUnreleased(r, i) ==
  IF i = tx[r].new THEN NewRow(r)
  ELSE IF i \in tx[r].expires THEN [bookings[i] EXCEPT !.status = "expired"]
  ELSE bookings[i]
RowAfterReleased(r, i) ==
  IF i = tx[r].new THEN NewRow(r)
  ELSE IF i \in Writes(r) THEN [bookings[i] EXCEPT !.status = "released"]
  ELSE bookings[i]

RowAfter(r, i) ==
  IF i = tx[r].new THEN NewRow(r)
  ELSE IF i \in tx[r].cancels THEN [bookings[i] EXCEPT !.status = "cancelled"]
  ELSE IF i \in tx[r].expires THEN [bookings[i] EXCEPT !.status = "expired"]
  ELSE bookings[i]

CommitHold(r) ==
  /\ pc[r] = "commit" /\ req[r].op = "hold"
  /\ bookings' = [i \in DOMAIN bookings \cup {tx[r].new} |-> RowAfter(r, i)]
  /\ keys' = IF req[r].key # NoKey
             THEN [k \in DOMAIN keys \cup {req[r].key} |->
                     IF k = req[r].key
                     THEN [booking |-> tx[r].new, created |-> tx[r].now]
                     ELSE keys[k]]
             ELSE keys
  /\ UNCHANGED refunds
  /\ \/ Answer(r, "held", tx[r].new)
     \/ Answer(r, "error", None)

CommitCancel(r) ==
  /\ pc[r] = "commit" /\ req[r].op = "cancel"
  /\ bookings' = [i \in DOMAIN bookings |-> RowAfter(r, i)]
  /\ refunds' = [refunds EXCEPT ![req[r].id] = @ + 1]
  /\ UNCHANGED keys
  /\ \/ Answer(r, "cancelled", req[r].id)
     \/ Answer(r, "error", None)

(***************************************************************************)
(* ConfirmHold, ReleaseHold and CancelBooking: one compare-and-swap UPDATE *)
(* of one row, the first two autocommitted.                                *)
(***************************************************************************)
\* Mutant: the UPDATE does not compare the status.
RowQualifiesAnyStatus(i, q, now) ==
  i \in DOMAIN bookings /\ bookings[i].buyer = q.buyer

RowQualifies(i, q, now) ==
  /\ i \in DOMAIN bookings
  /\ bookings[i].buyer = q.buyer
  /\ \/ q.op = "confirm" /\ Held(i) /\ bookings[i].expires > now
     \/ q.op = "release" /\ Held(i)
     \/ /\ q.op = "cancel" /\ bookings[i].status = "confirmed"
        /\ now < StartTime[MatchOf[bookings[i].seat]]

NoRow(op) == IF op = "release" THEN "notFound" ELSE "holdExpired"

StartRowOp(r) ==
  /\ pc[r] = "idle"
  /\ \E op \in Ops \ {"hold"}, i \in DOMAIN bookings, b \in Buyer :
       /\ req' = [req EXCEPT ![r] = [op |-> op, id |-> i, buyer |-> b]]
       /\ tx' = [tx EXCEPT ![r] = [NoTx EXCEPT !.now = clock]]
       /\ pc' = [pc EXCEPT ![r] = "row"]
  /\ reply' = NoReply
  /\ UNCHANGED <<clock, tables, tries>>

\* The committed row does not qualify: zero rows affected.
RowMissed(r) ==
  /\ pc[r] = "row" /\ ~RowQualifies(req[r].id, req[r], tx[r].now)
  /\ Answer(r, NoRow(req[r].op), None) /\ UNCHANGED tables

ConfirmHold(r) ==
  /\ pc[r] = "row" /\ req[r].op = "confirm"
  /\ RowQualifies(req[r].id, req[r], tx[r].now) /\ ~RowLocked(req[r].id, r)
  /\ bookings' = [bookings EXCEPT ![req[r].id] =
                    [@ EXCEPT !.status = "confirmed", !.confirmed = TRUE, !.expires = None]]
  /\ UNCHANGED <<keys, refunds>>
  /\ Answer(r, "confirmed", req[r].id) \/ Answer(r, "error", None)

ReleaseHold(r) ==
  /\ pc[r] = "row" /\ req[r].op = "release"
  /\ RowQualifies(req[r].id, req[r], tx[r].now) /\ ~RowLocked(req[r].id, r)
  /\ bookings' = [bookings EXCEPT ![req[r].id].status = "cancelled"]
  /\ UNCHANGED <<keys, refunds>>
  /\ Answer(r, "released", req[r].id) \/ Answer(r, "error", None)

CancelRow(r) ==
  /\ pc[r] = "row" /\ req[r].op = "cancel"
  /\ RowQualifies(req[r].id, req[r], tx[r].now) /\ ~RowLocked(req[r].id, r)
  /\ Goto(r, "commit", [tx[r] EXCEPT !.cancels = {req[r].id}])

(***************************************************************************)
(* Failures: the request deadline (or a lost connection, or a crash of the *)
(* server process) rolls the transaction back; the deadlock detector       *)
(* aborts a member of a cycle, and withRetry starts placeHold again.       *)
(***************************************************************************)
Fail(r) ==
  /\ pc[r] \in HoldPc \cup {"row", "commit"}
  /\ Answer(r, "error", None) /\ UNCHANGED tables

WaitsFor(r, q) ==
  /\ q # r
  /\ \/ pc[r] = "lock" /\ HasBuyerLock(q) /\ SameBuyerMatch(req[q], req[r])
     \/ pc[r] \in {"releaseRows", "expireRows"} /\ tx[r].wait \cap Writes(q) # {}
     \/ /\ pc[r] = "insert"
        /\ \/ (SeatRivals(r) \cup BuyerRivals(r)) \cap Writes(q) # {}
           \/ q \in PendingRivals(r)
     \/ /\ pc[r] \in {"clear", "insertKey"}
        /\ tx[q].clear \/ tx[q].keyed
        /\ req[q].key = req[r].key

InCycle(r) ==
  \E n \in 2..Cardinality(Req) : \E c \in [1..n -> Req] :
    c[1] = r /\ \A j \in 1..n : WaitsFor(c[j], c[(j % n) + 1])

\* Mutant: the retry has no limit.
DeadlockRetryForever(r) ==
  /\ InCycle(r)
  /\ pc' = [pc EXCEPT ![r] = FirstStatement(req[r].key)]
  /\ tx' = [tx EXCEPT ![r] = NoTx]
  /\ reply' = NoReply
  /\ UNCHANGED <<clock, tables, req, tries>>

DeadlockAbort(r) ==
  /\ InCycle(r)
  /\ \/ /\ tries[r] < MaxRetries
        /\ tries' = [tries EXCEPT ![r] = @ + 1]
        /\ pc' = [pc EXCEPT ![r] = FirstStatement(req[r].key)]
        /\ tx' = [tx EXCEPT ![r] = NoTx]
        /\ reply' = NoReply
        /\ UNCHANGED <<clock, tables, req>>
     \/ /\ tries[r] = MaxRetries
        /\ Answer(r, "error", None) /\ UNCHANGED tables

(***************************************************************************)
(* The worker's maintenance statements: a bounded batch, oldest first, of  *)
(* rows nobody has locked.                                                 *)
(***************************************************************************)
\* Mutant: the limit is exclusive.
SmallBatch(batch, pool, at) ==
  /\ batch \in SUBSET pool /\ batch # {}
  /\ Cardinality(batch) < SweepBatch

OldestBatch(batch, pool, at) ==
  /\ batch \in SUBSET pool /\ batch # {}
  /\ Cardinality(batch) <= SweepBatch
  /\ Cardinality(batch) < SweepBatch => batch = pool
  /\ \A i \in batch, j \in pool \ batch : at[i] <= at[j]

SweepExpiredHolds ==
  \E batch \in SUBSET DOMAIN bookings :
    /\ OldestBatch(batch,
         {i \in DOMAIN bookings : /\ Held(i) /\ bookings[i].expires < clock
                                  /\ \A q \in Req : i \notin Writes(q)},
         [i \in DOMAIN bookings |-> bookings[i].expires])
    /\ bookings' = [i \in DOMAIN bookings |->
                      IF i \in batch THEN [bookings[i] EXCEPT !.status = "expired"]
                      ELSE bookings[i]]
    /\ reply' = NoReply
    /\ UNCHANGED <<clock, keys, refunds, pc, req, tx, tries>>

PruneIdempotencyKeys ==
  \E batch \in SUBSET DOMAIN keys :
    /\ OldestBatch(batch,
         {k \in DOMAIN keys : /\ keys[k].created < clock - Retention
                              /\ \A q \in Req : tx[q].clear => req[q].key # k},
         [k \in DOMAIN keys |-> keys[k].created])
    /\ keys' = [k \in DOMAIN keys \ batch |-> keys[k]]
    /\ reply' = NoReply
    /\ UNCHANGED <<clock, bookings, refunds, pc, req, tx, tries>>

Tick ==
  /\ clock < MaxTime
  /\ clock' = clock + 1
  /\ reply' = NoReply
  /\ UNCHANGED <<tables, pc, req, tx, tries>>

-----------------------------------------------------------------------------
\* What a request does by itself once it has been started.
Statement(r) ==
  \/ Lookup(r) \/ Begin(r) \/ AcquireLock(r) \/ ClearStaleKey(r)
  \/ ReleasePrevious(r) \/ ReleaseRows(r) \/ ExpireStale(r) \/ ExpireRows(r)
  \/ InsertBooking(r) \/ InsertRefused(r) \/ InsertKey(r) \/ Relookup(r)
  \/ CommitHold(r) \/ CommitCancel(r)
  \/ RowMissed(r) \/ ConfirmHold(r) \/ ReleaseHold(r) \/ CancelRow(r)

Next ==
  \/ \E r \in Req : PlaceHold(r) \/ StartRowOp(r) \/ Statement(r)
                    \/ Fail(r) \/ DeadlockAbort(r)
  \/ SweepExpiredHolds \/ PruneIdempotencyKeys \/ Tick

Spec == Init /\ [][Next]_vars

\* PostgreSQL queues lock waiters first come first served and its deadlock
\* detector always fires on a cycle; the worker sweeps on every poll tick.
Fairness ==
  /\ \A r \in Req : SF_vars(Statement(r)) /\ WF_vars(DeadlockAbort(r))
  /\ WF_vars(SweepExpiredHolds)

FairSpec == Spec /\ Fairness

-----------------------------------------------------------------------------
\* No seat is sold or held twice: ux_bookings_active_seat keeps at most one
\* held or confirmed row per seat through every interleaving of placeHold's
\* statements, commits, rollbacks, confirms and sweeps.
OneActivePerSeat ==
  \A i, j \in DOMAIN bookings :
    Active(i) /\ Active(j) /\ bookings[i].seat = bookings[j].seat => i = j

\* A buyer has at most one held row per match, whatever holds the buyer's tabs
\* place and replace at the same time.
OneHeldPerBuyer ==
  \A i, j \in DOMAIN bookings :
    Held(i) /\ Held(j) /\ SameBuyerMatch(bookings[i], bookings[j]) => i = j

\* placeHold's advisory lock does its job without the buyer index: when the
\* INSERT runs, the buyer has no other hold in this match, committed or
\* pending, except one on the very seat the INSERT is refused for anyway.
BuyerIndexIsBackstop ==
  \A r \in Req : pc[r] = "insert" =>
    /\ \A i \in BuyerRivals(r) : bookings[i].seat = req[r].seat
    /\ \A q \in Req \ {r} : tx[q].new # None => ~SameBuyerMatch(req[q], req[r])

\* A client is only ever given the booking it asked for: a "held" or "replay"
\* answer of placeHold names a row of the request's own seat and buyer.
AnswerIsOwnBooking ==
  [][\A r \in Req :
       pc[r] # "idle" /\ pc'[r] = "idle" /\ reply'.kind \in {"held", "replay"} =>
         /\ reply'.id \in DOMAIN bookings'
         /\ bookings'[reply'.id].seat = req[r].seat
         /\ bookings'[reply'.id].buyer = req[r].buyer]_vars

\* A key never loses an active booking: placeHold re-points a key only in a
\* commit after which the booking it led to is expired or cancelled, and a key
\* disappears only once it is older than the retention.
KeysLeaveDeadBookingsOnly ==
  [][\A k \in DOMAIN keys :
       LET i == keys[k].booking
       IN  IF k \in DOMAIN keys'
           THEN keys'[k] = keys[k] \/ bookings'[i].status \in {"expired", "cancelled"}
           ELSE keys[k].created + Retention < clock]_vars

\* A retry that races its own original is not told a false 409: while the key
\* is retained, no keyed request is answered seatUnavailable when a live
\* booking was placed under its own key, for its own seat and buyer.
NoFalseConflict ==
  [][\A r \in Req :
       /\ pc[r] # "idle" /\ pc'[r] = "idle" /\ reply'.kind = "seatUnavailable"
       /\ req[r].key \in DOMAIN keys
       => \A i \in DOMAIN bookings :
            Live(i) /\ bookings[i].seat = req[r].seat /\ bookings[i].buyer = req[r].buyer
              => bookings[i].key # req[r].key]_vars

\* A refund is owed exactly for a purchase that was cancelled, and once: a
\* second concurrent CancelBooking of the same row finds it cancelled already,
\* and a hold that is released or replaced is never refunded.
RefundPerCancelledPurchase ==
  \A i \in Id :
    refunds[i] = IF /\ i \in DOMAIN bookings
                    /\ bookings[i].status = "cancelled" /\ bookings[i].confirmed
                 THEN 1 ELSE 0

\* expired and cancelled are final, a purchase is only ever cancelled, and a
\* row keeps its seat and buyer.
RowsFollowLifecycle ==
  [][\A i \in DOMAIN bookings :
       /\ i \in DOMAIN bookings'
       /\ bookings'[i].seat = bookings[i].seat /\ bookings'[i].buyer = bookings[i].buyer
       /\ bookings[i].status = "confirmed" => bookings'[i].status \in {"confirmed", "cancelled"}
       /\ bookings[i].status \in {"expired", "cancelled"} => bookings'[i] = bookings[i]]_vars

\* Nobody takes a hold from its buyer before it is dead: a held row becomes
\* cancelled only by the buyer's own ReleaseHold, or in the same commit that
\* gives this buyer a new hold in the match; it becomes expired only once the
\* clock has passed its expiry.
HoldsEndByTheirOwner ==
  [][\A i \in DOMAIN bookings :
       /\ Held(i) /\ bookings'[i].status = "cancelled" =>
            \/ \E r \in Req : /\ pc[r] = "row" /\ req[r].op = "release"
                              /\ req[r].id = i /\ req[r].buyer = bookings[i].buyer
            \/ \E j \in DOMAIN bookings' \ DOMAIN bookings :
                 /\ bookings'[j].status = "held"
                 /\ SameBuyerMatch(bookings'[j], bookings[i])
                 /\ bookings'[j].seat # bookings[i].seat
       /\ Held(i) /\ bookings'[i].status = "expired" => bookings[i].expires < clock]_vars

\* A loser has a winner: a keyless placeHold is refused only for a row on its
\* seat, or of its buyer, that is sold or had not run out when the request's
\* transaction began.  Whoever races for a dead hold, one of them gets the seat
\* (cmd/loadtest, scenario B).  A TTL longer than a transaction is needed: a
\* hold committed after its own expiry would refuse others too.
LosersHaveAWinner ==
  [][\A r \in Req :
       /\ pc[r] = "insert" /\ pc'[r] = "idle" /\ reply'.kind = "seatUnavailable"
       => \E i \in SeatRivals(r) \cup BuyerRivals(r) :
            bookings[i].status = "confirmed" \/ bookings[i].expires >= tx[r].now]_vars

\* Every request is answered, also when it waits for other transactions or is
\* part of a deadlock: lock waits end and cycles are broken.
EveryRequestAnswered ==
  \A r \in Req : pc[r] # "idle" ~> pc[r] = "idle"

\* The sweeper reaches every abandoned hold: a row whose TTL has passed does
\* not stay 'held' for ever, unless placeHold transactions that never commit
\* keep locking it, and SKIP LOCKED keeps passing it over.
DeadHoldsAreSwept ==
  \A i \in Id :
    <>[](\A q \in Req : i \notin Writes(q)) =>
      ((i \in DOMAIN bookings /\ Held(i) /\ bookings[i].expires < clock)
         ~> (i \in DOMAIN bookings /\ ~Held(i)))

-----------------------------------------------------------------------------
(***************************************************************************)
(* What the repository's text says and the store does not keep.            *)
(***************************************************************************)
\* README, Confirm: a confirmation succeeds only if, at update time, the hold's
\* expiry is later than the PostgreSQL clock.  ConfirmHold compares it with
\* now(), which stands still while the UPDATE waits for the row.
ConfirmsLiveHoldsOnly ==
  [][\A i \in DOMAIN bookings :
       Held(i) /\ bookings'[i].status = "confirmed" => bookings[i].expires > clock]_vars

\* PlaceHoldWithKey: a key whose booking has since died lets the retry proceed
\* as a fresh attempt.  A request whose INSERT has taken the seat, and whose
\* key turns out to lead to a dead booking, is answered seatUnavailable.
TakenSeatIsNotRefused ==
  [][\A r \in Req :
       pc[r] = "relookupKey" /\ pc'[r] = "idle" => reply'.kind # "seatUnavailable"]_vars
=============================================================================
