--------------------------- MODULE StoreLedgerProofs ---------------------------
(***************************************************************************)
(* What the store's clients may rely on, for every instance: a hold ends   *)
(* by its owner or by time, keys and answers lead to the right booking,    *)
(* and the whole store implements the box office of SeatLedger.  The       *)
(* argument is about why a transaction has locked a row: a reason that was *)
(* good when its UPDATE ran is still good when it commits.                 *)
(***************************************************************************)
EXTENDS StoreRefundProofs, StoreRefinement

\* Why placeHold cancels a row, and why it expires one.
Replaced(r, i) == /\ SameBuyerMatch(bookings[i], req[r])
                  /\ bookings[i].seat # req[r].seat
Overdue(r, i) == /\ bookings[i].seat = req[r].seat
                 /\ Held(i) => bookings[i].expires < tx[r].now

\* What a transaction of r has picked and rewritten, it has for its reason.
Reasoned(r) ==
  /\ tx[r].now <= clock
  /\ pc[r] = "releaseRows" => \A i \in tx[r].wait : Replaced(r, i)
  /\ pc[r] = "expireRows" => \A i \in tx[r].wait : Overdue(r, i)
  /\ ~Cancelling(r) => /\ \A i \in tx[r].cancels : Replaced(r, i)
                       /\ \A i \in tx[r].expires : Overdue(r, i)

WritesReasoned == \A r \in Req : Reasoned(r)

StoreInv == Typed /\ IndexInv /\ LockInv /\ WritesStand

\* A request that takes no step keeps its reasons: rows keep their seat and
\* buyer, and a row that is still held keeps its expiry.
LEMMA OthersReasoned ==
  ASSUME StoreInv, RowsMove, NEW q \in Req, Reasoned(q), clock' \in Nat, clock <= clock',
         tx'[q] = tx[q], req'[q] = req[q], pc'[q] = pc[q]
  PROVE  Reasoned(q)'
<1>1. OwnWrites(q) /\ tx[q].now \in Nat /\ clock \in Nat
  BY StoreAssumption DEF StoreInv, WritesStand, Typed, TypeOK, Transaction
<1>2. \A i \in tx[q].wait \cup tx[q].cancels \cup tx[q].expires : i \in DOMAIN bookings
  BY <1>1 DEF OwnWrites, Writes, Cancelling
<1>3. \A i \in DOMAIN bookings :
        /\ bookings'[i].seat = bookings[i].seat /\ bookings'[i].buyer = bookings[i].buyer
        /\ Held(i)' => bookings'[i] = bookings[i]
  BY DEF RowsMove, RowMoves, Held
<1>4. \A i \in DOMAIN bookings : /\ Replaced(q, i) => Replaced(q, i)'
                                 /\ Overdue(q, i) => Overdue(q, i)'
  BY <1>3 DEF Replaced, Overdue, SameBuyerMatch, Held
<1>5. Cancelling(q)' <=> Cancelling(q)
  BY DEF Cancelling
<1> QED BY <1>1, <1>2, <1>4, <1>5 DEF Reasoned

\* A request that has written nothing needs no reasons.
LEMMA NothingReasoned ==
  ASSUME NEW r \in Req, tx'[r].now <= clock', tx'[r].wait = {},
         tx'[r].cancels = {}, tx'[r].expires = {}
  PROVE  Reasoned(r)'
  BY DEF Reasoned

\* Statements of placeHold give a reason for every row they pick or lock.
LEMMA PlaceReasoned ==
  ASSUME StoreInv, NEW r \in Req, Reasoned(r),
         \/ Lookup(r) \/ Begin(r) \/ AcquireLock(r) \/ ClearStaleKey(r)
         \/ ReleasePrevious(r) \/ ReleaseRows(r) \/ ExpireStale(r) \/ ExpireRows(r)
         \/ InsertBooking(r) \/ InsertRefused(r) \/ InsertKey(r) \/ Relookup(r)
  PROVE  Reasoned(r)'
<1>0. /\ tx[r] \in Transaction /\ tx[r].now \in Nat /\ clock \in Nat /\ req[r].op = "hold"
      /\ WritesFollowStatements /\ ~Cancelling(r)
  BY ShapeOps, StoreAssumption
  DEF StoreInv, LockInv, Typed, TypeOK, ReqShape, Transaction, Cancelling, HoldPc, LockedPc,
     Lookup, Begin, AcquireLock, ClearStaleKey, ReleasePrevious, ReleaseRows, ExpireStale,
     ExpireRows, InsertBooking, InsertRefused, InsertKey, Relookup
<1>1. NoTx.now = 0 /\ NoTx.wait = {} /\ NoTx.cancels = {} /\ NoTx.expires = {}
  BY DEF NoTx
<1>2. ASSUME tx'[r] = NoTx, clock' = clock PROVE Reasoned(r)'
  BY <1>0, <1>1, <1>2, NothingReasoned
<1>3. ASSUME NEW kind, NEW id, Answer(r, kind, id) PROVE Reasoned(r)'
  BY <1>2, <1>3 DEF Answer, StoreInv, Typed, TypeOK
<1>4. ASSUME NEW stmt, NEW t, Goto(r, stmt, t)
      PROVE  /\ tx'[r] = t /\ pc'[r] = stmt /\ UNCHANGED <<clock, bookings, req>>
  BY <1>4 DEF Goto, tables, StoreInv, Typed, TypeOK
<1>5. ASSUME NEW stmt, Goto(r, stmt, NoTx) PROVE Reasoned(r)'
  BY <1>2, <1>4, <1>5
<1>6. ASSUME NEW stmt, NEW t, Goto(r, stmt, t), t.now = tx[r].now,
             stmt = "releaseRows" => \A i \in t.wait : Replaced(r, i),
             stmt = "expireRows" => \A i \in t.wait : Overdue(r, i),
             \A i \in t.cancels : i \in tx[r].cancels \/ Replaced(r, i),
             \A i \in t.expires : i \in tx[r].expires \/ Overdue(r, i)
      PROVE  Reasoned(r)'
  <2>1. tx'[r] = t /\ pc'[r] = stmt /\ UNCHANGED <<clock, bookings, req>>
    BY <1>4, <1>6
  <2>2. \A i : (Replaced(r, i) => Replaced(r, i)') /\ (Overdue(r, i) => Overdue(r, i)')
    BY <1>6, <2>1 DEF Replaced, Overdue, SameBuyerMatch, Held
  <2> QED BY <1>0, <1>6, <2>1, <2>2 DEF Reasoned
<1>7. CASE Lookup(r)
  <2>1. CASE Goto(r, "begin", [NoTx EXCEPT !.stale = keys[req[r].key].booking])
    <3> DEFINE t == [NoTx EXCEPT !.stale = keys[req[r].key].booking]
    <3>1. t.now = 0 /\ t.wait = {} /\ t.cancels = {} /\ t.expires = {} BY DEF NoTx
    <3> HIDE DEF t
    <3>2. tx'[r] = t /\ clock' = clock BY <1>4, <2>1 DEF t
    <3> QED BY <1>0, <3>1, <3>2, NothingReasoned
  <2> QED BY <1>3, <1>5, <1>7, <2>1 DEF Lookup
<1>8. CASE Begin(r)
  <2> DEFINE t == [tx[r] EXCEPT !.now = clock]
  <2>1. /\ t.now = clock /\ t.wait = tx[r].wait /\ t.cancels = tx[r].cancels
        /\ t.expires = tx[r].expires
    BY <1>0 DEF Transaction
  <2>2. t.cancels = {} /\ t.expires = {}
    BY <1>0, <1>8, <2>1 DEF Begin, WritesFollowStatements, NoWritesPc
  <2> HIDE DEF t
  <2>3. tx'[r] = t /\ pc'[r] = "lock" /\ clock' = clock BY <1>4, <1>8 DEF Begin, t
  <2> QED BY <1>0, <2>1, <2>2, <2>3 DEF Reasoned
<1>9. CASE AcquireLock(r)
  <2>1. PICK stmt \in {"release", "clear"} : Goto(r, stmt, tx[r])
    BY <1>9 DEF AcquireLock
  <2> QED BY <1>6, <2>1
<1>10. CASE ClearStaleKey(r)
  <2>1. PICK t : /\ Goto(r, "release", t) /\ t.now = tx[r].now
                 /\ t.cancels = tx[r].cancels /\ t.expires = tx[r].expires
    BY <1>0, <1>10 DEF ClearStaleKey, Transaction
  <2> QED BY <1>6, <2>1
<1>11. CASE ReleasePrevious(r)
  <2>1. PICK stmt, t : /\ Goto(r, stmt, t) /\ stmt \in {"expire", "releaseRows"}
                       /\ t.now = tx[r].now /\ t.wait = PreviousHolds(r)
                       /\ t.cancels = tx[r].cancels /\ t.expires = tx[r].expires
    BY <1>0, <1>11 DEF ReleasePrevious, Transaction
  <2>2. \A i \in PreviousHolds(r) : Replaced(r, i)
    BY DEF PreviousHolds, Replaced
  <2> QED BY <1>6, <2>1, <2>2
<1>12. CASE ReleaseRows(r)
  <2> DEFINE t == [tx[r] EXCEPT !.wait = {}, !.cancels = {i \in tx[r].wait : Held(i)}]
  <2>1. /\ t.wait = {} /\ t.cancels = {i \in tx[r].wait : Held(i)} /\ t.expires = tx[r].expires
        /\ t.now = tx[r].now
    BY <1>0 DEF Transaction
  <2> HIDE DEF t
  <2>2. Goto(r, "expire", t) BY <1>12 DEF ReleaseRows, t
  <2>3. \A i \in tx[r].wait : Replaced(r, i) BY <1>12 DEF ReleaseRows, Reasoned
  <2> QED BY <1>6, <2>1, <2>2, <2>3
<1>13. CASE ExpireStale(r)
  <2>1. PICK stmt, t : /\ Goto(r, stmt, t) /\ stmt \in {"insert", "expireRows"}
                       /\ t.now = tx[r].now /\ t.wait = DeadHolds(r)
                       /\ t.cancels = tx[r].cancels /\ t.expires = tx[r].expires
    BY <1>0, <1>13 DEF ExpireStale, Transaction
  <2>2. \A i \in DeadHolds(r) : Overdue(r, i)
    BY DEF DeadHolds, Overdue
  <2> QED BY <1>6, <2>1, <2>2
<1>14. CASE ExpireRows(r)
  <2> DEFINE t == [tx[r] EXCEPT !.wait = {}, !.expires = {i \in tx[r].wait : Held(i)}]
  <2>1. /\ t.wait = {} /\ t.expires = {i \in tx[r].wait : Held(i)} /\ t.cancels = tx[r].cancels
        /\ t.now = tx[r].now
    BY <1>0 DEF Transaction
  <2> HIDE DEF t
  <2>2. Goto(r, "insert", t) BY <1>14 DEF ExpireRows, t
  <2>3. \A i \in tx[r].wait : Overdue(r, i) BY <1>14 DEF ExpireRows, Reasoned
  <2> QED BY <1>6, <2>1, <2>2, <2>3
<1>15. CASE InsertBooking(r)
  <2>1. PICK i, stmt : /\ stmt \in {"commit", "insertKey"}
                       /\ Goto(r, stmt, [tx[r] EXCEPT !.new = i])
    BY <1>15 DEF InsertBooking
  <2> DEFINE t == [tx[r] EXCEPT !.new = i]
  <2>2. t.now = tx[r].now /\ t.cancels = tx[r].cancels /\ t.expires = tx[r].expires
    BY <1>0 DEF Transaction
  <2> HIDE DEF t
  <2>3. Goto(r, stmt, t) BY <2>1 DEF t
  <2> QED BY <1>6, <2>1, <2>2, <2>3
<1>16. CASE InsertRefused(r) \/ Relookup(r)
  BY <1>3, <1>5, <1>16 DEF InsertRefused, Relookup
<1>17. CASE InsertKey(r)
  <2>1. CASE Goto(r, "commit", [tx[r] EXCEPT !.keyed = TRUE])
    <3>1. PICK t : /\ Goto(r, "commit", t) /\ t.now = tx[r].now
                   /\ t.cancels = tx[r].cancels /\ t.expires = tx[r].expires
      BY <1>0, <2>1 DEF Transaction
    <3> QED BY <1>6, <3>1
  <2> QED BY <1>5, <1>17, <2>1 DEF InsertKey
<1> QED BY <1>7, <1>8, <1>9, <1>10, <1>11, <1>12, <1>13, <1>14, <1>15, <1>16, <1>17

\* Every step leaves every transaction with reasons for what it has locked.
LEMMA NextReasoned == StoreInv /\ WritesReasoned /\ [Next]_vars => WritesReasoned'
<1> SUFFICES ASSUME StoreInv, WritesReasoned, [Next]_vars PROVE WritesReasoned'
  OBVIOUS
<1>0. RowsMove /\ clock \in Nat /\ NoTx.now = 0
  BY NextMoves, StoreAssumption DEF StoreInv, Typed, TypeOK, NoTx
<1>1. ASSUME NEW r \in Req, Reasoned(r)', clock' = clock,
             \A q \in Req \ {r} : tx'[q] = tx[q] /\ req'[q] = req[q] /\ pc'[q] = pc[q]
      PROVE  WritesReasoned'
  BY <1>0, <1>1, OthersReasoned DEF WritesReasoned
<1>2. ASSUME NEW r \in Req, clock' = clock, tx'[r] = NoTx,
             \A q \in Req \ {r} : tx'[q] = tx[q] /\ req'[q] = req[q] /\ pc'[q] = pc[q]
      PROVE  WritesReasoned'
  <2>1. NoTx.wait = {} /\ NoTx.cancels = {} /\ NoTx.expires = {} BY DEF NoTx
  <2> QED BY <1>0, <1>1, <1>2, <2>1, NothingReasoned
<1>3. ASSUME NEW r \in Req, NEW kind, NEW id, Answer(r, kind, id) PROVE WritesReasoned'
  BY <1>2, <1>3 DEF Answer, StoreInv, Typed, TypeOK
<1>4. ASSUME NEW r \in Req,
             \/ Lookup(r) \/ Begin(r) \/ AcquireLock(r) \/ ClearStaleKey(r)
             \/ ReleasePrevious(r) \/ ReleaseRows(r) \/ ExpireStale(r) \/ ExpireRows(r)
             \/ InsertBooking(r) \/ InsertRefused(r) \/ InsertKey(r) \/ Relookup(r)
      PROVE  WritesReasoned'
  <2>1. Reasoned(r)' BY <1>4, PlaceReasoned DEF WritesReasoned
  <2>2. /\ clock' = clock
        /\ \A q \in Req \ {r} : tx'[q] = tx[q] /\ req'[q] = req[q] /\ pc'[q] = pc[q]
    BY <1>4 DEF Lookup, Begin, AcquireLock, ClearStaleKey, ReleasePrevious, ReleaseRows,
       ExpireStale, ExpireRows, InsertBooking, InsertRefused, InsertKey, Relookup, Goto, Answer,
       StoreInv, Typed, TypeOK
  <2> QED BY <1>1, <2>1, <2>2
<1>5. ASSUME NEW r \in Req, CancelRow(r) PROVE WritesReasoned'
  <2>1. /\ clock' = clock /\ pc'[r] = "commit" /\ req'[r].op = "cancel"
        /\ tx'[r].now = tx[r].now
        /\ \A q \in Req \ {r} : tx'[q] = tx[q] /\ req'[q] = req[q] /\ pc'[q] = pc[q]
    BY <1>5 DEF CancelRow, Goto, StoreInv, Typed, TypeOK, Transaction
  <2>2. Reasoned(r)' BY <2>1 DEF WritesReasoned, Reasoned, Cancelling
  <2> QED BY <1>1, <2>1, <2>2
<1>6. ASSUME NEW r \in Req, Statement(r) PROVE WritesReasoned'
  BY <1>3, <1>4, <1>5, <1>6
  DEF Statement, CommitHold, CommitCancel, RowMissed, ConfirmHold, ReleaseHold
<1>7. ASSUME NEW r \in Req, PlaceHold(r) PROVE WritesReasoned'
  <2>1. /\ clock' = clock /\ tx' = tx /\ pc[r] = "idle" /\ pc'[r] \in {"begin", "lookup"}
        /\ \A q \in Req \ {r} : req'[q] = req[q] /\ pc'[q] = pc[q]
    BY <1>7 DEF PlaceHold, FirstStatement, StoreInv, Typed, TypeOK
  <2>2. tx[r].cancels = {} /\ tx[r].expires = {}
    BY <2>1 DEF StoreInv, WritesStand, OwnWrites
  <2>3. Reasoned(r)' BY <2>1, <2>2 DEF WritesReasoned, Reasoned
  <2> QED BY <1>1, <2>1, <2>3
<1>8. ASSUME NEW r \in Req, StartRowOp(r) PROVE WritesReasoned'
  <2>1. /\ clock' = clock /\ tx'[r].now = clock /\ tx'[r].wait = {}
        /\ tx'[r].cancels = {} /\ tx'[r].expires = {}
        /\ \A q \in Req \ {r} : tx'[q] = tx[q] /\ req'[q] = req[q] /\ pc'[q] = pc[q]
    BY <1>8 DEF StartRowOp, NoTx, StoreInv, Typed, TypeOK
  <2> QED BY <1>0, <1>1, <2>1, NothingReasoned
<1>9. ASSUME NEW r \in Req, Fail(r) \/ DeadlockAbort(r) PROVE WritesReasoned'
  <2>1. /\ clock' = clock /\ tx'[r] = NoTx
        /\ \A q \in Req \ {r} : tx'[q] = tx[q] /\ req'[q] = req[q] /\ pc'[q] = pc[q]
    BY <1>9 DEF Fail, DeadlockAbort, Answer, StoreInv, Typed, TypeOK
  <2> QED BY <1>2, <2>1
<1>10. CASE SweepExpiredHolds \/ PruneIdempotencyKeys \/ Tick \/ UNCHANGED vars
  <2>1. clock' \in {clock, clock + 1} /\ UNCHANGED <<pc, req, tx>>
    <3>1. CASE SweepExpiredHolds BY <3>1 DEF SweepExpiredHolds
    <3>2. CASE PruneIdempotencyKeys BY <3>2 DEF PruneIdempotencyKeys
    <3>3. CASE Tick \/ UNCHANGED vars BY <3>3 DEF Tick, vars
    <3> QED BY <1>10, <3>1, <3>2, <3>3
  <2> QED BY <1>0, <2>1, OthersReasoned DEF WritesReasoned
<1> QED BY <1>6, <1>7, <1>8, <1>9, <1>10 DEF Next

\* The invariant of the theorems below.
LEMMA StoreInvariant == Spec => [](StoreInv /\ WritesReasoned)
<1>1. Init => WritesReasoned
  <2> SUFFICES ASSUME Init, NEW r \in Req PROVE Reasoned(r) BY DEF WritesReasoned
  <2>1. /\ NoTx.now = 0 /\ NoTx.wait = {} /\ NoTx.cancels = {} /\ NoTx.expires = {}
    BY DEF NoTx
  <2> QED BY <2>1 DEF Init, Reasoned
<1>2. Init => StoreInv
  BY InitTyped, InitIndexInv, InitLockInv, InitRefunds DEF StoreInv
<1>3. StoreInv /\ [Next]_vars => StoreInv'
  BY NextTyped, NextIndexInv, NextLockInv, NextMoves DEF StoreInv
<1> QED BY <1>1, <1>2, <1>3, NextReasoned, PTL DEF Spec

-----------------------------------------------------------------------------
(***************************************************************************)
(* How a row changes, with the action that changes it.                     *)
(***************************************************************************)
\* Only a commit, a confirmation, a release and the sweeper change rows.
TableSteps ==
  \/ \E r \in Req : CommitHold(r) \/ CommitCancel(r) \/ ConfirmHold(r) \/ ReleaseHold(r)
  \/ SweepExpiredHolds
  \/ Tick /\ UNCHANGED bookings
  \/ UNCHANGED <<clock, bookings>>

\* Every other step leaves bookings alone, and only time moves the clock.
LEMMA TableStepsOnly == [Next]_vars => TableSteps
<1> SUFFICES ASSUME [Next]_vars PROVE TableSteps
  OBVIOUS
<1>1. ASSUME NEW r \in Req, Statement(r) PROVE TableSteps
  BY <1>1 DEF TableSteps, Statement, Lookup, Begin, AcquireLock, ClearStaleKey, ReleasePrevious,
     ReleaseRows, ExpireStale, ExpireRows, InsertBooking, InsertRefused, InsertKey, Relookup,
     RowMissed, CancelRow, Goto, Answer, tables
<1>2. ASSUME NEW r \in Req, PlaceHold(r) \/ StartRowOp(r) \/ Fail(r) \/ DeadlockAbort(r)
      PROVE  TableSteps
  BY <1>2 DEF TableSteps, PlaceHold, StartRowOp, Fail, DeadlockAbort, Answer, tables
<1>3. CASE SweepExpiredHolds \/ PruneIdempotencyKeys \/ Tick \/ UNCHANGED vars
  BY <1>3 DEF TableSteps, PruneIdempotencyKeys, Tick, tables, vars
<1> QED BY <1>1, <1>2, <1>3 DEF Next

\* The commit of a hold: what it ends are the buyer's other holds and dead
\* holds of the seat.
LEMMA CommitHoldEnds ==
  ASSUME StoreInv, WritesReasoned, NEW r \in Req, CommitHold(r), NEW i \in DOMAIN bookings
  PROVE  \/ bookings'[i] = bookings[i] /\ i \notin Writes(r)
         \/ /\ i \in tx[r].cancels /\ Held(i) /\ Replaced(r, i)
            /\ bookings'[i].status = "cancelled"
         \/ /\ i \in tx[r].expires /\ Held(i) /\ bookings[i].seat = req[r].seat
            /\ bookings[i].expires < clock /\ bookings'[i].status = "expired"
<1>1. Reasoned(r) /\ OwnWrites(r) /\ ~Cancelling(r)
  BY DEF StoreInv, WritesStand, WritesReasoned, Cancelling, CommitHold
<1>2. tx[r].new # i
  BY CommitHoldRows DEF StoreInv
<1>3. bookings'[i] = RowAfter(r, i)
  BY DEF CommitHold
<1>4. /\ bookings[i] \in Booking /\ bookings[i].expires \in Nat
      /\ tx[r].now \in Nat /\ clock \in Nat
  BY StoreAssumption DEF StoreInv, Typed, TypeOK, Booking, Transaction
<1>5. CASE i \in tx[r].cancels
  BY <1>1, <1>2, <1>3, <1>4, <1>5 DEF RowAfter, Reasoned, OwnWrites, Writes, Booking
<1>6. CASE i \in tx[r].expires \ tx[r].cancels
  <2>1. Held(i) /\ Overdue(r, i) /\ tx[r].now <= clock
    BY <1>1, <1>6 DEF Reasoned, OwnWrites, Writes
  <2>2. bookings'[i].status = "expired"
    BY <1>2, <1>3, <1>4, <1>6 DEF RowAfter, Booking
  <2> QED BY <1>4, <1>6, <2>1, <2>2 DEF Overdue
<1>7. CASE i \notin Writes(r)
  BY <1>2, <1>3, <1>7 DEF RowAfter, Writes
<1> QED BY <1>5, <1>6, <1>7 DEF Writes

\* Nobody loses a hold to somebody else before its time: a hold is cancelled
\* by its buyer's ReleaseHold or in the commit of the buyer's next hold, and
\* expired, by placeHold or by the sweeper, only after its expiry.
THEOREM OnlyOwnersEndHolds == Spec => HoldsEndByTheirOwner
<1> DEFINE A == \A i \in DOMAIN bookings :
       /\ Held(i) /\ bookings'[i].status = "cancelled" =>
            \/ \E r \in Req : /\ pc[r] = "row" /\ req[r].op = "release"
                              /\ req[r].id = i /\ req[r].buyer = bookings[i].buyer
            \/ \E j \in DOMAIN bookings' \ DOMAIN bookings :
                 /\ bookings'[j].status = "held"
                 /\ SameBuyerMatch(bookings'[j], bookings[i])
                 /\ bookings'[j].seat # bookings[i].seat
       /\ Held(i) /\ bookings'[i].status = "expired" => bookings[i].expires < clock
<1>1. StoreInv /\ WritesReasoned /\ [Next]_vars => A
  <2> SUFFICES ASSUME StoreInv, WritesReasoned, [Next]_vars, NEW i \in DOMAIN bookings, Held(i)
               PROVE  /\ bookings'[i].status = "cancelled" =>
                           \/ \E r \in Req : /\ pc[r] = "row" /\ req[r].op = "release"
                                             /\ req[r].id = i /\ req[r].buyer = bookings[i].buyer
                           \/ \E j \in DOMAIN bookings' \ DOMAIN bookings :
                                /\ bookings'[j].status = "held"
                                /\ SameBuyerMatch(bookings'[j], bookings[i])
                                /\ bookings'[j].seat # bookings[i].seat
                      /\ bookings'[i].status = "expired" => bookings[i].expires < clock
    OBVIOUS
  <2>0. bookings[i] \in Booking BY DEF StoreInv, Typed, TypeOK
  <2>1. ASSUME NEW r \in Req, CommitHold(r), bookings'[i].status = "cancelled"
        PROVE  \E j \in DOMAIN bookings' \ DOMAIN bookings :
                 /\ bookings'[j].status = "held"
                 /\ SameBuyerMatch(bookings'[j], bookings[i])
                 /\ bookings'[j].seat # bookings[i].seat
    <3>1. Replaced(r, i) BY <2>1, CommitHoldEnds DEF Held
    <3>2. /\ tx[r].new \in DOMAIN bookings' \ DOMAIN bookings
          /\ bookings'[tx[r].new] = NewRow(r)
      BY <2>1, CommitHoldRows DEF StoreInv
    <3> QED BY <3>1, <3>2 DEF Replaced, NewRow, SameBuyerMatch
  <2>2. ASSUME NEW r \in Req, CommitHold(r), bookings'[i].status = "expired"
        PROVE  bookings[i].expires < clock
    BY <2>2, CommitHoldEnds DEF Held
  <2>3. ASSUME NEW r \in Req, CommitCancel(r) PROVE bookings'[i] = bookings[i]
    <3>1. Cancelling(r) /\ OwnWrites(r) /\ tx[r].new = None
      BY <2>3, ShapeOps DEF CommitCancel, Cancelling, StoreInv, WritesStand, Typed, ReqShape
    <3>2. i \notin Writes(r) /\ i # tx[r].new
      BY <3>1 DEF OwnWrites, Writes, Held, StoreInv, Typed, TypeOK, Id, None
    <3> QED BY <2>3, <3>2 DEF CommitCancel, RowAfter, Writes
  <2>4. ASSUME NEW r \in Req, ConfirmHold(r)
        PROVE  bookings'[i].status \in {"held", "confirmed"}
    BY <2>0, <2>4 DEF ConfirmHold, Held, Booking
  <2>5. ASSUME NEW r \in Req, ReleaseHold(r)
        PROVE  /\ bookings'[i].status # "expired"
               /\ bookings'[i].status = "cancelled" =>
                    /\ pc[r] = "row" /\ req[r].op = "release"
                    /\ req[r].id = i /\ req[r].buyer = bookings[i].buyer
    BY <2>0, <2>5 DEF ReleaseHold, RowQualifies, Held, Booking
  <2>6. CASE SweepExpiredHolds
    <3>1. PICK batch \in SUBSET DOMAIN bookings :
            /\ \A k \in batch : bookings[k].expires < clock
            /\ bookings' = [k \in DOMAIN bookings |->
                              IF k \in batch THEN [bookings[k] EXCEPT !.status = "expired"]
                              ELSE bookings[k]]
      BY <2>6 DEF SweepExpiredHolds, OldestBatch
    <3> QED BY <2>0, <3>1 DEF Held, Booking
  <2>7. CASE UNCHANGED bookings BY <2>7 DEF Held
  <2> QED BY <2>1, <2>2, <2>3, <2>4, <2>5, <2>6, <2>7, TableStepsOnly DEF TableSteps, Held
<1> QED BY <1>1, StoreInvariant, PTL DEF Spec, HoldsEndByTheirOwner

-----------------------------------------------------------------------------
(***************************************************************************)
(* The refinement.  With one active row per seat the ledger's entry of a   *)
(* seat is that row's, so a step of the store is followed row by row.      *)
(***************************************************************************)
EntryOf(row) == IF row.status = "held"
                THEN [state |-> "held", buyer |-> row.buyer, until |-> row.expires]
                ELSE [state |-> "sold", buyer |-> row.buyer]

\* The entry of a seat with an active row, before and after a step.
LEMMA EntryIsRow ==
  ASSUME NEW s, NEW i \in ActiveOn(s), OneActivePerSeat
  PROVE  LedgerOf(s) = EntryOf(bookings[i])
<1>1. \A j \in ActiveOn(s) : j = i
  BY DEF ActiveOn, OneActivePerSeat
<1>2. (CHOOSE j \in ActiveOn(s) : TRUE) = i
  BY <1>1
<1> QED BY <1>2 DEF LedgerOf, EntryOf

\* The same after a step.
LEMMA EntryIsRowAfter ==
  ASSUME NEW s, NEW i \in ActiveOn(s)', OneActivePerSeat'
  PROVE  LedgerOf(s)' = EntryOf(bookings'[i])
<1>1. \A j \in ActiveOn(s)' : j = i
  BY DEF ActiveOn, OneActivePerSeat
<1>2. (CHOOSE j \in ActiveOn(s)' : TRUE) = i
  BY <1>1
<1> QED BY <1>2 DEF LedgerOf, EntryOf

\* A seat whose active rows stay as they are keeps its entry.
LEMMA SameEntry ==
  ASSUME NEW s, ActiveOn(s)' = ActiveOn(s), \A i \in ActiveOn(s) : bookings'[i] = bookings[i]
  PROVE  LedgerOf(s)' = LedgerOf(s)
<1>1. CASE ActiveOn(s) = {} BY <1>1 DEF LedgerOf
<1>2. CASE ActiveOn(s) # {}
  <2>1. (CHOOSE i \in ActiveOn(s) : TRUE) \in ActiveOn(s) BY <1>2
  <2>2. (CHOOSE i \in ActiveOn(s)' : TRUE) = (CHOOSE i \in ActiveOn(s) : TRUE) OBVIOUS
  <2> QED BY <1>2, <2>1, <2>2 DEF LedgerOf
<1> QED BY <1>1, <1>2

\* A seat without active rows is free.
LEMMA EmptyEntry ==
  ASSUME NEW s
  PROVE  /\ ActiveOn(s) = {} => LedgerOf(s) = [state |-> "free"]
         /\ ActiveOn(s)' = {} => LedgerOf(s)' = [state |-> "free"]
  BY DEF LedgerOf

\* The entries' states tell them apart.
LEMMA EntryStates ==
  ASSUME NEW row
  PROVE  /\ EntryOf(row).buyer = row.buyer
         /\ EntryOf(row).state = "held" <=> row.status = "held"
         /\ row.status = "held" => EntryOf(row).until = row.expires
         /\ EntryOf(row) # [state |-> "free"]
<1>1. EntryOf(row).state # "free" BY DEF EntryOf
<1> QED BY <1>1 DEF EntryOf

\* One row of seat s changes, and was its seat's active row: the other seats
\* keep their entries.
LEMMA OtherEntries ==
  ASSUME Typed, NEW n \in DOMAIN bookings, DOMAIN bookings' = DOMAIN bookings,
         bookings'[n].seat = bookings[n].seat,
         \A i \in DOMAIN bookings \ {n} : bookings'[i] = bookings[i],
         NEW x, x # bookings[n].seat
  PROVE  LedgerOf(x)' = LedgerOf(x)
<1>1. ActiveOn(x)' = ActiveOn(x) /\ \A i \in ActiveOn(x) : bookings'[i] = bookings[i]
  BY DEF ActiveOn, Active
<1> QED BY <1>1, SameEntry

\* ConfirmHold sells the seat to its holder.
LEMMA ConfirmSells ==
  ASSUME StoreInv, StoreInv', NEW r \in Req, ConfirmHold(r)
  PROVE  \E s \in Seat : Ledger!Sell(s)
<1> DEFINE n == req[r].id
           s == bookings[n].seat
<1>1. n \in DOMAIN bookings /\ Held(n) /\ bookings[n] \in Booking /\ s \in Seat
  BY DEF ConfirmHold, RowQualifies, StoreInv, Typed, TypeOK, Booking
<1>2. /\ DOMAIN bookings' = DOMAIN bookings /\ clock' = clock
      /\ \A i \in DOMAIN bookings \ {n} : bookings'[i] = bookings[i]
      /\ bookings'[n].seat = s /\ bookings'[n].buyer = bookings[n].buyer
      /\ bookings'[n].status = "confirmed"
  BY <1>1 DEF ConfirmHold, Answer, Booking
<1>3. n \in ActiveOn(s) /\ OneActivePerSeat /\ OneActivePerSeat'
  BY <1>1 DEF ActiveOn, Active, Held, StoreInv, IndexInv
<1>4. LedgerOf(s) = [state |-> "held", buyer |-> bookings[n].buyer, until |-> bookings[n].expires]
  BY <1>1, <1>3, EntryIsRow DEF EntryOf, Held
<1>5. PICK z \in Seat : z = s BY <1>1
<1>6. LedgerOf(z)' = [state |-> "sold", buyer |-> bookings[n].buyer]
  <2>1. n \in ActiveOn(z)' BY <1>1, <1>2, <1>5 DEF ActiveOn, Active
  <2> QED BY <1>2, <1>3, <2>1, EntryIsRowAfter DEF EntryOf
<1>7. \A x \in Seat \ {z} : LedgerOf(x)' = LedgerOf(x)
  BY <1>1, <1>2, <1>5, OtherEntries DEF StoreInv
<1>8. Ledger!Sell(z)
  BY <1>2, <1>4, <1>5, <1>6, <1>7 DEF Ledger!Sell, Ledger!IsHeld, Ledger!SoldTo
<1> QED BY <1>8

\* One active row that dies vacates its seat.
LEMMA DeathVacates ==
  ASSUME StoreInv, StoreInv', NEW n \in DOMAIN bookings, Active(n), clock' = clock,
         DOMAIN bookings' = DOMAIN bookings, bookings'[n].seat = bookings[n].seat,
         bookings'[n].status = "cancelled",
         \A i \in DOMAIN bookings \ {n} : bookings'[i] = bookings[i]
  PROVE  \E s \in Seat : Ledger!Vacate(s)
<1>1. bookings[n].seat \in Seat
  BY DEF StoreInv, Typed, TypeOK, Booking
<1>2. PICK z \in Seat : z = bookings[n].seat BY <1>1
<1>3. n \in ActiveOn(z) /\ OneActivePerSeat
  BY <1>2 DEF ActiveOn, StoreInv, IndexInv
<1>4. LedgerOf(z) # [state |-> "free"]
  BY <1>3, EntryIsRow, EntryStates
<1>5. ActiveOn(z)' = {}
  BY <1>2, <1>3 DEF ActiveOn, Active, OneActivePerSeat
<1>6. LedgerOf(z)' = [state |-> "free"]
  BY <1>5, EmptyEntry
<1>7. \A x \in Seat \ {z} : LedgerOf(x)' = LedgerOf(x)
  BY <1>2, OtherEntries DEF StoreInv
<1>8. Ledger!Vacate(z)
  BY <1>4, <1>6, <1>7 DEF Ledger!Vacate, Ledger!Free
<1> QED BY <1>8

\* ReleaseHold and the commit of CancelBooking vacate the seat.
LEMMA ReleaseVacates ==
  ASSUME StoreInv, StoreInv', NEW r \in Req, ReleaseHold(r)
  PROVE  \E s \in Seat : Ledger!Vacate(s)
<1> DEFINE n == req[r].id
<1>1. n \in DOMAIN bookings /\ Active(n) /\ bookings[n] \in Booking
  BY DEF ReleaseHold, RowQualifies, Held, Active, StoreInv, Typed, TypeOK
<1>2. /\ DOMAIN bookings' = DOMAIN bookings /\ clock' = clock
      /\ \A i \in DOMAIN bookings \ {n} : bookings'[i] = bookings[i]
      /\ bookings'[n].seat = bookings[n].seat /\ bookings'[n].status = "cancelled"
  BY <1>1 DEF ReleaseHold, Answer, Booking
<1> QED BY <1>1, <1>2, DeathVacates

\* CommitCancel gives one sold seat back.
LEMMA CancelVacates ==
  ASSUME StoreInv, StoreInv', NEW r \in Req, CommitCancel(r)
  PROVE  \E s \in Seat : Ledger!Vacate(s)
<1> DEFINE n == req[r].id
<1>1. OwnWrites(r) /\ Cancelling(r) /\ tx[r].new = None
  BY ShapeOps DEF CommitCancel, Cancelling, StoreInv, WritesStand, Typed, ReqShape
<1>2. /\ n \in DOMAIN bookings /\ Active(n) /\ bookings[n] \in Booking
      /\ tx[r].cancels = {n} /\ tx[r].expires = {}
  BY <1>1 DEF OwnWrites, Active, StoreInv, Typed, TypeOK
<1>3. \A i \in DOMAIN bookings : i # tx[r].new
  BY <1>1 DEF StoreInv, Typed, TypeOK, Id, None
<1>4. /\ DOMAIN bookings' = DOMAIN bookings /\ clock' = clock
      /\ \A i \in DOMAIN bookings \ {n} : bookings'[i] = bookings[i]
      /\ bookings'[n] = [bookings[n] EXCEPT !.status = "cancelled"]
  BY <1>2, <1>3 DEF CommitCancel, Answer, RowAfter
<1>5. bookings'[n].seat = bookings[n].seat /\ bookings'[n].status = "cancelled"
  BY <1>2, <1>4 DEF Booking
<1> QED BY <1>2, <1>4, <1>5, DeathVacates

\* The sweeper frees the seats of the dead holds in its batch.
LEMMA SweepFrees ==
  ASSUME StoreInv, StoreInv', SweepExpiredHolds
  PROVE  \E S \in SUBSET Seat : Ledger!Sweep(S)
<1>1. PICK batch \in SUBSET DOMAIN bookings :
        /\ \A i \in batch : Held(i) /\ bookings[i].expires < clock
        /\ bookings' = [i \in DOMAIN bookings |->
                          IF i \in batch THEN [bookings[i] EXCEPT !.status = "expired"]
                          ELSE bookings[i]]
        /\ clock' = clock
  BY DEF SweepExpiredHolds, OldestBatch
<1> DEFINE S == {s \in Seat : \E i \in batch : bookings[i].seat = s}
<1>2. OneActivePerSeat /\ \A i \in DOMAIN bookings : bookings[i] \in Booking
  BY DEF StoreInv, IndexInv, Typed, TypeOK
<1>3. /\ DOMAIN bookings' = DOMAIN bookings
      /\ \A i \in DOMAIN bookings \ batch : bookings'[i] = bookings[i]
      /\ \A i \in batch : bookings'[i].status = "expired" /\ bookings'[i].seat = bookings[i].seat
  BY <1>1, <1>2 DEF Booking
<1>4. ASSUME NEW s \in S
      PROVE  LedgerOf(s).state = "held" /\ LedgerOf(s).until < clock /\ LedgerOf(s)' = [state |-> "free"]
  <2>1. PICK i \in batch : bookings[i].seat = s OBVIOUS
  <2>2. i \in ActiveOn(s) /\ \A j \in ActiveOn(s) : j = i
    BY <1>1, <1>2, <2>1 DEF ActiveOn, Active, Held, OneActivePerSeat
  <2>3. LedgerOf(s) = EntryOf(bookings[i]) BY <1>2, <2>2, EntryIsRow
  <2>4. ActiveOn(s)' = {}
    BY <1>3, <2>1, <2>2 DEF ActiveOn, Active
  <2> QED BY <1>1, <2>3, <2>4, EntryStates, EmptyEntry DEF Held
<1>5. ASSUME NEW s \in Seat \ S PROVE LedgerOf(s)' = LedgerOf(s)
  <2>1. ActiveOn(s)' = ActiveOn(s) /\ \A i \in ActiveOn(s) : bookings'[i] = bookings[i]
    BY <1>3 DEF ActiveOn, Active
  <2> QED BY <2>1, SameEntry
<1>6. S \in SUBSET Seat OBVIOUS
<1> HIDE DEF S
<1>7. Ledger!Sweep(S)
  BY <1>1, <1>4, <1>5, <1>6 DEF Ledger!Sweep, Ledger!IsDead, Ledger!IsHeld, Ledger!Free
<1> QED BY <1>6, <1>7

\* The commit of a hold grants the seat, and gives up the buyer's other seat.
LEMMA CommitGrants ==
  ASSUME StoreInv, WritesReasoned, StoreInv', NEW r \in Req, CommitHold(r)
  PROVE  \E s \in Seat, b \in Buyer : Ledger!Grant(s, b)
<1> DEFINE n == tx[r].new
           b == req[r].buyer
<1>0. req[r].seat \in Seat /\ b \in Buyer
  BY ShapeOps DEF CommitHold, StoreInv, Typed, ReqShape
<1>1. PICK z \in Seat : z = req[r].seat BY <1>0
<1>2. /\ n \notin DOMAIN bookings /\ DOMAIN bookings' = DOMAIN bookings \cup {n}
      /\ bookings'[n] = NewRow(r) /\ n # None
      /\ \A i \in DOMAIN bookings : /\ bookings'[i].seat = bookings[i].seat
                                    /\ i \in Writes(r) => bookings'[i].status \in {"cancelled", "expired"}
                                    /\ i \notin Writes(r) => bookings'[i] = bookings[i]
  BY CommitHoldRows DEF StoreInv
<1>3. SeatRivals(r) = {} /\ BuyerRivals(r) = {} /\ OneActivePerSeat /\ OneActivePerSeat'
  BY <1>2 DEF StoreInv, IndexInv, InsertedRowsFit
<1>4. ASSUME NEW i \in Writes(r), i \in DOMAIN bookings
      PROVE  /\ Held(i)
             /\ \/ Replaced(r, i)
                \/ bookings[i].seat = z /\ bookings[i].expires < clock
  BY <1>1, <1>2, <1>4, CommitHoldEnds
<1>5. LedgerOf(z) = [state |-> "free"] \/ (LedgerOf(z).state = "held" /\ LedgerOf(z).until < clock)
  <2>1. CASE ActiveOn(z) = {} BY <2>1, EmptyEntry
  <2>2. CASE ActiveOn(z) # {}
    <3>1. PICK i : i \in ActiveOn(z) BY <2>2
    <3>2. i \in DOMAIN bookings /\ i \in Writes(r) /\ bookings[i].seat = z
      BY <1>1, <1>3, <3>1 DEF ActiveOn, SeatRivals
    <3>3. Held(i) /\ bookings[i].expires < clock
      BY <1>1, <1>4, <3>2 DEF Replaced
    <3> QED BY <1>3, <3>1, <3>3, EntryIsRow, EntryStates DEF Held
  <2> QED BY <2>1, <2>2
<1>6. LedgerOf(z)' = [state |-> "held", buyer |-> b, until |-> tx[r].now + TTL]
  <2>1. n \in ActiveOn(z)'
    BY <1>1, <1>2 DEF ActiveOn, Active, NewRow
  <2> QED BY <1>2, <1>3, <2>1, EntryIsRowAfter DEF EntryOf, NewRow
<1>7. tx[r].now + TTL \in 0..(clock + TTL) /\ clock' = clock
  BY StoreAssumption DEF WritesReasoned, Reasoned, StoreInv, Typed, TypeOK, Transaction, CommitHold, Answer
<1>8. ASSUME NEW x \in Seat \ {z}
      PROVE  LedgerOf(x)' = IF LedgerOf(x).state = "held" /\ LedgerOf(x).buyer = b
                               /\ MatchOf[x] = MatchOf[z]
                            THEN [state |-> "free"] ELSE LedgerOf(x)
  <2>1. CASE \E i \in ActiveOn(x) : i \in Writes(r)
    <3>1. PICK i \in ActiveOn(x) : i \in Writes(r) BY <2>1
    <3>2. i \in DOMAIN bookings /\ bookings[i].seat = x /\ \A j \in ActiveOn(x) : j = i
      BY <1>3, <3>1 DEF ActiveOn, OneActivePerSeat
    <3>3. Held(i) /\ bookings[i].buyer = b /\ MatchOf[x] = MatchOf[z]
      BY <1>1, <1>4, <3>1, <3>2 DEF Replaced, SameBuyerMatch
    <3>4. LedgerOf(x).state = "held" /\ LedgerOf(x).buyer = b
      BY <1>3, <3>1, <3>3, EntryIsRow, EntryStates DEF Held
    <3>5. ActiveOn(x)' = {}
      BY <1>1, <1>2, <3>1, <3>2 DEF ActiveOn, Active, NewRow
    <3> QED BY <3>3, <3>4, <3>5, EmptyEntry
  <2>2. CASE \A i \in ActiveOn(x) : i \notin Writes(r)
    <3>1. ActiveOn(x)' = ActiveOn(x) /\ \A i \in ActiveOn(x) : bookings'[i] = bookings[i]
      BY <1>1, <1>2, <2>2 DEF ActiveOn, Active, NewRow
    <3>2. LedgerOf(x)' = LedgerOf(x) BY <3>1, SameEntry
    <3>3. ~(LedgerOf(x).state = "held" /\ LedgerOf(x).buyer = b /\ MatchOf[x] = MatchOf[z])
      <4>1. CASE ActiveOn(x) = {} BY <4>1, EmptyEntry
      <4>2. ASSUME NEW i \in ActiveOn(x)
            PROVE  ~(LedgerOf(x).state = "held" /\ LedgerOf(x).buyer = b /\ MatchOf[x] = MatchOf[z])
        <5>1. i \in DOMAIN bookings \ Writes(r) /\ bookings[i].seat = x
          BY <2>2, <4>2 DEF ActiveOn
        <5>2. ~(Held(i) /\ bookings[i].buyer = b /\ MatchOf[x] = MatchOf[z])
          BY <1>1, <1>3, <5>1 DEF BuyerRivals, SameBuyerMatch
        <5> QED BY <1>3, <4>2, <5>2, EntryIsRow, EntryStates DEF Held
      <4> QED BY <4>1, <4>2
    <3> QED BY <3>2, <3>3
  <2> QED BY <2>1, <2>2
<1> HIDE DEF b
<1>9. Ledger!Grant(z, b)
  <2> DEFINE until == tx[r].now + TTL
  <2>1. until \in 0..(clock + TTL) BY <1>7
  <2>2. LedgerOf(z)' = [state |-> "held", buyer |-> b, until |-> until] BY <1>6
  <2> HIDE DEF until
  <2> QED BY <1>5, <1>7, <1>8, <2>1, <2>2
          DEF Ledger!Grant, Ledger!IsDead, Ledger!IsHeld, Ledger!Free, Ledger!HeldBy
<1> QED BY <1>0, <1>9 DEF b

\* The store implements the box office: whatever transactions, retries and
\* sweeps interleave, the seats are only granted, sold, vacated and swept as
\* SeatLedger allows, and everything before a COMMIT is invisible.
THEOREM StoreImplementsLedger == Spec => ImplementsLedger
<1> DEFINE L == [s \in Seat |-> LedgerOf(s)]
<1>1. Init => Ledger!LedgerInit
  <2> SUFFICES ASSUME Init PROVE Ledger!LedgerInit OBVIOUS
  <2>1. \A s \in Seat : ActiveOn(s) = {} BY DEF Init, ActiveOn
  <2>2. \A s \in Seat : LedgerOf(s) = [state |-> "free"] BY <2>1, EmptyEntry
  <2> QED BY <2>2 DEF Init, Ledger!LedgerInit, Ledger!Free
<1>2. StoreInv /\ WritesReasoned /\ StoreInv' /\ [Next]_vars
        => [Ledger!LedgerNext]_<<clock, L>>
  <2> SUFFICES ASSUME StoreInv, WritesReasoned, StoreInv', [Next]_vars
               PROVE  [Ledger!LedgerNext]_<<clock, L>>
    OBVIOUS
  <2>1. ASSUME UNCHANGED bookings PROVE L' = L
    <3>1. \A s \in Seat : LedgerOf(s)' = LedgerOf(s)
      BY <2>1, SameEntry DEF ActiveOn, Active
    <3> QED BY <3>1
  <2>2. CASE Tick /\ UNCHANGED bookings
    BY <2>1, <2>2 DEF Tick, Ledger!LedgerNext, Ledger!LedgerTick
  <2>3. CASE UNCHANGED <<clock, bookings>>
    BY <2>1, <2>3
  <2>4. CASE SweepExpiredHolds
    BY <2>4, SweepFrees DEF Ledger!LedgerNext
  <2>5. ASSUME NEW r \in Req,
               CommitHold(r) \/ CommitCancel(r) \/ ConfirmHold(r) \/ ReleaseHold(r)
        PROVE  Ledger!LedgerNext
    BY <2>5, CommitGrants, CancelVacates, ConfirmSells, ReleaseVacates DEF Ledger!LedgerNext
  <2> QED BY <2>2, <2>3, <2>4, <2>5, TableStepsOnly DEF TableSteps
<1> QED BY <1>1, <1>2, StoreInvariant, PTL DEF Spec, ImplementsLedger, Ledger!LedgerSpec

-----------------------------------------------------------------------------
(***************************************************************************)
(* Idempotency keys.  A key row always leads to a booking; a transaction   *)
(* that has deleted or inserted a key row is alone with that key, and the  *)
(* booking it takes the key from is on the seat it asks for, so its own    *)
(* INSERT would have failed while that booking was active.                 *)
(***************************************************************************)
TouchesKey(r) == tx[r].clear \/ tx[r].keyed

KeyOwned(r) ==
  /\ tx[r].stale # None => /\ tx[r].stale \in DOMAIN bookings
                           /\ bookings[tx[r].stale].seat = req[r].seat
  /\ tx[r].clear => /\ tx[r].stale # None /\ req[r].key \in DOMAIN keys
                    /\ keys[req[r].key].booking = tx[r].stale
  /\ tx[r].keyed => /\ pc[r] = "commit"
                    /\ req[r].key \notin DOMAIN keys \/ tx[r].clear
  /\ pc[r] = "commit" /\ req[r].op = "hold" /\ req[r].key # NoKey => tx[r].keyed
  /\ pc[r] \in {"idle", "row"} => tx[r].stale = None /\ ~TouchesKey(r)

KeysExclusive ==
  \A r, q \in Req : r # q /\ TouchesKey(r) /\ TouchesKey(q) => req[r].key # req[q].key

KeysLead ==
  \A k \in DOMAIN keys :
    /\ keys[k].booking \in DOMAIN bookings
    /\ \A i \in DOMAIN bookings :
         /\ Active(i) /\ bookings[i].key = k
         /\ bookings[i].seat = bookings[keys[k].booking].seat
         => i = keys[k].booking

KeyInv == (\A r \in Req : KeyOwned(r)) /\ KeysExclusive /\ KeysLead

\* A booking keeps the key it was placed under.
LEMMA RowsKeepKey ==
  ASSUME StoreInv, [Next]_vars, NEW i \in DOMAIN bookings
  PROVE  bookings'[i].key = bookings[i].key
<1>0. bookings[i] \in Booking BY DEF StoreInv, Typed, TypeOK
<1>1. ASSUME NEW r \in Req, CommitHold(r) \/ CommitCancel(r), i # tx[r].new
      PROVE  bookings'[i].key = bookings[i].key
  BY <1>0, <1>1 DEF CommitHold, CommitCancel, RowAfter, Booking
<1>2. ASSUME NEW r \in Req, CommitHold(r) PROVE i # tx[r].new
  BY <1>2, CommitHoldRows DEF StoreInv
<1>3. ASSUME NEW r \in Req, CommitCancel(r) PROVE i # tx[r].new
  BY <1>3, ShapeOps DEF CommitCancel, StoreInv, Typed, TypeOK, ReqShape, Id, None
<1>4. ASSUME NEW r \in Req, ConfirmHold(r) \/ ReleaseHold(r)
      PROVE  bookings'[i].key = bookings[i].key
  <2>1. CASE ConfirmHold(r) BY <1>0, <2>1 DEF ConfirmHold, Booking
  <2>2. CASE ReleaseHold(r) BY <1>0, <2>2 DEF ReleaseHold, Booking
  <2> QED BY <1>4, <2>1, <2>2
<1>5. CASE SweepExpiredHolds
  BY <1>0, <1>5 DEF SweepExpiredHolds, Booking
<1>6. CASE UNCHANGED bookings BY <1>6
<1> QED BY <1>1, <1>2, <1>3, <1>4, <1>5, <1>6, TableStepsOnly DEF TableSteps

\* A request that takes no step keeps its hold on a key whose row stays.
LEMMA OthersOwnKeys ==
  ASSUME RowsMove, NEW q \in Req, KeyOwned(q),
         tx'[q] = tx[q], req'[q] = req[q], pc'[q] = pc[q],
         tx[q].clear => req[q].key \in DOMAIN keys' /\ keys'[req[q].key] = keys[req[q].key],
         tx[q].keyed => (req[q].key \in DOMAIN keys' => req[q].key \in DOMAIN keys)
  PROVE  KeyOwned(q)'
<1>1. tx[q].stale # None => /\ tx[q].stale \in DOMAIN bookings'
                            /\ bookings'[tx[q].stale].seat = req[q].seat
  BY DEF KeyOwned, RowsMove, RowMoves
<1> QED BY <1>1 DEF KeyOwned, TouchesKey

\* Rows keep leading to their key, and keys to rows, while no row is added.
LEMMA StillLead ==
  ASSUME StoreInv, [Next]_vars, RowsMove, KeysLead, DOMAIN bookings' = DOMAIN bookings,
         DOMAIN keys' \subseteq DOMAIN keys, \A k \in DOMAIN keys' : keys'[k] = keys[k]
  PROVE  KeysLead'
<1>1. \A i \in DOMAIN bookings :
        /\ bookings'[i].seat = bookings[i].seat /\ bookings'[i].key = bookings[i].key
        /\ Active(i)' => Active(i)
  BY RowsKeepKey DEF RowsMove, RowMoves, Active, Held
<1> QED BY <1>1 DEF KeysLead

\* A step of r that leaves the key rows alone.
LEMMA StepKeyInv ==
  ASSUME StoreInv, [Next]_vars, KeyInv, NEW r \in Req, KeyOwned(r)',
         UNCHANGED keys, DOMAIN bookings' = DOMAIN bookings,
         \A q \in Req \ {r} : tx'[q] = tx[q] /\ req'[q] = req[q] /\ pc'[q] = pc[q],
         TouchesKey(r)' => req'[r].key = req[r].key /\ (TouchesKey(r) \/ ~KeyBusy(r))
  PROVE  KeyInv'
<1>0. RowsMove BY NextMoves DEF StoreInv
<1>1. \A q \in Req : KeyOwned(q)'
  <2>1. ASSUME NEW q \in Req \ {r} PROVE KeyOwned(q)'
    <3>1. KeyOwned(q) BY DEF KeyInv
    <3> QED BY <1>0, <3>1, OthersOwnKeys DEF KeyOwned
  <2> QED BY <2>1
<1>2. KeysExclusive'
  BY DEF KeyInv, KeysExclusive, TouchesKey, KeyBusy
<1>3. KeysLead' BY <1>0, StillLead DEF KeyInv
<1> QED BY <1>1, <1>2, <1>3 DEF KeyInv

\* A request without a transaction owns no key.
LEMMA NoKeyOwned ==
  ASSUME NEW r \in Req, tx'[r].stale = None, tx'[r].clear = FALSE, tx'[r].keyed = FALSE,
         pc'[r] # "commit"
  PROVE  KeyOwned(r)' /\ ~TouchesKey(r)'
  BY DEF KeyOwned, TouchesKey

\* The statements of placeHold before its COMMIT.
LEMMA PlaceKeyInv ==
  ASSUME StoreInv, [Next]_vars, KeyInv, NEW r \in Req,
         \/ Lookup(r) \/ Begin(r) \/ AcquireLock(r) \/ ClearStaleKey(r)
         \/ ReleasePrevious(r) \/ ReleaseRows(r) \/ ExpireStale(r) \/ ExpireRows(r)
         \/ InsertBooking(r) \/ InsertRefused(r) \/ InsertKey(r) \/ Relookup(r)
  PROVE  KeyInv'
<1>0. tx[r] \in Transaction /\ KeyOwned(r) /\ pc[r] # "commit"
  BY DEF StoreInv, Typed, TypeOK, KeyInv, Lookup, Begin, AcquireLock, ClearStaleKey,
     ReleasePrevious, ReleaseRows, ExpireStale, ExpireRows, InsertBooking, InsertRefused,
     InsertKey, Relookup
<1>1. NoTx.stale = None /\ NoTx.clear = FALSE /\ NoTx.keyed = FALSE
  BY DEF NoTx
<1>2. ASSUME NEW kind, NEW id, Answer(r, kind, id), UNCHANGED tables PROVE KeyInv'
  <2>1. /\ tx'[r] = NoTx /\ pc'[r] = "idle"
        /\ \A q \in Req \ {r} : tx'[q] = tx[q] /\ req'[q] = req[q] /\ pc'[q] = pc[q]
    BY <1>2 DEF Answer, StoreInv, Typed, TypeOK
  <2>2. KeyOwned(r)' /\ ~TouchesKey(r)' BY <1>1, <2>1, NoKeyOwned
  <2> QED BY <1>2, <2>1, <2>2, StepKeyInv DEF tables
<1>3. ASSUME NEW stmt, NEW t, Goto(r, stmt, t)
      PROVE  /\ tx'[r] = t /\ pc'[r] = stmt /\ UNCHANGED <<bookings, keys, req>>
             /\ \A q \in Req \ {r} : tx'[q] = tx[q] /\ req'[q] = req[q] /\ pc'[q] = pc[q]
  BY <1>3 DEF Goto, tables, StoreInv, Typed, TypeOK
<1>4. ASSUME NEW stmt, Goto(r, stmt, NoTx), stmt # "commit" PROVE KeyInv'
  <2>1. tx'[r] = NoTx /\ pc'[r] = stmt BY <1>3, <1>4
  <2>2. KeyOwned(r)' /\ ~TouchesKey(r)' BY <1>1, <1>4, <2>1, NoKeyOwned
  <2>3. /\ UNCHANGED <<bookings, keys>>
        /\ \A q \in Req \ {r} : tx'[q] = tx[q] /\ req'[q] = req[q] /\ pc'[q] = pc[q]
    BY <1>3, <1>4
  <2> QED BY <2>2, <2>3, StepKeyInv
<1>5. ASSUME NEW stmt, NEW t, Goto(r, stmt, t), stmt \notin {"idle", "row"},
             t.stale = tx[r].stale, t.clear = tx[r].clear, t.keyed = tx[r].keyed,
             stmt = "commit" => req[r].key = NoKey
      PROVE  KeyInv'
  <2>1. KeyOwned(r)' BY <1>0, <1>3, <1>5 DEF KeyOwned, TouchesKey
  <2>2. TouchesKey(r)' => TouchesKey(r) BY <1>3, <1>5 DEF TouchesKey
  <2> QED BY <1>3, <1>5, <2>1, <2>2, StepKeyInv
<1>6. CASE Lookup(r)
  <2> DEFINE i == keys[req[r].key].booking
             t == [NoTx EXCEPT !.stale = i]
  <2>1. CASE IdemState(req[r]) = "dead" /\ Goto(r, "begin", t)
    <3>1. req[r].key \in DOMAIN keys /\ bookings[i].seat = req[r].seat
      BY <2>1 DEF IdemState
    <3>2. i \in DOMAIN bookings BY <3>1 DEF KeyInv, KeysLead
    <3>3. t.stale = i /\ t.clear = FALSE /\ t.keyed = FALSE BY DEF NoTx
    <3> HIDE DEF t
    <3>4. tx'[r] = t /\ pc'[r] = "begin" /\ UNCHANGED <<bookings, req>> BY <1>3, <2>1
    <3>5. KeyOwned(r)' /\ ~TouchesKey(r)'
      BY <3>1, <3>2, <3>3, <3>4 DEF KeyOwned, TouchesKey
    <3> QED BY <1>3, <2>1, <3>5, StepKeyInv
  <2> QED BY <1>2, <1>4, <1>6, <2>1 DEF Lookup
<1>7. CASE \/ Begin(r) \/ AcquireLock(r) \/ ReleasePrevious(r) \/ ReleaseRows(r)
           \/ ExpireStale(r) \/ ExpireRows(r)
  <2>1. PICK stmt, t :
          /\ Goto(r, stmt, t) /\ stmt \notin {"idle", "row", "commit"}
          /\ t.stale = tx[r].stale /\ t.clear = tx[r].clear /\ t.keyed = tx[r].keyed
    <3>1. CASE Begin(r) \/ AcquireLock(r) \/ ReleasePrevious(r) \/ ExpireStale(r)
      BY <1>0, <3>1 DEF Begin, AcquireLock, ReleasePrevious, ExpireStale, Transaction
    <3>2. CASE ReleaseRows(r)
      <4> DEFINE t == [tx[r] EXCEPT !.wait = {}, !.cancels = {i \in tx[r].wait : Held(i)}]
      <4>1. t.stale = tx[r].stale /\ t.clear = tx[r].clear /\ t.keyed = tx[r].keyed
        BY <1>0 DEF Transaction
      <4> HIDE DEF t
      <4>2. Goto(r, "expire", t) BY <3>2 DEF ReleaseRows, t
      <4> QED BY <4>1, <4>2
    <3>3. CASE ExpireRows(r)
      <4> DEFINE t == [tx[r] EXCEPT !.wait = {}, !.expires = {i \in tx[r].wait : Held(i)}]
      <4>1. t.stale = tx[r].stale /\ t.clear = tx[r].clear /\ t.keyed = tx[r].keyed
        BY <1>0 DEF Transaction
      <4> HIDE DEF t
      <4>2. Goto(r, "insert", t) BY <3>3 DEF ExpireRows, t
      <4> QED BY <4>1, <4>2
    <3> QED BY <1>7, <3>1, <3>2, <3>3
  <2> QED BY <1>5, <2>1
<1>8. CASE ClearStaleKey(r)
  <2> DEFINE c == req[r].key \in DOMAIN keys /\ keys[req[r].key].booking = tx[r].stale
             t == [tx[r] EXCEPT !.clear = c]
  <2>1. t.stale = tx[r].stale /\ t.clear = c /\ t.keyed = tx[r].keyed
    BY <1>0 DEF Transaction
  <2>2. Goto(r, "release", t) /\ ~KeyBusy(r) BY <1>8 DEF ClearStaleKey
  <2>3. c => tx[r].stale # None
    BY DEF StoreInv, Typed, TypeOK, KeyRow, Id, None
  <2>4. ~tx[r].keyed BY <1>0 DEF KeyOwned
  <2> HIDE DEF t
  <2>5. tx'[r] = t /\ pc'[r] = "release" /\ UNCHANGED <<bookings, keys, req>> BY <1>3, <2>2
  <2>6. KeyOwned(r)' BY <1>0, <2>1, <2>3, <2>4, <2>5 DEF KeyOwned, TouchesKey
  <2> QED BY <1>3, <2>2, <2>6, StepKeyInv
<1>9. CASE InsertBooking(r)
  <2>1. PICK i, stmt : /\ stmt \in {"commit", "insertKey"}
                       /\ stmt = "commit" => req[r].key = NoKey
                       /\ Goto(r, stmt, [tx[r] EXCEPT !.new = i])
    BY <1>9 DEF InsertBooking
  <2> DEFINE t == [tx[r] EXCEPT !.new = i]
  <2>2. t.stale = tx[r].stale /\ t.clear = tx[r].clear /\ t.keyed = tx[r].keyed
    BY <1>0 DEF Transaction
  <2> HIDE DEF t
  <2>3. Goto(r, stmt, t) BY <2>1 DEF t
  <2> QED BY <1>5, <2>1, <2>2, <2>3
<1>10. CASE InsertRefused(r) \/ Relookup(r)
  BY <1>2, <1>4, <1>10 DEF InsertRefused, Relookup
<1>11. CASE InsertKey(r)
  <2> DEFINE t == [tx[r] EXCEPT !.keyed = TRUE]
  <2>1. CASE /\ req[r].key \notin DOMAIN keys \/ tx[r].clear
             /\ Goto(r, "commit", t)
    <3>1. t.stale = tx[r].stale /\ t.clear = tx[r].clear /\ t.keyed = TRUE
      BY <1>0 DEF Transaction
    <3> HIDE DEF t
    <3>2. tx'[r] = t /\ pc'[r] = "commit" /\ UNCHANGED <<bookings, keys, req>> BY <1>3, <2>1
    <3>3. KeyOwned(r)' BY <1>0, <2>1, <3>1, <3>2 DEF KeyOwned
    <3> QED BY <1>3, <1>11, <2>1, <3>3, StepKeyInv DEF InsertKey
  <2> QED BY <1>4, <1>11, <2>1 DEF InsertKey
<1> QED BY <1>6, <1>7, <1>8, <1>9, <1>10, <1>11

\* The commit of a hold points its key, which nobody else is writing, to the
\* row it adds.
LEMMA CommitHoldKeyInv ==
  ASSUME StoreInv, [Next]_vars, KeyInv, NEW r \in Req, CommitHold(r)
  PROVE  KeyInv'
<1> DEFINE n == tx[r].new
<1>0. RowsMove /\ OneActivePerSeat'
  BY NextMoves, NextIndexInv DEF StoreInv, IndexInv
<1>1. /\ tx'[r] = NoTx /\ pc'[r] = "idle"
      /\ \A q \in Req \ {r} : tx'[q] = tx[q] /\ req'[q] = req[q] /\ pc'[q] = pc[q]
  BY CommitHoldRows DEF StoreInv
<1>2. /\ n \notin DOMAIN bookings /\ DOMAIN bookings' = DOMAIN bookings \cup {n}
      /\ bookings'[n] = NewRow(r)
  BY CommitHoldRows DEF StoreInv
<1>3. req[r].key # NoKey => TouchesKey(r)
  BY DEF KeyInv, KeyOwned, CommitHold, TouchesKey
<1>4. /\ \A k \in DOMAIN keys : k # req[r].key => k \in DOMAIN keys' /\ keys'[k] = keys[k]
      /\ \A k \in DOMAIN keys' : \/ k \in DOMAIN keys /\ keys'[k] = keys[k] /\ k # req[r].key
                                 \/ k = req[r].key /\ k # NoKey /\ keys'[k].booking = n
  BY StoreAssumption DEF CommitHold, StoreInv, Typed, TypeOK
<1>5. NoTx.stale = None /\ NoTx.clear = FALSE /\ NoTx.keyed = FALSE
  BY DEF NoTx
<1>6. KeyOwned(r)' /\ ~TouchesKey(r)'
  BY <1>1, <1>5, NoKeyOwned
<1>7. ASSUME NEW q \in Req \ {r} PROVE KeyOwned(q)'
  <2>1. KeyOwned(q) BY DEF KeyInv
  <2>2. TouchesKey(q) /\ req[r].key # NoKey => req[q].key # req[r].key
    BY <1>3 DEF KeyInv, KeysExclusive
  <2>3. CASE req[r].key = NoKey
    <3>1. keys' = keys BY <2>3 DEF CommitHold
    <3> QED BY <1>0, <1>1, <2>1, <3>1, OthersOwnKeys DEF KeyOwned
  <2>4. CASE req[r].key # NoKey
    <3>1. tx[q].clear => req[q].key \in DOMAIN keys' /\ keys'[req[q].key] = keys[req[q].key]
      BY <1>4, <2>1, <2>2, <2>4 DEF KeyOwned, TouchesKey
    <3>2. tx[q].keyed => (req[q].key \in DOMAIN keys' => req[q].key \in DOMAIN keys)
      BY <1>4, <2>2, <2>4 DEF TouchesKey
    <3> QED BY <1>0, <1>1, <2>1, <3>1, <3>2, OthersOwnKeys
  <2> QED BY <2>3, <2>4
<1>8. KeysExclusive'
  BY <1>1, <1>6 DEF KeyInv, KeysExclusive, TouchesKey
<1>9. KeysLead'
  <2> SUFFICES ASSUME NEW k \in DOMAIN keys'
               PROVE  /\ keys'[k].booking \in DOMAIN bookings'
                      /\ \A i \in DOMAIN bookings' :
                           /\ Active(i)' /\ bookings'[i].key = k
                           /\ bookings'[i].seat = bookings'[keys'[k].booking].seat
                           => i = keys'[k].booking
    BY DEF KeysLead
  <2>1. \A i \in DOMAIN bookings :
          /\ bookings'[i].seat = bookings[i].seat /\ bookings'[i].key = bookings[i].key
          /\ Active(i)' => Active(i)
    BY <1>0, RowsKeepKey DEF RowsMove, RowMoves, Active, Held
  <2>2. CASE keys'[k].booking = n
    <3>1. PICK m : m = n OBVIOUS
    <3>2. m \in DOMAIN bookings' /\ Active(m)' BY <1>2, <3>1 DEF Active, NewRow
    <3> QED BY <1>0, <2>2, <3>1, <3>2 DEF OneActivePerSeat
  <2>3. CASE k \in DOMAIN keys /\ keys'[k] = keys[k] /\ k # req[r].key
    <3>1. bookings'[n].key # k BY <1>2, <2>3 DEF NewRow
    <3>2. keys[k].booking \in DOMAIN bookings BY <2>3 DEF KeyInv, KeysLead
    <3> QED BY <1>2, <2>1, <2>3, <3>1, <3>2 DEF KeyInv, KeysLead
  <2> QED BY <1>4, <2>2, <2>3
<1> QED BY <1>6, <1>7, <1>8, <1>9 DEF KeyInv

\* Every step keeps the keys in order.
LEMMA NextKeyInv == StoreInv /\ KeyInv /\ [Next]_vars => KeyInv'
<1> SUFFICES ASSUME StoreInv, KeyInv, [Next]_vars PROVE KeyInv'
  OBVIOUS
<1>0. RowsMove BY NextMoves DEF StoreInv
<1>1. NoTx.stale = None /\ NoTx.clear = FALSE /\ NoTx.keyed = FALSE
  BY DEF NoTx
<1>2. ASSUME NEW r \in Req, tx'[r] = NoTx, pc'[r] # "commit", UNCHANGED keys,
             DOMAIN bookings' = DOMAIN bookings,
             \A q \in Req \ {r} : tx'[q] = tx[q] /\ req'[q] = req[q] /\ pc'[q] = pc[q]
      PROVE  KeyInv'
  <2>1. KeyOwned(r)' /\ ~TouchesKey(r)' BY <1>1, <1>2, NoKeyOwned
  <2> QED BY <1>2, <2>1, StepKeyInv
<1>3. ASSUME NEW r \in Req, NEW kind, NEW id, Answer(r, kind, id), UNCHANGED keys,
             DOMAIN bookings' = DOMAIN bookings
      PROVE  KeyInv'
  BY <1>2, <1>3 DEF Answer, StoreInv, Typed, TypeOK
<1>4. ASSUME NEW r \in Req, CommitCancel(r) \/ RowMissed(r) \/ ConfirmHold(r) \/ ReleaseHold(r)
             \/ Fail(r)
      PROVE  KeyInv'
  <2>1. UNCHANGED keys /\ DOMAIN bookings' = DOMAIN bookings
    BY <1>4 DEF CommitCancel, RowMissed, ConfirmHold, ReleaseHold, Fail, tables
  <2> QED BY <1>3, <1>4, <2>1 DEF CommitCancel, RowMissed, ConfirmHold, ReleaseHold, Fail
<1>5. ASSUME NEW r \in Req, CancelRow(r) PROVE KeyInv'
  <2>1. /\ UNCHANGED <<bookings, keys, req>> /\ pc'[r] = "commit" /\ pc[r] = "row"
        /\ req[r].op = "cancel"
        /\ tx'[r].stale = tx[r].stale /\ tx'[r].clear = tx[r].clear /\ tx'[r].keyed = tx[r].keyed
        /\ \A q \in Req \ {r} : tx'[q] = tx[q] /\ req'[q] = req[q] /\ pc'[q] = pc[q]
    BY <1>5 DEF CancelRow, Goto, tables, StoreInv, Typed, TypeOK, Transaction
  <2>2. KeyOwned(r)' /\ ~TouchesKey(r)'
    BY <2>1 DEF KeyInv, KeyOwned, TouchesKey
  <2> QED BY <2>1, <2>2, StepKeyInv
<1>6. ASSUME NEW r \in Req, PlaceHold(r) PROVE KeyInv'
  <2>1. /\ UNCHANGED <<bookings, keys, tx>> /\ pc[r] = "idle" /\ pc'[r] \in {"begin", "lookup"}
        /\ \A q \in Req \ {r} : req'[q] = req[q] /\ pc'[q] = pc[q]
    BY <1>6 DEF PlaceHold, FirstStatement, tables, StoreInv, Typed, TypeOK
  <2>2. KeyOwned(r)' /\ ~TouchesKey(r)'
    BY <2>1 DEF KeyInv, KeyOwned, TouchesKey
  <2> QED BY <2>1, <2>2, StepKeyInv
<1>7. ASSUME NEW r \in Req, StartRowOp(r) PROVE KeyInv'
  <2>1. /\ UNCHANGED <<bookings, keys>> /\ pc'[r] = "row"
        /\ tx'[r].stale = None /\ tx'[r].clear = FALSE /\ tx'[r].keyed = FALSE
        /\ \A q \in Req \ {r} : tx'[q] = tx[q] /\ req'[q] = req[q] /\ pc'[q] = pc[q]
    BY <1>7 DEF StartRowOp, NoTx, tables, StoreInv, Typed, TypeOK
  <2>2. KeyOwned(r)' /\ ~TouchesKey(r)' BY <2>1, NoKeyOwned
  <2> QED BY <2>1, <2>2, StepKeyInv
<1>8. ASSUME NEW r \in Req, DeadlockAbort(r) PROVE KeyInv'
  <2>1. /\ UNCHANGED <<bookings, keys>> /\ tx'[r] = NoTx /\ pc'[r] # "commit"
        /\ \A q \in Req \ {r} : tx'[q] = tx[q] /\ req'[q] = req[q] /\ pc'[q] = pc[q]
    BY <1>8 DEF DeadlockAbort, Answer, FirstStatement, tables, StoreInv, Typed, TypeOK
  <2> QED BY <1>2, <2>1
<1>9. CASE SweepExpiredHolds \/ Tick \/ UNCHANGED vars
  <2>1. UNCHANGED <<keys, pc, req, tx>> /\ DOMAIN bookings' = DOMAIN bookings
    <3>1. CASE SweepExpiredHolds BY <3>1 DEF SweepExpiredHolds
    <3>2. CASE Tick \/ UNCHANGED vars BY <3>2 DEF Tick, vars, tables
    <3> QED BY <1>9, <3>1, <3>2
  <2>2. \A q \in Req : KeyOwned(q)'
    BY <1>0, <2>1, OthersOwnKeys DEF KeyInv, KeyOwned
  <2>3. KeysExclusive' BY <2>1 DEF KeyInv, KeysExclusive, TouchesKey
  <2>4. KeysLead' BY <1>0, <2>1, StillLead DEF KeyInv
  <2> QED BY <2>2, <2>3, <2>4 DEF KeyInv
<1>10. CASE PruneIdempotencyKeys
  <2>1. PICK batch \in SUBSET DOMAIN keys :
          /\ \A k \in batch : \A q \in Req : tx[q].clear => req[q].key # k
          /\ keys' = [k \in DOMAIN keys \ batch |-> keys[k]]
          /\ UNCHANGED <<bookings, pc, req, tx>>
    BY <1>10 DEF PruneIdempotencyKeys, OldestBatch
  <2>2. \A q \in Req : KeyOwned(q)'
    <3> SUFFICES ASSUME NEW q \in Req PROVE KeyOwned(q)' OBVIOUS
    <3>1. KeyOwned(q) BY DEF KeyInv
    <3>2. tx[q].clear => req[q].key \in DOMAIN keys' /\ keys'[req[q].key] = keys[req[q].key]
      BY <2>1, <3>1 DEF KeyOwned
    <3> QED BY <1>0, <2>1, <3>1, <3>2, OthersOwnKeys
  <2>3. KeysExclusive' BY <2>1 DEF KeyInv, KeysExclusive, TouchesKey
  <2>4. KeysLead' BY <1>0, <2>1, StillLead DEF KeyInv
  <2> QED BY <2>2, <2>3, <2>4 DEF KeyInv
<1>11. ASSUME NEW r \in Req, Statement(r) PROVE KeyInv'
  BY <1>4, <1>5, <1>11, PlaceKeyInv, CommitHoldKeyInv DEF Statement
<1> QED BY <1>4, <1>6, <1>7, <1>8, <1>9, <1>10, <1>11 DEF Next

\* The invariants about transactions, their reasons and their keys, together.
LEMMA KeyInvariant == Spec => [](StoreInv /\ WritesReasoned /\ KeyInv)
<1>1. Init => KeyInv
  <2> SUFFICES ASSUME Init PROVE KeyInv OBVIOUS
  <2>1. NoTx.stale = None /\ NoTx.clear = FALSE /\ NoTx.keyed = FALSE BY DEF NoTx
  <2> QED BY <2>1 DEF Init, KeyInv, KeyOwned, KeysExclusive, KeysLead, TouchesKey
<1> QED BY <1>1, NextKeyInv, StoreInvariant, PTL DEF Spec

\* Which answers end a request, and in what state they are given.
LEMMA AnswerSteps ==
  ASSUME StoreInv, [Next]_vars, NEW r \in Req, pc[r] # "idle", pc'[r] = "idle"
  PROVE  \/ /\ reply'.kind = "replay" /\ reply'.id = keys[req[r].key].booking
            /\ IdemState(req[r]) = "live" /\ UNCHANGED tables
         \/ reply'.kind = "held" /\ reply'.id = tx[r].new /\ CommitHold(r)
         \/ /\ reply'.kind = "seatUnavailable" /\ UNCHANGED tables
            /\ \/ InsertRefused(r) /\ req[r].key = NoKey
               \/ pc[r] \in {"relookup", "relookupKey"} /\ IdemState(req[r]) \in {"dead", "miss"}
         \/ reply'.kind \notin {"held", "replay", "seatUnavailable"}
<1>1. ASSUME NEW q \in Req, q # r,
             PlaceHold(q) \/ StartRowOp(q) \/ Statement(q) \/ Fail(q) \/ DeadlockAbort(q)
      PROVE  FALSE
  <2>1. pc'[r] = pc[r]
    BY <1>1 DEF PlaceHold, StartRowOp, Statement, Fail, DeadlockAbort, Lookup, Begin, AcquireLock,
       ClearStaleKey, ReleasePrevious, ReleaseRows, ExpireStale, ExpireRows, InsertBooking,
       InsertRefused, InsertKey, Relookup, CommitHold, CommitCancel, RowMissed, ConfirmHold,
       ReleaseHold, CancelRow, Answer, Goto, StoreInv, Typed, TypeOK
  <2> QED BY <2>1
<1>2. CASE SweepExpiredHolds \/ PruneIdempotencyKeys \/ Tick \/ UNCHANGED vars
  <2>1. pc' = pc
    <3>1. CASE SweepExpiredHolds BY <3>1 DEF SweepExpiredHolds
    <3>2. CASE PruneIdempotencyKeys BY <3>2 DEF PruneIdempotencyKeys
    <3>3. CASE Tick \/ UNCHANGED vars BY <3>3 DEF Tick, vars
    <3> QED BY <1>2, <3>1, <3>2, <3>3
  <2> QED BY <2>1
<1>3. ASSUME NEW kind, NEW id, Answer(r, kind, id) PROVE reply'.kind = kind /\ reply'.id = id
  BY <1>3 DEF Answer
<1>4. ASSUME NEW stmt, NEW t, Goto(r, stmt, t), stmt # "idle" PROVE FALSE
  BY <1>4 DEF Goto, StoreInv, Typed, TypeOK
<1>5. CASE PlaceHold(r) \/ StartRowOp(r)
  BY <1>5 DEF PlaceHold, StartRowOp
<1>6. CASE DeadlockAbort(r)
  <2>1. Answer(r, "error", None)
    BY <1>6 DEF DeadlockAbort, FirstStatement, StoreInv, Typed, TypeOK
  <2> QED BY <1>3, <2>1
<1>7. CASE Fail(r) \/ CommitCancel(r) \/ RowMissed(r) \/ ConfirmHold(r) \/ ReleaseHold(r)
  BY <1>3, <1>7 DEF Fail, CommitCancel, RowMissed, ConfirmHold, ReleaseHold, NoRow
<1>8. CASE CommitHold(r)
  BY <1>3, <1>8 DEF CommitHold
<1>9. CASE \/ Begin(r) \/ AcquireLock(r) \/ ClearStaleKey(r) \/ ReleasePrevious(r)
           \/ ReleaseRows(r) \/ ExpireStale(r) \/ ExpireRows(r) \/ InsertBooking(r)
           \/ InsertKey(r) \/ CancelRow(r)
  <2>1. CASE Begin(r) \/ AcquireLock(r) \/ ReleasePrevious(r) \/ ExpireStale(r)
    BY <1>4, <2>1 DEF Begin, AcquireLock, ReleasePrevious, ExpireStale
  <2>2. CASE ReleaseRows(r) \/ ExpireRows(r) \/ ClearStaleKey(r)
    BY <1>4, <2>2 DEF ReleaseRows, ExpireRows, ClearStaleKey
  <2>3. CASE InsertBooking(r) \/ InsertKey(r) \/ CancelRow(r)
    BY <1>4, <2>3 DEF InsertBooking, InsertKey, CancelRow
  <2> QED BY <1>9, <2>1, <2>2, <2>3
<1>10. CASE Lookup(r)
  BY <1>3, <1>4, <1>10 DEF Lookup
<1>11. CASE InsertRefused(r)
  BY <1>3, <1>4, <1>11 DEF InsertRefused
<1>12. CASE Relookup(r)
  BY <1>3, <1>12 DEF Relookup
<1> QED BY <1>1, <1>2, <1>5, <1>6, <1>7, <1>8, <1>9, <1>10, <1>11, <1>12 DEF Next, Statement

\* Nobody is answered with a stranger's booking: a placed or replayed hold is
\* on the seat and of the buyer that the request named.
THEOREM AnswersAreOwn == Spec => AnswerIsOwnBooking
<1> DEFINE A == \A r \in Req :
       pc[r] # "idle" /\ pc'[r] = "idle" /\ reply'.kind \in {"held", "replay"} =>
         /\ reply'.id \in DOMAIN bookings'
         /\ bookings'[reply'.id].seat = req[r].seat
         /\ bookings'[reply'.id].buyer = req[r].buyer
<1>1. StoreInv /\ KeyInv /\ [Next]_vars => A
  <2> SUFFICES ASSUME StoreInv, KeyInv, [Next]_vars, NEW r \in Req,
                      pc[r] # "idle", pc'[r] = "idle", reply'.kind \in {"held", "replay"}
               PROVE  /\ reply'.id \in DOMAIN bookings'
                      /\ bookings'[reply'.id].seat = req[r].seat
                      /\ bookings'[reply'.id].buyer = req[r].buyer
    OBVIOUS
  <2>1. CASE reply'.kind = "held"
    <3>1. CommitHold(r) /\ reply'.id = tx[r].new BY <2>1, AnswerSteps
    <3>2. tx[r].new \in DOMAIN bookings' /\ bookings'[tx[r].new] = NewRow(r)
      BY <3>1, CommitHoldRows DEF StoreInv
    <3> QED BY <3>1, <3>2 DEF NewRow
  <2>2. CASE reply'.kind = "replay"
    <3>1. /\ IdemState(req[r]) = "live" /\ UNCHANGED tables
          /\ reply'.id = keys[req[r].key].booking
      BY <2>2, AnswerSteps
    <3>2. /\ req[r].key \in DOMAIN keys
          /\ bookings[keys[req[r].key].booking].seat = req[r].seat
          /\ bookings[keys[req[r].key].booking].buyer = req[r].buyer
      BY <3>1 DEF IdemState
    <3>3. keys[req[r].key].booking \in DOMAIN bookings
      BY <3>2 DEF KeyInv, KeysLead
    <3> QED BY <3>1, <3>2, <3>3 DEF tables
  <2> QED BY <2>1, <2>2
<1> QED BY <1>1, KeyInvariant, PTL DEF Spec, AnswerIsOwnBooking

\* A key never loses an active booking: it is given to another booking only in
\* a commit that leaves the old one expired or cancelled, and pruned only when
\* its retention is over.
THEOREM KeysKeepActiveBookings == Spec => KeysLeaveDeadBookingsOnly
<1> DEFINE A == \A k \in DOMAIN keys :
       LET i == keys[k].booking
       IN  IF k \in DOMAIN keys'
           THEN keys'[k] = keys[k] \/ bookings'[i].status \in {"expired", "cancelled"}
           ELSE keys[k].created + Retention < clock
<1>1. StoreInv /\ KeyInv /\ [Next]_vars => A
  <2> SUFFICES ASSUME StoreInv, KeyInv, [Next]_vars, NEW k \in DOMAIN keys
               PROVE  IF k \in DOMAIN keys'
                      THEN \/ keys'[k] = keys[k]
                           \/ bookings'[keys[k].booking].status \in {"expired", "cancelled"}
                      ELSE keys[k].created + Retention < clock
    OBVIOUS
  <2>0. keys[k].created \in Nat /\ clock \in Nat /\ Retention \in Nat
    BY StoreAssumption DEF StoreInv, Typed, TypeOK, KeyRow
  <2>1. CASE UNCHANGED keys BY <2>1
  <2>2. CASE PruneIdempotencyKeys
    <3>1. PICK batch \in SUBSET DOMAIN keys :
            /\ \A j \in batch : keys[j].created < clock - Retention
            /\ keys' = [j \in DOMAIN keys \ batch |-> keys[j]]
      BY <2>2 DEF PruneIdempotencyKeys, OldestBatch
    <3>2. k \in batch => keys[k].created + Retention < clock BY <2>0, <3>1
    <3> QED BY <3>1, <3>2
  <2>3. ASSUME NEW r \in Req, CommitHold(r)
        PROVE  /\ k \in DOMAIN keys'
               /\ \/ keys'[k] = keys[k]
                  \/ bookings'[keys[k].booking].status \in {"expired", "cancelled"}
    <3>1. CASE req[r].key = NoKey \/ k # req[r].key
      BY <2>3, <3>1 DEF CommitHold
    <3>2. CASE req[r].key # NoKey /\ k = req[r].key
      <4> DEFINE i == keys[k].booking
      <4>1. i \in DOMAIN bookings /\ bookings[i].seat = req[r].seat
        BY <2>3, <3>2 DEF KeyInv, KeyOwned, CommitHold
      <4>2. CASE Active(i)
        <5>1. SeatRivals(r) = {}
          BY <2>3, CommitHoldRows DEF StoreInv, IndexInv, InsertedRowsFit
        <5>2. i \in Writes(r) BY <4>1, <4>2, <5>1 DEF SeatRivals
        <5>3. bookings'[i].status \in {"cancelled", "expired"}
          BY <2>3, <4>1, <5>2, CommitHoldRows DEF StoreInv
        <5> QED BY <2>3, <3>2, <5>3 DEF CommitHold
      <4>3. CASE ~Active(i)
        <5>1. bookings[i].status \in {"expired", "cancelled"}
          BY <4>1, <4>3 DEF Active, StoreInv, Typed, TypeOK, Booking, Status
        <5>2. bookings'[i] = bookings[i]
          BY <4>1, <5>1, NextMoves DEF StoreInv, RowsMove, RowMoves, Held
        <5> QED BY <2>3, <3>2, <5>1, <5>2 DEF CommitHold
      <4> QED BY <4>2, <4>3
    <3> QED BY <3>1, <3>2
  <2>4. \/ UNCHANGED keys \/ PruneIdempotencyKeys
        \/ \E r \in Req : CommitHold(r)
    <3>1. ASSUME NEW r \in Req, Statement(r) PROVE CommitHold(r) \/ UNCHANGED keys
      BY <3>1 DEF Statement, Lookup, Begin, AcquireLock, ClearStaleKey, ReleasePrevious,
         ReleaseRows, ExpireStale, ExpireRows, InsertBooking, InsertRefused, InsertKey, Relookup,
         CommitCancel, RowMissed, ConfirmHold, ReleaseHold, CancelRow, Goto, tables
    <3>2. ASSUME NEW r \in Req, PlaceHold(r) \/ StartRowOp(r) \/ Fail(r) \/ DeadlockAbort(r)
          PROVE  UNCHANGED keys
      BY <3>2 DEF PlaceHold, StartRowOp, Fail, DeadlockAbort, tables
    <3>3. CASE SweepExpiredHolds BY <3>3 DEF SweepExpiredHolds
    <3>4. CASE Tick \/ UNCHANGED vars BY <3>4 DEF Tick, vars, tables
    <3> QED BY <3>1, <3>2, <3>3, <3>4 DEF Next
  <2> QED BY <2>1, <2>2, <2>3, <2>4
<1> QED BY <1>1, KeyInvariant, PTL DEF Spec, KeysLeaveDeadBookingsOnly

\* A retry that races its original is replayed or told of another booking, but
\* never answered with a conflict with the live booking of its own key.
THEOREM RetriesMeetNoFalseConflict == Spec => NoFalseConflict
<1> DEFINE A == \A r \in Req :
       /\ pc[r] # "idle" /\ pc'[r] = "idle" /\ reply'.kind = "seatUnavailable"
       /\ req[r].key \in DOMAIN keys
       => \A i \in DOMAIN bookings :
            Live(i) /\ bookings[i].seat = req[r].seat /\ bookings[i].buyer = req[r].buyer
              => bookings[i].key # req[r].key
<1>1. StoreInv /\ KeyInv /\ [Next]_vars => A
  <2> SUFFICES ASSUME StoreInv, KeyInv, [Next]_vars, NEW r \in Req,
                      pc[r] # "idle", pc'[r] = "idle", reply'.kind = "seatUnavailable",
                      req[r].key \in DOMAIN keys, NEW i \in DOMAIN bookings,
                      Live(i), bookings[i].seat = req[r].seat, bookings[i].key = req[r].key
               PROVE  FALSE
    OBVIOUS
  <2> DEFINE j == keys[req[r].key].booking
  <2>1. req[r].key # NoKey
    BY StoreAssumption DEF StoreInv, Typed, TypeOK
  <2>2. IdemState(req[r]) = "dead"
    <3>1. IdemState(req[r]) \in {"dead", "miss"} BY <2>1, AnswerSteps
    <3> QED BY <3>1 DEF IdemState
  <2>3. bookings[j].seat = req[r].seat /\ ~Live(j)
    BY <2>2 DEF IdemState
  <2>4. Active(i) BY DEF Live, Active, Held
  <2>5. i = j BY <2>3, <2>4 DEF KeyInv, KeysLead
  <2> QED BY <2>3, <2>5
<1> QED BY <1>1, KeyInvariant, PTL DEF Spec, NoFalseConflict

-----------------------------------------------------------------------------
(***************************************************************************)
(* Losers.  placeHold expires the dead hold of its seat before it inserts, *)
(* so a row that still refuses the INSERT came alive later, or is sold.    *)
(***************************************************************************)
\* REQUEST_TIMEOUT (2s unless configured) ends a transaction well before
\* HOLD_TTL (5 minutes): no hold is committed after it has run out.
CommitsInTime ==
  \A r \in Req : pc[r] = "commit" /\ req[r].op = "hold" => clock <= tx[r].now + TTL

\* A hold that would refuse r's INSERT has not run out for r's transaction, or
\* is one that r is about to expire.
RivalsFresh(r) ==
  \A i \in SeatRivals(r) : Held(i) =>
    /\ pc[r] = "insert" => bookings[i].expires >= tx[r].now
    /\ pc[r] = "expireRows" => bookings[i].expires >= tx[r].now \/ i \in tx[r].wait

\* A row that appears has not run out.
LEMMA NewRowsFresh ==
  ASSUME StoreInv, CommitsInTime, [Next]_vars, NEW i \in DOMAIN bookings' \ DOMAIN bookings
  PROVE  bookings'[i].expires >= clock
<1>1. PICK r \in Req : CommitHold(r)
  BY TableStepsOnly DEF TableSteps, CommitCancel, ConfirmHold, ReleaseHold, SweepExpiredHolds
<1>2. i = tx[r].new /\ bookings'[i] = NewRow(r)
  <2>1. Typed /\ IndexInv BY DEF StoreInv
  <2>2. /\ DOMAIN bookings' = DOMAIN bookings \cup {tx[r].new}
        /\ bookings'[tx[r].new] = NewRow(r)
    BY <1>1, <2>1, CommitHoldRows
  <2> QED BY <2>2
<1>3. clock <= tx[r].now + TTL BY <1>1 DEF CommitHold, CommitsInTime
<1> QED BY <1>2, <1>3, StoreAssumption DEF NewRow, StoreInv, Typed, TypeOK, Transaction

\* The two statements that lead to the INSERT take care of every dead hold.
LEMMA ExpireFresh ==
  ASSUME StoreInv, NEW r \in Req, RivalsFresh(r), ExpireStale(r) \/ ExpireRows(r)
  PROVE  RivalsFresh(r)'
<1>0. /\ tx[r] \in Transaction /\ tx[r].now \in Nat
      /\ \A i \in DOMAIN bookings : bookings[i].expires \in Nat
      /\ WritesFollowStatements
  BY DEF StoreInv, LockInv, Typed, TypeOK, Transaction, Booking
<1>1. UNCHANGED <<bookings, req>>
  BY DEF ExpireStale, ExpireRows, Goto, tables
<1>2. CASE ExpireStale(r)
  <2>1. /\ pc'[r] = IF DeadHolds(r) = {} THEN "insert" ELSE "expireRows"
        /\ tx'[r].now = tx[r].now /\ tx'[r].wait = DeadHolds(r)
        /\ tx'[r].cancels = tx[r].cancels /\ tx'[r].expires = tx[r].expires
    BY <1>0, <1>2 DEF ExpireStale, Goto, StoreInv, Typed, TypeOK, Transaction
  <2>2. SeatRivals(r)' = SeatRivals(r)
    BY <1>1, <2>1 DEF SeatRivals, Writes, Active
  <2>3. \A i \in SeatRivals(r) : Held(i) => i \in DeadHolds(r) \/ bookings[i].expires >= tx[r].now
    BY <1>0 DEF SeatRivals, DeadHolds
  <2> QED BY <1>1, <2>1, <2>2, <2>3 DEF RivalsFresh, Held
<1>3. CASE ExpireRows(r)
  <2>1. /\ pc[r] = "expireRows" /\ pc'[r] = "insert" /\ tx'[r].now = tx[r].now
        /\ tx'[r].cancels = tx[r].cancels /\ tx'[r].expires = {i \in tx[r].wait : Held(i)}
    BY <1>0, <1>3 DEF ExpireRows, Goto, StoreInv, Typed, TypeOK, Transaction
  <2>2. tx[r].expires = {}
    BY <1>0, <2>1 DEF WritesFollowStatements
  <2>3. \A i \in SeatRivals(r)' : i \in SeatRivals(r) /\ (Held(i) => i \notin tx[r].wait)
    BY <1>1, <2>1, <2>2 DEF SeatRivals, Writes, Active
  <2> QED BY <1>1, <2>1, <2>3 DEF RivalsFresh, Held
<1> QED BY <1>2, <1>3

\* While commits are in time, what refuses an INSERT is alive for it.
LEMMA NextFresh ==
  ASSUME StoreInv, WritesReasoned, CommitsInTime, \A r \in Req : RivalsFresh(r), [Next]_vars
  PROVE  \A r \in Req : RivalsFresh(r)'
<1> SUFFICES ASSUME NEW r \in Req, pc'[r] \in {"insert", "expireRows"}, ~ExpireStale(r), ~ExpireRows(r)
             PROVE  RivalsFresh(r)'
  BY ExpireFresh DEF RivalsFresh
<1>1. tx'[r] = tx[r] /\ req'[r] = req[r] /\ pc'[r] = pc[r]
  <2>1. ASSUME NEW q \in Req, q # r,
               PlaceHold(q) \/ StartRowOp(q) \/ Statement(q) \/ Fail(q) \/ DeadlockAbort(q)
        PROVE  tx'[r] = tx[r] /\ req'[r] = req[r] /\ pc'[r] = pc[r]
    BY <2>1 DEF PlaceHold, StartRowOp, Statement, Fail, DeadlockAbort, Lookup, Begin, AcquireLock,
       ClearStaleKey, ReleasePrevious, ReleaseRows, ExpireStale, ExpireRows, InsertBooking,
       InsertRefused, InsertKey, Relookup, CommitHold, CommitCancel, RowMissed, ConfirmHold,
       ReleaseHold, CancelRow, Answer, Goto, StoreInv, Typed, TypeOK
  <2>2. CASE SweepExpiredHolds \/ PruneIdempotencyKeys \/ Tick \/ UNCHANGED vars
    <3>1. CASE SweepExpiredHolds BY <3>1 DEF SweepExpiredHolds
    <3>2. CASE PruneIdempotencyKeys BY <3>2 DEF PruneIdempotencyKeys
    <3>3. CASE Tick \/ UNCHANGED vars BY <3>3 DEF Tick, vars
    <3> QED BY <2>2, <3>1, <3>2, <3>3
  <2>3. ASSUME NEW stmt, NEW t, Goto(r, stmt, t), stmt \notin {"insert", "expireRows"} PROVE FALSE
    BY <2>3 DEF Goto, StoreInv, Typed, TypeOK
  <2>4. ASSUME NEW kind, NEW id, Answer(r, kind, id) PROVE FALSE
    BY <2>4 DEF Answer, StoreInv, Typed, TypeOK
  <2>5. CASE Lookup(r) \/ Begin(r) \/ AcquireLock(r) \/ InsertRefused(r) \/ Relookup(r)
    BY <2>3, <2>4, <2>5 DEF Lookup, Begin, AcquireLock, InsertRefused, Relookup
  <2>6. CASE ClearStaleKey(r) \/ ReleasePrevious(r) \/ ReleaseRows(r)
    BY <2>3, <2>6 DEF ClearStaleKey, ReleasePrevious, ReleaseRows
  <2>7. CASE InsertBooking(r) \/ InsertKey(r) \/ CancelRow(r)
    <3>1. CASE InsertBooking(r)
      <4>1. PICK i \in FreeId : Goto(r, IF req[r].key = NoKey THEN "commit" ELSE "insertKey",
                                     [tx[r] EXCEPT !.new = i])
        BY <3>1 DEF InsertBooking
      <4> QED BY <2>3, <4>1
    <3>2. CASE InsertKey(r) BY <2>3, <3>2 DEF InsertKey
    <3>3. CASE CancelRow(r) BY <2>3, <3>3 DEF CancelRow
    <3> QED BY <2>7, <3>1, <3>2, <3>3
  <2>8. CASE \/ CommitHold(r) \/ CommitCancel(r) \/ RowMissed(r) \/ ConfirmHold(r)
             \/ ReleaseHold(r) \/ Fail(r)
    BY <2>4, <2>8 DEF CommitHold, CommitCancel, RowMissed, ConfirmHold, ReleaseHold, Fail
  <2>9. CASE PlaceHold(r) \/ StartRowOp(r) \/ DeadlockAbort(r)
    BY <2>4, <2>9 DEF PlaceHold, StartRowOp, DeadlockAbort, FirstStatement, StoreInv, Typed, TypeOK
  <2> QED BY <2>1, <2>2, <2>5, <2>6, <2>7, <2>8, <2>9 DEF Next, Statement
<1>2. \A i \in DOMAIN bookings : /\ bookings'[i].seat = bookings[i].seat
                                 /\ Held(i)' => bookings'[i] = bookings[i]
  BY NextMoves DEF StoreInv, RowsMove, RowMoves, Held
<1>3. /\ tx[r].now \in Nat /\ clock \in Nat /\ tx[r].now <= clock
      /\ \A i \in DOMAIN bookings' : bookings'[i].expires \in Nat
  BY StoreAssumption, NextTyped DEF StoreInv, Typed, TypeOK, Transaction, Booking, WritesReasoned, Reasoned
<1> SUFFICES ASSUME NEW i \in SeatRivals(r)', Held(i)'
             PROVE  /\ pc[r] = "insert" => bookings'[i].expires >= tx[r].now
                    /\ pc[r] = "expireRows" => bookings'[i].expires >= tx[r].now \/ i \in tx[r].wait
  BY <1>1 DEF RivalsFresh
<1>4. CASE i \in DOMAIN bookings
  <2>1. i \in SeatRivals(r) /\ Held(i) /\ bookings'[i] = bookings[i]
    BY <1>1, <1>2, <1>4 DEF SeatRivals, Writes, Active, Held
  <2> QED BY <2>1 DEF RivalsFresh
<1>5. CASE i \notin DOMAIN bookings
  <2>1. i \in DOMAIN bookings' BY DEF SeatRivals
  <2>2. bookings'[i].expires >= clock BY <1>5, <2>1, NewRowsFresh
  <2> QED BY <1>3, <2>1, <2>2
<1> QED BY <1>4, <1>5

\* A loser has a winner: as long as no transaction outlives the hold it places,
\* a keyless placeHold is refused only for a sold row, or a hold that had not
\* run out when its transaction began.
THEOREM LosersLoseToWinners == Spec /\ []CommitsInTime => LosersHaveAWinner
<1> DEFINE I == StoreInv /\ WritesReasoned
           J == \A r \in Req : RivalsFresh(r)
           A == \A r \in Req :
                  /\ pc[r] = "insert" /\ pc'[r] = "idle" /\ reply'.kind = "seatUnavailable"
                  => \E i \in SeatRivals(r) \cup BuyerRivals(r) :
                       bookings[i].status = "confirmed" \/ bookings[i].expires >= tx[r].now
<1>1. Init => J
  BY DEF Init, RivalsFresh
<1>2. I /\ CommitsInTime /\ J /\ [Next]_vars => J'
  BY NextFresh
<1>3. I /\ J /\ [Next]_vars => A
  <2> SUFFICES ASSUME StoreInv, WritesReasoned, J, [Next]_vars, NEW r \in Req,
                      pc[r] = "insert", pc'[r] = "idle", reply'.kind = "seatUnavailable"
               PROVE  \E i \in SeatRivals(r) \cup BuyerRivals(r) :
                        bookings[i].status = "confirmed" \/ bookings[i].expires >= tx[r].now
    OBVIOUS
  <2>1. InsertRefused(r) BY AnswerSteps
  <2>2. PICK i \in SeatRivals(r) \cup BuyerRivals(r) : ~RowLocked(i, r)
    BY <2>1 DEF InsertRefused
  <2>3. i \in SeatRivals(r)
    BY <2>2 DEF StoreInv, LockInv, PreviousHoldsTaken, SeatRivals, BuyerRivals, Active, Held
  <2>4. Held(i) \/ bookings[i].status = "confirmed"
    BY <2>3 DEF SeatRivals, Active, Held
  <2> QED BY <2>3, <2>4 DEF RivalsFresh
<1> QED BY <1>1, <1>2, <1>3, StoreInvariant, PTL DEF Spec, LosersHaveAWinner
=============================================================================
