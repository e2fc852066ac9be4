--------------------------- MODULE StoreRefundProofs ---------------------------
(***************************************************************************)
(* The life of a booking row and its refund, for every instance of         *)
(* BookingStore.  A transaction changes at COMMIT what it locked earlier,  *)
(* so the argument is about uncommitted writes: the rows a transaction has *)
(* rewritten still are, when it commits, what its UPDATE found them to be. *)
(***************************************************************************)
EXTENDS BookingStoreProofs

Cancelling(r) == pc[r] = "commit" /\ req[r].op = "cancel"

OwnWrites(r) ==
  /\ pc[r] \in {"idle", "row", "lookup", "begin"} => tx[r].cancels = {} /\ tx[r].expires = {}
  /\ tx[r].wait \subseteq DOMAIN bookings
  /\ Cancelling(r) =>
       /\ tx[r].cancels = {req[r].id} /\ tx[r].expires = {}
       /\ req[r].id \in DOMAIN bookings /\ bookings[req[r].id].status = "confirmed"
  /\ ~Cancelling(r) => \A i \in Writes(r) : i \in DOMAIN bookings /\ Held(i)

WritesStand == \A r \in Req : OwnWrites(r)

\* confirmed_at tells a purchase from a hold, also after it has ended.
PurchasesMarked ==
  \A i \in DOMAIN bookings :
    /\ bookings[i].status \in {"held", "expired"} => bookings[i].confirmed = FALSE
    /\ bookings[i].status = "confirmed" => bookings[i].confirmed = TRUE

\* What a step may do to a row and its refunds.
RowMoves(i) ==
  /\ i \in DOMAIN bookings'
  /\ bookings'[i].seat = bookings[i].seat /\ bookings'[i].buyer = bookings[i].buyer
  /\ \/ bookings'[i] = bookings[i] /\ refunds'[i] = refunds[i]
     \/ /\ Held(i) /\ bookings'[i].status \in {"cancelled", "expired"}
        /\ bookings'[i].confirmed = bookings[i].confirmed /\ refunds'[i] = refunds[i]
     \/ /\ Held(i) /\ bookings'[i].status = "confirmed"
        /\ bookings'[i].confirmed = TRUE /\ refunds'[i] = refunds[i]
     \/ /\ bookings[i].status = "confirmed" /\ bookings'[i].status = "cancelled"
        /\ bookings'[i].confirmed = bookings[i].confirmed /\ refunds'[i] = refunds[i] + 1

RowsMove ==
  /\ \A i \in DOMAIN bookings : RowMoves(i)
  /\ \A i \in Id \ DOMAIN bookings :
       /\ refunds'[i] = refunds[i]
       /\ i \in DOMAIN bookings' => /\ bookings'[i].status = "held"
                                   /\ bookings'[i].confirmed = FALSE

\* A step of r that changes no row another transaction has rewritten.
LEMMA OthersStand ==
  ASSUME Typed, WritesStand, NEW r \in Req, OwnWrites(r)',
         DOMAIN bookings \subseteq DOMAIN bookings',
         \A q \in Req \ {r} : tx'[q] = tx[q] /\ req'[q] = req[q] /\ pc'[q] = pc[q],
         \A q \in Req \ {r} : \A i \in Writes(q) : bookings'[i] = bookings[i]
  PROVE  WritesStand'
<1> SUFFICES ASSUME NEW q \in Req \ {r} PROVE OwnWrites(q)'
  BY DEF WritesStand
<1>1. OwnWrites(q)
  BY DEF WritesStand
<1>2. Writes(q)' = Writes(q) /\ (Cancelling(q)' <=> Cancelling(q))
  BY DEF Writes, Cancelling
<1>3. Cancelling(q) => req[q].id \in Writes(q)
  BY <1>1 DEF OwnWrites, Writes
<1> QED BY <1>1, <1>2, <1>3 DEF OwnWrites, Held

\* A request that ends has written nothing.
LEMMA EndOwn ==
  ASSUME NEW r \in Req, tx'[r] = NoTx, pc'[r] # "commit"
  PROVE  OwnWrites(r)'
<1>1. NoTx.cancels = {} /\ NoTx.expires = {} /\ NoTx.wait = {}
  BY DEF NoTx
<1>2. Writes(r)' = {} /\ ~Cancelling(r)'
  BY <1>1 DEF Writes, Cancelling
<1> QED BY <1>1, <1>2 DEF OwnWrites

\* Steps that leave the tables alone.
LEMMA StillMoves == ASSUME Typed, UNCHANGED tables PROVE RowsMove
  BY DEF tables, RowsMove, RowMoves, Typed, TypeOK

\* Statements that move r on with the writes it has.
LEMMA GotoStands ==
  ASSUME Typed, WritesStand, NEW r \in Req, NEW stmt, NEW t, Goto(r, stmt, t),
         t.wait \subseteq DOMAIN bookings,
         stmt \in {"lookup", "begin"} => t.cancels = {} /\ t.expires = {},
         stmt \notin {"idle", "row"},
         \/ /\ stmt # "commit" \/ req[r].op # "cancel"
            /\ \A i \in t.cancels \cup t.expires : i \in DOMAIN bookings /\ Held(i)
         \/ /\ stmt = "commit" /\ req[r].op = "cancel" /\ t.cancels = {req[r].id} /\ t.expires = {}
            /\ req[r].id \in DOMAIN bookings /\ bookings[req[r].id].status = "confirmed"
  PROVE  RowsMove /\ WritesStand'
<1>1. /\ UNCHANGED <<tables, req>> /\ tx'[r] = t /\ pc'[r] = stmt
      /\ \A q \in Req \ {r} : tx'[q] = tx[q] /\ pc'[q] = pc[q]
  BY DEF Goto, Typed, TypeOK
<1>2. bookings' = bookings
  BY <1>1 DEF tables
<1>3. OwnWrites(r)'
  BY <1>1, <1>2 DEF OwnWrites, Cancelling, Writes, Held
<1> QED BY <1>1, <1>2, <1>3, StillMoves, OthersStand

\* A request that ends without changing the tables.
LEMMA AnswerStands ==
  ASSUME Typed, WritesStand, NEW r \in Req, NEW kind, NEW id, Answer(r, kind, id), UNCHANGED tables
  PROVE  RowsMove /\ WritesStand'
<1>1. /\ tx'[r] = NoTx /\ pc'[r] = "idle"
      /\ \A q \in Req \ {r} : tx'[q] = tx[q] /\ req'[q] = req[q] /\ pc'[q] = pc[q]
  BY DEF Answer, Typed, TypeOK
<1> QED BY <1>1, StillMoves, EndOwn, OthersStand DEF tables

\* A request that ends with a change of rows that no other transaction has.
LEMMA CommitStands ==
  ASSUME Typed, WritesStand, NEW r \in Req, NEW kind, NEW id, Answer(r, kind, id),
         DOMAIN bookings \subseteq DOMAIN bookings',
         \A q \in Req \ {r} : \A i \in Writes(q) : bookings'[i] = bookings[i]
  PROVE  WritesStand'
<1>1. /\ tx'[r] = NoTx /\ pc'[r] = "idle"
      /\ \A q \in Req \ {r} : tx'[q] = tx[q] /\ req'[q] = req[q] /\ pc'[q] = pc[q]
  BY DEF Answer, Typed, TypeOK
<1> QED BY <1>1, EndOwn, OthersStand

\* placeHold before its COMMIT.
LEMMA PlaceStands ==
  ASSUME Typed, WritesStand, NEW r \in Req,
         \/ Lookup(r) \/ Begin(r) \/ AcquireLock(r) \/ ClearStaleKey(r)
         \/ ReleasePrevious(r) \/ ReleaseRows(r) \/ ExpireStale(r) \/ ExpireRows(r)
         \/ InsertBooking(r) \/ InsertRefused(r) \/ InsertKey(r) \/ Relookup(r)
  PROVE  RowsMove /\ WritesStand'
<1>0. /\ tx[r] \in Transaction /\ req[r] \in HoldReq /\ req[r].op = "hold" /\ OwnWrites(r)
      /\ pc[r] \in HoldPc /\ ~Cancelling(r)
  BY ShapeOps DEF Typed, TypeOK, ReqShape, WritesStand, Cancelling, HoldPc, LockedPc, Lookup, Begin,
     AcquireLock, ClearStaleKey, ReleasePrevious, ReleaseRows, ExpireStale, ExpireRows,
     InsertBooking, InsertRefused, InsertKey, Relookup
<1>1. /\ tx[r].wait \subseteq DOMAIN bookings
      /\ \A i \in tx[r].cancels \cup tx[r].expires : i \in DOMAIN bookings /\ Held(i)
  BY <1>0 DEF OwnWrites, Writes
<1>2. NoTx.cancels = {} /\ NoTx.expires = {} /\ NoTx.wait = {}
  BY DEF NoTx
<1>3. CASE \E kind, id : Answer(r, kind, id) /\ UNCHANGED tables
  BY <1>3, AnswerStands
<1>4. ASSUME NEW stmt, NEW t, Goto(r, stmt, t), t.wait \subseteq DOMAIN bookings,
             stmt \in {"lookup", "begin"} => t.cancels = {} /\ t.expires = {},
             stmt \notin {"idle", "row"},
             \A i \in t.cancels \cup t.expires : i \in DOMAIN bookings /\ Held(i)
      PROVE  RowsMove /\ WritesStand'
  BY <1>0, <1>4, GotoStands
<1>5. CASE Lookup(r)
  <2>1. CASE Goto(r, "begin", NoTx) BY <1>2, <1>4, <2>1
  <2>2. CASE Goto(r, "begin", [NoTx EXCEPT !.stale = keys[req[r].key].booking])
    <3> DEFINE t == [NoTx EXCEPT !.stale = keys[req[r].key].booking]
    <3>1. t.cancels = {} /\ t.expires = {} /\ t.wait = {} BY DEF NoTx
    <3> HIDE DEF t
    <3>2. Goto(r, "begin", t) BY <2>2 DEF t
    <3> QED BY <1>4, <3>1, <3>2
  <2> QED BY <1>3, <1>5, <2>1, <2>2 DEF Lookup
<1>6. CASE Begin(r) \/ ClearStaleKey(r) \/ InsertBooking(r)
  <2>1. CASE Begin(r)
    <3>1. PICK t : Goto(r, "lock", t) /\ t.wait = tx[r].wait /\ t.cancels = tx[r].cancels
                   /\ t.expires = tx[r].expires
      BY <1>0, <2>1 DEF Begin, Transaction
    <3> QED BY <1>1, <1>4, <3>1
  <2>2. CASE ClearStaleKey(r)
    <3>1. PICK t : Goto(r, "release", t) /\ t.wait = tx[r].wait /\ t.cancels = tx[r].cancels
                   /\ t.expires = tx[r].expires
      BY <1>0, <2>2 DEF ClearStaleKey, Transaction
    <3> QED BY <1>1, <1>4, <3>1
  <2>3. CASE InsertBooking(r)
    <3>1. PICK i, stmt : /\ stmt \in {"commit", "insertKey"}
                         /\ Goto(r, stmt, [tx[r] EXCEPT !.new = i])
      BY <2>3 DEF InsertBooking
    <3> DEFINE t == [tx[r] EXCEPT !.new = i]
    <3>2. t.wait = tx[r].wait /\ t.cancels = tx[r].cancels /\ t.expires = tx[r].expires
      BY <1>0 DEF Transaction
    <3> HIDE DEF t
    <3>3. Goto(r, stmt, t) BY <3>1 DEF t
    <3> QED BY <1>1, <1>4, <3>1, <3>2, <3>3
  <2> QED BY <1>6, <2>1, <2>2, <2>3
<1>7. CASE AcquireLock(r)
  BY <1>1, <1>4, <1>7 DEF AcquireLock
<1>8. CASE ReleasePrevious(r) \/ ExpireStale(r)
  <2>1. PICK stmt, t : /\ Goto(r, stmt, t) /\ stmt \in {"expire", "releaseRows", "insert", "expireRows"}
                       /\ t.wait \subseteq DOMAIN bookings /\ t.cancels = tx[r].cancels
                       /\ t.expires = tx[r].expires
    BY <1>0, <1>8 DEF ReleasePrevious, ExpireStale, PreviousHolds, DeadHolds, Transaction
  <2> QED BY <1>1, <1>4, <2>1
<1>9. CASE ReleaseRows(r)
  <2> DEFINE t == [tx[r] EXCEPT !.wait = {}, !.cancels = {i \in tx[r].wait : Held(i)}]
  <2>1. /\ t.wait = {} /\ t.cancels = {i \in tx[r].wait : Held(i)} /\ t.expires = tx[r].expires
    BY <1>0 DEF Transaction
  <2> HIDE DEF t
  <2>2. Goto(r, "expire", t) BY <1>9 DEF ReleaseRows, t
  <2> QED BY <1>1, <1>4, <2>1, <2>2
<1>10. CASE ExpireRows(r)
  <2> DEFINE t == [tx[r] EXCEPT !.wait = {}, !.expires = {i \in tx[r].wait : Held(i)}]
  <2>1. /\ t.wait = {} /\ t.expires = {i \in tx[r].wait : Held(i)} /\ t.cancels = tx[r].cancels
    BY <1>0 DEF Transaction
  <2> HIDE DEF t
  <2>2. Goto(r, "insert", t) BY <1>10 DEF ExpireRows, t
  <2> QED BY <1>1, <1>4, <2>1, <2>2
<1>11. CASE InsertRefused(r) \/ Relookup(r)
  BY <1>2, <1>3, <1>4, <1>11 DEF InsertRefused, Relookup
<1>12. CASE InsertKey(r)
  <2>1. CASE Goto(r, "relookupKey", NoTx) BY <1>2, <1>4, <2>1
  <2>2. CASE Goto(r, "commit", [tx[r] EXCEPT !.keyed = TRUE])
    <3>1. PICK t : /\ Goto(r, "commit", t) /\ t.wait = tx[r].wait /\ t.cancels = tx[r].cancels
                   /\ t.expires = tx[r].expires
      BY <1>0, <2>2 DEF Transaction
    <3> QED BY <1>1, <1>4, <3>1
  <2> QED BY <1>12, <2>1, <2>2 DEF InsertKey
<1> QED BY <1>5, <1>6, <1>7, <1>8, <1>9, <1>10, <1>11, <1>12

\* The commits of a hold and of a cancellation change exactly the rows they
\* have locked, which are what they were when they were locked.
LEMMA CommitMoves ==
  ASSUME Typed, IndexInv, WritesStand, NEW r \in Req, CommitHold(r) \/ CommitCancel(r)
  PROVE  RowsMove /\ WritesStand'
<1>1. \A q \in Req \ {r} : Writes(q) \cap Writes(r) = {}
  BY DEF IndexInv, WritesDisjoint
<1>2. OwnWrites(r) /\ pc[r] = "commit"
  BY DEF WritesStand, CommitHold, CommitCancel
<1>3. \A i \in DOMAIN bookings : bookings[i] \in Booking /\ i \in Id
  BY DEF Typed, TypeOK
<1>4. \A q \in Req : \A i \in Writes(q) : i \in DOMAIN bookings
  BY DEF WritesStand, OwnWrites, Writes
<1>5. CASE CommitHold(r)
  <2>1. /\ DOMAIN bookings' = DOMAIN bookings \cup {tx[r].new} /\ tx[r].new \notin DOMAIN bookings
        /\ bookings'[tx[r].new] = NewRow(r) /\ refunds' = refunds
        /\ \A i \in DOMAIN bookings : bookings'[i] = RowAfter(r, i)
    BY <1>5, CommitHoldRows DEF CommitHold
  <2>2. ~Cancelling(r)
    BY <1>5 DEF CommitHold, Cancelling
  <2>3. \A i \in DOMAIN bookings \ Writes(r) : bookings'[i] = bookings[i]
    BY <2>1 DEF RowAfter, Writes
  <2>4. \A i \in Writes(r) : /\ Held(i) /\ bookings'[i].status \in {"cancelled", "expired"}
                            /\ bookings'[i].confirmed = bookings[i].confirmed
                            /\ bookings'[i].seat = bookings[i].seat
                            /\ bookings'[i].buyer = bookings[i].buyer
    BY <1>2, <1>3, <1>4, <2>1, <2>2 DEF RowAfter, Writes, OwnWrites, Booking
  <2>5. RowsMove
    BY <1>4, <2>1, <2>3, <2>4 DEF RowsMove, RowMoves, NewRow
  <2>6. \A q \in Req \ {r} : \A i \in Writes(q) : bookings'[i] = bookings[i]
    BY <1>1, <1>4, <2>3
  <2>7. DOMAIN bookings \subseteq DOMAIN bookings'
    BY <2>1
  <2> QED BY <1>5, <2>5, <2>6, <2>7, CommitStands DEF CommitHold
<1>6. CASE CommitCancel(r)
  <2>1. Cancelling(r)
    BY <1>6 DEF CommitCancel, Cancelling
  <2>2. tx[r].new = None /\ req[r].id \in Id
    BY <1>6, ShapeOps DEF CommitCancel, Typed, ReqShape
  <2>3. /\ Writes(r) = {req[r].id} /\ tx[r].cancels = {req[r].id}
        /\ req[r].id \in DOMAIN bookings /\ bookings[req[r].id].status = "confirmed"
    BY <1>2, <2>1 DEF OwnWrites, Writes
  <2>4. /\ DOMAIN bookings' = DOMAIN bookings
        /\ \A i \in DOMAIN bookings : bookings'[i] = RowAfter(r, i)
    BY <1>6 DEF CommitCancel
  <2>5. \A i \in DOMAIN bookings : i # tx[r].new
    BY <1>3, <2>2 DEF Id, None
  <2>6. \A i \in DOMAIN bookings \ {req[r].id} : bookings'[i] = bookings[i]
    BY <2>3, <2>4, <2>5 DEF RowAfter, Writes
  <2>7. bookings'[req[r].id] = [bookings[req[r].id] EXCEPT !.status = "cancelled"]
    BY <2>3, <2>4, <2>5 DEF RowAfter
  <2>8. /\ refunds'[req[r].id] = refunds[req[r].id] + 1
        /\ \A i \in Id \ {req[r].id} : refunds'[i] = refunds[i]
    BY <1>6, <2>2 DEF CommitCancel, Typed, TypeOK
  <2>9. RowMoves(req[r].id)
    BY <1>3, <2>3, <2>4, <2>7, <2>8 DEF RowMoves, Booking
  <2>10. RowsMove
    BY <1>3, <2>3, <2>4, <2>6, <2>8, <2>9 DEF RowsMove, RowMoves
  <2>11. \A q \in Req \ {r} : \A i \in Writes(q) : bookings'[i] = bookings[i]
    BY <1>1, <1>4, <2>3, <2>6
  <2> QED BY <1>6, <2>4, <2>10, <2>11, CommitStands DEF CommitCancel
<1> QED BY <1>5, <1>6

\* The compare-and-swap updates, of rows nobody has locked.
LEMMA RowOpMoves ==
  ASSUME Typed, WritesStand, NEW r \in Req,
         RowMissed(r) \/ ConfirmHold(r) \/ ReleaseHold(r) \/ CancelRow(r)
  PROVE  RowsMove /\ WritesStand'
<1> DEFINE n == req[r].id
<1>0. pc[r] = "row" /\ OwnWrites(r) /\ tx[r] \in Transaction
  BY DEF RowMissed, ConfirmHold, ReleaseHold, CancelRow, WritesStand, Typed, TypeOK
<1>1. \A i \in DOMAIN bookings : bookings[i] \in Booking /\ i \in Id
  BY DEF Typed, TypeOK
<1>2. CASE RowMissed(r)
  BY <1>2, AnswerStands DEF RowMissed
<1>3. CASE CancelRow(r)
  <2>1. n \in DOMAIN bookings /\ bookings[n].status = "confirmed" /\ req[r].op = "cancel"
    BY <1>3 DEF CancelRow, RowQualifies
  <2> DEFINE t == [tx[r] EXCEPT !.cancels = {n}]
  <2>2. t.cancels = {n} /\ t.expires = {} /\ t.wait \subseteq DOMAIN bookings
    BY <1>0 DEF OwnWrites, Transaction
  <2> HIDE DEF t
  <2>3. Goto(r, "commit", t)
    BY <1>3 DEF CancelRow, t
  <2> QED BY <2>1, <2>2, <2>3, GotoStands
<1>4. CASE ConfirmHold(r) \/ ReleaseHold(r)
  <2>1. n \in DOMAIN bookings /\ Held(n) /\ \A q \in Req \ {r} : n \notin Writes(q)
    BY <1>4 DEF ConfirmHold, ReleaseHold, RowQualifies, RowLocked
  <2>2. /\ DOMAIN bookings' = DOMAIN bookings /\ refunds' = refunds
        /\ \A i \in DOMAIN bookings \ {n} : bookings'[i] = bookings[i]
    BY <1>4 DEF ConfirmHold, ReleaseHold
  <2>3. /\ bookings'[n].seat = bookings[n].seat /\ bookings'[n].buyer = bookings[n].buyer
        /\ \/ bookings'[n].status = "confirmed" /\ bookings'[n].confirmed = TRUE
           \/ bookings'[n].status = "cancelled" /\ bookings'[n].confirmed = bookings[n].confirmed
    BY <1>1, <1>4, <2>1 DEF ConfirmHold, ReleaseHold, Booking
  <2>4. RowsMove
    BY <1>1, <2>1, <2>2, <2>3 DEF RowsMove, RowMoves
  <2>5. \A q \in Req : \A i \in Writes(q) : i \in DOMAIN bookings
    BY DEF WritesStand, OwnWrites, Writes
  <2>6. \A q \in Req \ {r} : \A i \in Writes(q) : bookings'[i] = bookings[i]
    BY <2>1, <2>2, <2>5
  <2> QED BY <1>4, <2>2, <2>4, <2>6, CommitStands DEF ConfirmHold, ReleaseHold
<1> QED BY <1>2, <1>3, <1>4

\* Steps that change no request and no row that a transaction has rewritten.
LEMMA FrameStands ==
  ASSUME Typed, WritesStand, UNCHANGED <<pc, req, tx>>,
         DOMAIN bookings \subseteq DOMAIN bookings',
         \A q \in Req : \A i \in Writes(q) : bookings'[i] = bookings[i]
  PROVE  WritesStand'
<1> SUFFICES ASSUME NEW q \in Req PROVE OwnWrites(q)'
  BY DEF WritesStand
<1>1. OwnWrites(q)
  BY DEF WritesStand
<1>2. Writes(q)' = Writes(q) /\ (Cancelling(q)' <=> Cancelling(q))
  BY DEF Writes, Cancelling
<1>3. Cancelling(q) => req[q].id \in Writes(q)
  BY <1>1 DEF OwnWrites, Writes
<1> QED BY <1>1, <1>2, <1>3 DEF OwnWrites, Held

\* Every step moves rows along their life, and leaves uncommitted writes valid.
LEMMA NextMoves == Typed /\ IndexInv /\ WritesStand /\ [Next]_vars => RowsMove /\ WritesStand'
<1> SUFFICES ASSUME Typed, IndexInv, WritesStand, [Next]_vars PROVE RowsMove /\ WritesStand'
  OBVIOUS
<1>1. ASSUME NEW r \in Req, PlaceHold(r) PROVE RowsMove /\ WritesStand'
  <2>1. /\ UNCHANGED tables /\ tx' = tx /\ pc[r] = "idle" /\ pc'[r] \in {"begin", "lookup"}
        /\ \A q \in Req \ {r} : req'[q] = req[q] /\ pc'[q] = pc[q]
    BY <1>1 DEF PlaceHold, FirstStatement, Typed, TypeOK
  <2>2. OwnWrites(r)'
    BY <2>1 DEF WritesStand, OwnWrites, Writes, Cancelling, tables
  <2> QED BY <2>1, <2>2, StillMoves, OthersStand DEF tables
<1>2. ASSUME NEW r \in Req, StartRowOp(r) PROVE RowsMove /\ WritesStand'
  <2>1. /\ UNCHANGED tables /\ pc'[r] = "row" /\ tx'[r] = [NoTx EXCEPT !.now = clock]
        /\ \A q \in Req \ {r} : tx'[q] = tx[q] /\ req'[q] = req[q] /\ pc'[q] = pc[q]
    BY <1>2 DEF StartRowOp, Typed, TypeOK
  <2>2. tx'[r].cancels = {} /\ tx'[r].expires = {} /\ tx'[r].wait = {}
    BY <2>1 DEF NoTx
  <2>3. OwnWrites(r)'
    BY <2>1, <2>2 DEF OwnWrites, Writes, Cancelling
  <2> QED BY <2>1, <2>3, StillMoves, OthersStand DEF tables
<1>3. ASSUME NEW r \in Req, Fail(r) PROVE RowsMove /\ WritesStand'
  BY <1>3, AnswerStands DEF Fail
<1>4. ASSUME NEW r \in Req, DeadlockAbort(r) PROVE RowsMove /\ WritesStand'
  <2>1. /\ UNCHANGED tables /\ tx'[r] = NoTx /\ pc'[r] \in {"idle", "begin", "lookup"}
        /\ \A q \in Req \ {r} : tx'[q] = tx[q] /\ req'[q] = req[q] /\ pc'[q] = pc[q]
    BY <1>4 DEF DeadlockAbort, Answer, FirstStatement, Typed, TypeOK
  <2> QED BY <2>1, StillMoves, EndOwn, OthersStand DEF tables
<1>5. CASE SweepExpiredHolds
  <2>1. PICK batch \in SUBSET DOMAIN bookings :
          /\ \A i \in batch : Held(i) /\ \A q \in Req : i \notin Writes(q)
          /\ bookings' = [i \in DOMAIN bookings |->
                            IF i \in batch THEN [bookings[i] EXCEPT !.status = "expired"]
                            ELSE bookings[i]]
          /\ UNCHANGED <<refunds, pc, req, tx>>
    BY <1>5 DEF SweepExpiredHolds, OldestBatch
  <2>2. \A i \in batch : /\ bookings'[i].seat = bookings[i].seat /\ bookings'[i].buyer = bookings[i].buyer
                        /\ bookings'[i].status = "expired"
                        /\ bookings'[i].confirmed = bookings[i].confirmed
    BY <2>1 DEF Typed, TypeOK, Booking
  <2>3. DOMAIN bookings' = DOMAIN bookings /\ \A i \in DOMAIN bookings \ batch : bookings'[i] = bookings[i]
    BY <2>1
  <2>4. RowsMove
    BY <2>1, <2>2, <2>3 DEF RowsMove, RowMoves, Typed, TypeOK
  <2>5. \A q \in Req : \A i \in Writes(q) : i \in DOMAIN bookings
    BY DEF WritesStand, OwnWrites, Writes
  <2> QED BY <2>1, <2>3, <2>4, <2>5, FrameStands
<1>6. CASE PruneIdempotencyKeys
  BY <1>6, FrameStands DEF PruneIdempotencyKeys, RowsMove, RowMoves, Typed, TypeOK
<1>7. CASE Tick \/ UNCHANGED vars
  BY <1>7, StillMoves, FrameStands DEF Tick, vars, tables
<1>8. ASSUME NEW r \in Req, Statement(r) PROVE RowsMove /\ WritesStand'
  BY <1>8, PlaceStands, CommitMoves, RowOpMoves DEF Statement
<1> QED BY <1>1, <1>2, <1>3, <1>4, <1>5, <1>6, <1>7, <1>8 DEF Next

\* Rows that move along their life keep the refunds right.
LEMMA MovesKeepRefunds ==
  ASSUME Typed, Typed', PurchasesMarked, RefundPerCancelledPurchase, RowsMove
  PROVE  PurchasesMarked' /\ RefundPerCancelledPurchase'
<1>1. DOMAIN bookings' \subseteq Id /\ DOMAIN bookings \subseteq Id
  BY DEF Typed, TypeOK
<1>2. PurchasesMarked'
  <2> SUFFICES ASSUME NEW i \in DOMAIN bookings'
               PROVE  /\ bookings'[i].status \in {"held", "expired"} => bookings'[i].confirmed = FALSE
                      /\ bookings'[i].status = "confirmed" => bookings'[i].confirmed = TRUE
    BY DEF PurchasesMarked
  <2>1. CASE i \in DOMAIN bookings
    <3>1. RowMoves(i)
      BY <2>1 DEF RowsMove
    <3> QED BY <2>1, <3>1 DEF RowMoves, PurchasesMarked, Held
  <2>2. CASE i \notin DOMAIN bookings
    BY <1>1, <2>2 DEF RowsMove
  <2> QED BY <2>1, <2>2
<1>3. RefundPerCancelledPurchase'
  <2> SUFFICES ASSUME NEW i \in Id
               PROVE  refunds'[i] = IF /\ i \in DOMAIN bookings'
                                       /\ bookings'[i].status = "cancelled" /\ bookings'[i].confirmed
                                    THEN 1 ELSE 0
    BY DEF RefundPerCancelledPurchase
  <2>1. refunds[i] = IF /\ i \in DOMAIN bookings
                        /\ bookings[i].status = "cancelled" /\ bookings[i].confirmed
                     THEN 1 ELSE 0
    BY DEF RefundPerCancelledPurchase
  <2>2. CASE i \in DOMAIN bookings
    <3>1. RowMoves(i)
      BY <2>2 DEF RowsMove
    <3>2. CASE bookings'[i] = bookings[i] /\ refunds'[i] = refunds[i]
      BY <2>1, <2>2, <3>1, <3>2 DEF RowMoves
    <3>3. CASE Held(i) /\ refunds'[i] = refunds[i] /\ bookings'[i].status # "cancelled"
      BY <2>1, <2>2, <3>1, <3>3 DEF Held
    <3>4. CASE /\ Held(i) /\ refunds'[i] = refunds[i]
               /\ bookings'[i].confirmed = bookings[i].confirmed
      <4>1. bookings'[i].confirmed = FALSE
        BY <2>2, <3>4 DEF PurchasesMarked, Held
      <4> QED BY <2>1, <2>2, <3>4, <4>1 DEF Held
    <3>5. CASE /\ bookings[i].status = "confirmed" /\ bookings'[i].status = "cancelled"
               /\ bookings'[i].confirmed = bookings[i].confirmed /\ refunds'[i] = refunds[i] + 1
      <4>1. bookings'[i].confirmed = TRUE
        BY <2>2, <3>5 DEF PurchasesMarked
      <4> QED BY <2>1, <2>2, <3>1, <3>5, <4>1 DEF RowMoves
    <3> QED BY <3>1, <3>2, <3>3, <3>4, <3>5 DEF RowMoves
  <2>3. CASE i \notin DOMAIN bookings
    BY <2>1, <2>3 DEF RowsMove
  <2> QED BY <2>2, <2>3
<1> QED BY <1>2, <1>3

\* Nothing is booked at the start.
LEMMA InitRefunds == Init => WritesStand /\ PurchasesMarked /\ RefundPerCancelledPurchase
<1> SUFFICES ASSUME Init PROVE WritesStand /\ PurchasesMarked /\ RefundPerCancelledPurchase
  OBVIOUS
<1>1. NoTx.cancels = {} /\ NoTx.expires = {} /\ NoTx.wait = {}
  BY DEF NoTx
<1>2. WritesStand
  BY <1>1 DEF Init, WritesStand, OwnWrites, Cancelling, Writes
<1>3. PurchasesMarked /\ RefundPerCancelledPurchase
  BY DEF Init, PurchasesMarked, RefundPerCancelledPurchase
<1> QED BY <1>2, <1>3

\* The invariant of both theorems.
LEMMA WritesInvariant == Spec => [](Typed /\ IndexInv /\ WritesStand)
  BY InitTyped, NextTyped, InitIndexInv, NextIndexInv, InitRefunds, NextMoves, PTL DEF Spec

\* Exactly the purchases that were cancelled are owed a refund, each once, in
\* whatever order confirms, cancels, releases, replacements and sweeps meet.
THEOREM OneRefundPerCancellation == Spec => []RefundPerCancelledPurchase
<1> DEFINE I == Typed /\ IndexInv /\ WritesStand
           J == PurchasesMarked /\ RefundPerCancelledPurchase
<1>1. I /\ I' /\ J /\ [Next]_vars => J'
  BY NextMoves, MovesKeepRefunds
<1>2. Init => J
  BY InitRefunds
<1>3. J => RefundPerCancelledPurchase
  OBVIOUS
<1> QED BY <1>1, <1>2, <1>3, WritesInvariant, PTL DEF Spec

\* No step revives a dead row, un-sells a purchase except by cancelling it, or
\* gives a row to another seat or buyer.
THEOREM LifecycleKept == Spec => RowsFollowLifecycle
<1> DEFINE I == Typed /\ IndexInv /\ WritesStand
           A == \A i \in DOMAIN bookings :
                  /\ i \in DOMAIN bookings'
                  /\ bookings'[i].seat = bookings[i].seat /\ bookings'[i].buyer = bookings[i].buyer
                  /\ bookings[i].status = "confirmed" =>
                       bookings'[i].status \in {"confirmed", "cancelled"}
                  /\ bookings[i].status \in {"expired", "cancelled"} => bookings'[i] = bookings[i]
<1>1. I /\ [Next]_vars => [A]_vars
  <2> SUFFICES ASSUME I, [Next]_vars PROVE A
    OBVIOUS
  <2>1. RowsMove
    BY NextMoves
  <2> QED BY <2>1 DEF RowsMove, RowMoves, Held
<1> QED BY <1>1, WritesInvariant, PTL DEF Spec, RowsFollowLifecycle
=============================================================================
