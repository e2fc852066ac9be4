------------------------- MODULE BookingStoreProofs -------------------------
(***************************************************************************)
(* Theorems about BookingStore, for every set of requests, seats, buyers   *)
(* and keys and every TTL, retention, batch size and bound.                *)
(***************************************************************************)
EXTENDS BookingStore, TLAPS

(***************************************************************************)
(* Types.  ReqShape says which request a statement serves, and that a      *)
(* transaction that commits a hold has inserted its row.                   *)
(***************************************************************************)
ReqShape ==
  \A r \in Req :
    /\ pc[r] \in HoldPc => req[r] \in HoldReq
    /\ pc[r] = "row" => req[r] \in RowReq
    /\ pc[r] = "commit" =>
         \/ req[r] \in HoldReq /\ tx[r].new # None
         \/ req[r] \in RowReq /\ req[r].op = "cancel"
    /\ pc[r] = "insertKey" => tx[r].new # None
    /\ tx[r].new # None => pc[r] \in {"insertKey", "commit"} /\ req[r] \in HoldReq

Typed == TypeOK /\ ReqShape

\* A request between transactions has written nothing.
LEMMA NoTxType == NoTx \in Transaction /\ NoTx.new = None
  BY DEF NoTx, Transaction, None

\* A request's shape tells its operation.
LEMMA ShapeOps ==
  /\ \A q \in HoldReq : q.op = "hold" /\ q.seat \in Seat /\ q.buyer \in Buyer /\ q.key \in Key \cup {NoKey}
  /\ \A q \in RowReq : q.op \in {"confirm", "release", "cancel"} /\ q.id \in Id /\ q.buyer \in Buyer
  BY DEF HoldReq, RowReq

\* A step that only moves r to another statement of the same request.
LEMMA GotoTyped ==
  ASSUME Typed, NEW r \in Req, NEW stmt, NEW t \in Transaction, Goto(r, stmt, t),
         stmt \in HoldPc \cup {"commit"}, pc[r] \in HoldPc,
         stmt \in {"insertKey", "commit"} <=> t.new # None
  PROVE  Typed'
<1>1. req[r] \in HoldReq
  BY DEF Typed, ReqShape
<1>2. TypeOK'
  BY DEF Typed, TypeOK, Goto, tables, NoReply, None
<1>3. ReqShape'
  BY <1>1, SMTT(30) DEF Typed, TypeOK, ReqShape, Goto, tables, HoldPc, LockedPc
<1> QED BY <1>2, <1>3 DEF Typed

\* A step that answers r, whatever it does to well-typed tables.
LEMMA AnswerTyped ==
  ASSUME Typed, NEW r \in Req, NEW kind \in Answers, NEW id \in Id \cup {None},
         Answer(r, kind, id),
         DOMAIN bookings' \subseteq Id, bookings' \in [DOMAIN bookings' -> Booking],
         DOMAIN keys' \subseteq Key, keys' \in [DOMAIN keys' -> KeyRow],
         refunds' \in [Id -> Nat]
  PROVE  Typed'
<1>1. TypeOK'
  BY NoTxType, StoreAssumption DEF Typed, TypeOK, Answer
<1>2. ReqShape'
  BY NoTxType DEF Typed, TypeOK, ReqShape, Answer, HoldPc, LockedPc, NoTx, None
<1> QED BY <1>1, <1>2 DEF Typed

\* A step that leaves the tables alone keeps them well typed.
LEMMA TablesTyped ==
  ASSUME Typed, UNCHANGED tables
  PROVE  /\ DOMAIN bookings' \subseteq Id /\ bookings' \in [DOMAIN bookings' -> Booking]
         /\ DOMAIN keys' \subseteq Key /\ keys' \in [DOMAIN keys' -> KeyRow]
         /\ refunds' \in [Id -> Nat]
  BY DEF Typed, TypeOK, tables

\* The empty tables and idle requests of Init are well typed.
LEMMA InitTyped == Init => Typed
  BY NoTxType, StoreAssumption
  DEF Init, Typed, TypeOK, ReqShape, NoTx, NoReq, NoReply, None, HoldPc, LockedPc, Transaction

\* The idempotency lookup before the transaction answers or goes to BEGIN.
LEMMA LookupTyped ==
  ASSUME Typed, NEW r \in Req, Lookup(r)
  PROVE  Typed'
<1>0. req[r] \in HoldReq /\ pc[r] \in HoldPc
  BY DEF Typed, ReqShape, Lookup, HoldPc
<1> DEFINE k == req[r].key
<1>1. CASE Answer(r, "keyReuse", None) /\ UNCHANGED tables
  BY <1>1, TablesTyped, AnswerTyped DEF Answers
<1>2. CASE k \in DOMAIN keys /\ Answer(r, "replay", keys[k].booking) /\ UNCHANGED tables
  <2>1. keys[k].booking \in Id BY <1>2 DEF Typed, TypeOK, KeyRow
  <2> QED BY <1>2, <2>1, TablesTyped, AnswerTyped DEF Answers
<1>3. CASE k \in DOMAIN keys /\ Goto(r, "begin", [NoTx EXCEPT !.stale = keys[k].booking])
  <2>1. keys[k].booking \in Id BY <1>3 DEF Typed, TypeOK, KeyRow
  <2>2. [NoTx EXCEPT !.stale = keys[k].booking] \in Transaction
    BY <2>1 DEF NoTx, Transaction, None
  <2>3. [NoTx EXCEPT !.stale = keys[k].booking].new = None
    BY DEF NoTx
  <2> QED BY <1>0, <1>3, <2>2, <2>3, GotoTyped DEF HoldPc
<1>4. CASE Goto(r, "begin", NoTx)
  BY <1>0, <1>4, NoTxType, GotoTyped DEF HoldPc
<1> QED BY <1>1, <1>2, <1>3, <1>4 DEF Lookup, IdemState

\* The statements of placeHold that stay inside the transaction.
LEMMA StatementTyped ==
  ASSUME Typed, NEW r \in Req,
         \/ Begin(r) \/ AcquireLock(r) \/ ClearStaleKey(r)
         \/ ReleasePrevious(r) \/ ReleaseRows(r) \/ ExpireStale(r) \/ ExpireRows(r)
         \/ InsertBooking(r) \/ InsertKey(r)
  PROVE  Typed'
<1> USE DEF HoldPc, LockedPc
<1>0. tx[r] \in Transaction /\ clock \in Nat /\ DOMAIN bookings \subseteq Id
  BY StoreAssumption DEF Typed, TypeOK
<1>00. pc[r] \in HoldPc /\ req[r] \in HoldReq
  BY DEF Typed, ReqShape, Begin, AcquireLock, ClearStaleKey, ReleasePrevious, ReleaseRows,
         ExpireStale, ExpireRows, InsertBooking, InsertKey
<1>01. pc[r] # "insertKey" => tx[r].new = None
  BY <1>00 DEF Typed, ReqShape
<1>1. CASE Begin(r)
  <2> DEFINE t == [tx[r] EXCEPT !.now = clock]
  <2>1. t \in Transaction /\ t.new = None
    BY <1>0, <1>01, <1>1 DEF Transaction, Begin
  <2>2. Goto(r, "lock", t) BY <1>1 DEF Begin
  <2> QED BY <1>00, <2>1, <2>2, GotoTyped
<1>2. CASE AcquireLock(r)
  <2>1. tx[r].new = None BY <1>01, <1>2 DEF AcquireLock
  <2>2. PICK stmt \in {"release", "clear"} : Goto(r, stmt, tx[r])
    BY <1>2 DEF AcquireLock
  <2> QED BY <1>0, <1>00, <2>1, <2>2, GotoTyped
<1>3. CASE ClearStaleKey(r)
  <2> DEFINE c == req[r].key \in DOMAIN keys /\ keys[req[r].key].booking = tx[r].stale
  <2> DEFINE t == [tx[r] EXCEPT !.clear = c]
  <2>0. c \in BOOLEAN OBVIOUS
  <2> HIDE DEF c
  <2>1. t \in Transaction /\ t.new = None
    BY <1>0, <1>01, <1>3, <2>0 DEF Transaction, ClearStaleKey
  <2>2. Goto(r, "release", t) BY <1>3 DEF ClearStaleKey, c
  <2> QED BY <1>00, <2>1, <2>2, GotoTyped
<1>4. CASE ReleasePrevious(r)
  <2> DEFINE t == [tx[r] EXCEPT !.wait = PreviousHolds(r)]
  <2>0. PreviousHolds(r) \subseteq Id BY <1>0 DEF PreviousHolds
  <2>1. t \in Transaction /\ t.new = None
    BY <1>0, <1>01, <1>4, <2>0 DEF Transaction, ReleasePrevious
  <2>2. PICK stmt \in {"expire", "releaseRows"} : Goto(r, stmt, t)
    BY <1>4 DEF ReleasePrevious
  <2> QED BY <1>00, <2>1, <2>2, GotoTyped
<1>5. CASE ReleaseRows(r)
  <2> DEFINE W == {i \in tx[r].wait : Held(i)}
  <2> DEFINE t == [tx[r] EXCEPT !.wait = {}, !.cancels = W]
  <2>0. W \subseteq Id BY <1>0 DEF Transaction
  <2> HIDE DEF W
  <2>1. t \in Transaction /\ t.new = None
    BY <1>0, <1>01, <1>5, <2>0 DEF Transaction, ReleaseRows
  <2>2. Goto(r, "expire", t) BY <1>5 DEF ReleaseRows, W
  <2> QED BY <1>00, <2>1, <2>2, GotoTyped
<1>6. CASE ExpireStale(r)
  <2> DEFINE t == [tx[r] EXCEPT !.wait = DeadHolds(r)]
  <2>0. DeadHolds(r) \subseteq Id BY <1>0 DEF DeadHolds
  <2>1. t \in Transaction /\ t.new = None
    BY <1>0, <1>01, <1>6, <2>0 DEF Transaction, ExpireStale
  <2>2. PICK stmt \in {"insert", "expireRows"} : Goto(r, stmt, t)
    BY <1>6 DEF ExpireStale
  <2> QED BY <1>00, <2>1, <2>2, GotoTyped
<1>7. CASE ExpireRows(r)
  <2> DEFINE W == {i \in tx[r].wait : Held(i)}
  <2> DEFINE t == [tx[r] EXCEPT !.wait = {}, !.expires = W]
  <2>0. W \subseteq Id BY <1>0 DEF Transaction
  <2> HIDE DEF W
  <2>1. t \in Transaction /\ t.new = None
    BY <1>0, <1>01, <1>7, <2>0 DEF Transaction, ExpireRows
  <2>2. Goto(r, "insert", t) BY <1>7 DEF ExpireRows, W
  <2> QED BY <1>00, <2>1, <2>2, GotoTyped
<1>8. CASE InsertBooking(r)
  <2>1. PICK i \in Id, stmt \in {"commit", "insertKey"} :
          Goto(r, stmt, [tx[r] EXCEPT !.new = i])
    BY <1>8 DEF InsertBooking, FreeId
  <2> DEFINE t == [tx[r] EXCEPT !.new = i]
  <2>2. t \in Transaction /\ t.new # None
    BY <1>0 DEF Transaction, Id, None
  <2> QED BY <1>00, <2>1, <2>2, GotoTyped
<1>9. CASE InsertKey(r)
  <2>1. CASE Goto(r, "relookupKey", NoTx)
    BY <1>00, <2>1, NoTxType, GotoTyped
  <2>2. CASE Goto(r, "commit", [tx[r] EXCEPT !.keyed = TRUE])
    <3> DEFINE t == [tx[r] EXCEPT !.keyed = TRUE]
    <3>1. t \in Transaction /\ t.new = tx[r].new
      BY <1>0 DEF Transaction
    <3>2. tx[r].new # None
      BY <1>9 DEF InsertKey, Typed, ReqShape
    <3> QED BY <1>00, <2>2, <3>1, <3>2, GotoTyped
  <2> QED BY <1>9, <2>1, <2>2 DEF InsertKey
<1> QED BY <1>1, <1>2, <1>3, <1>4, <1>5, <1>6, <1>7, <1>8, <1>9

\* Refused INSERTs of the row or its key, and the lookup that follows them.
LEMMA RefusalTyped ==
  ASSUME Typed, NEW r \in Req, InsertRefused(r) \/ Relookup(r)
  PROVE  Typed'
<1>0. pc[r] \in HoldPc
  BY DEF InsertRefused, Relookup, HoldPc, LockedPc
<1>1. CASE InsertRefused(r)
  <2>1. CASE Answer(r, "seatUnavailable", None) /\ UNCHANGED tables
    BY <2>1, TablesTyped, AnswerTyped DEF Answers
  <2>2. CASE Goto(r, "relookup", NoTx)
    BY <1>0, <2>2, NoTxType, GotoTyped DEF HoldPc
  <2> QED BY <1>1, <2>1, <2>2 DEF InsertRefused
<1>2. CASE Relookup(r)
  <2> DEFINE k == req[r].key
  <2>1. UNCHANGED tables BY <1>2 DEF Relookup
  <2>2. CASE Answer(r, "keyReuse", None) \/ Answer(r, "seatUnavailable", None)
    BY <2>1, <2>2, TablesTyped, AnswerTyped DEF Answers
  <2>3. CASE k \in DOMAIN keys /\ Answer(r, "replay", keys[k].booking)
    <3>1. keys[k].booking \in Id BY <2>3 DEF Typed, TypeOK, KeyRow
    <3> QED BY <2>1, <2>3, <3>1, TablesTyped, AnswerTyped DEF Answers
  <2> QED BY <1>2, <2>2, <2>3 DEF Relookup, IdemState
<1> QED BY <1>1, <1>2

\* Rewriting a row in the ways the statements do keeps it a booking.
LEMMA RowUpdates ==
  ASSUME NEW b \in Booking
  PROVE  /\ [b EXCEPT !.status = "cancelled"] \in Booking
         /\ [b EXCEPT !.status = "expired"] \in Booking
         /\ [b EXCEPT !.status = "confirmed", !.confirmed = TRUE, !.expires = None] \in Booking
  BY DEF Booking, Status, None

\* placeHold's COMMIT adds a booking and perhaps a key row.
LEMMA CommitHoldTyped ==
  ASSUME Typed, NEW r \in Req, CommitHold(r)
  PROVE  Typed'
<1>1. req[r] \in HoldReq /\ tx[r].new \in Id /\ tx[r].now \in Nat
  BY ShapeOps DEF Typed, TypeOK, ReqShape, CommitHold, Transaction, None
<1>2. NewRow(r) \in Booking
  BY <1>1, ShapeOps, StoreAssumption DEF NewRow, Booking, Status
<1>3. \A i \in DOMAIN bookings \cup {tx[r].new} : RowAfter(r, i) \in Booking
  BY <1>2, RowUpdates DEF RowAfter, Typed, TypeOK
<1>4. DOMAIN bookings' \subseteq Id /\ bookings' \in [DOMAIN bookings' -> Booking]
  BY <1>1, <1>3 DEF Typed, TypeOK, CommitHold
<1>5. DOMAIN keys' \subseteq Key /\ keys' \in [DOMAIN keys' -> KeyRow]
  <2>1. CASE req[r].key = NoKey BY <2>1 DEF CommitHold, Typed, TypeOK
  <2>2. CASE req[r].key # NoKey
    <3>1. req[r].key \in Key
      BY <1>1, <2>2, ShapeOps
    <3> QED BY <1>1, <2>2, <3>1 DEF CommitHold, Typed, TypeOK, KeyRow
  <2> QED BY <2>1, <2>2
<1>6. refunds' \in [Id -> Nat] BY DEF CommitHold, Typed, TypeOK
<1>7. PICK kind \in Answers, id \in Id \cup {None} : Answer(r, kind, id)
  BY <1>1 DEF CommitHold, Answers
<1> QED BY <1>4, <1>5, <1>6, <1>7, AnswerTyped

\* CancelBooking's COMMIT cancels one row and counts one refund.
LEMMA CommitCancelTyped ==
  ASSUME Typed, NEW r \in Req, CommitCancel(r)
  PROVE  Typed'
<1>1. req[r] \in RowReq
  BY ShapeOps DEF Typed, ReqShape, CommitCancel
<1>2. \A i \in DOMAIN bookings : RowAfter(r, i) \in Booking
  <2>1. tx[r].new = None
    BY <1>1, ShapeOps DEF Typed, ReqShape
  <2>2. \A i \in DOMAIN bookings : i # tx[r].new
    BY <2>1 DEF Typed, TypeOK, Id, None
  <2> QED BY <2>2, RowUpdates DEF RowAfter, Typed, TypeOK
<1>3. DOMAIN bookings' \subseteq Id /\ bookings' \in [DOMAIN bookings' -> Booking]
  BY <1>2 DEF Typed, TypeOK, CommitCancel
<1>4. DOMAIN keys' \subseteq Key /\ keys' \in [DOMAIN keys' -> KeyRow]
  BY DEF CommitCancel, Typed, TypeOK
<1>5. refunds' \in [Id -> Nat]
  BY <1>1, ShapeOps DEF CommitCancel, Typed, TypeOK
<1>6. PICK kind \in Answers, id \in Id \cup {None} : Answer(r, kind, id)
  BY <1>1, ShapeOps DEF CommitCancel, Answers
<1> QED BY <1>3, <1>4, <1>5, <1>6, AnswerTyped

\* ConfirmHold, ReleaseHold and the UPDATE of CancelBooking.
LEMMA RowOpTyped ==
  ASSUME Typed, NEW r \in Req,
         RowMissed(r) \/ ConfirmHold(r) \/ ReleaseHold(r) \/ CancelRow(r)
  PROVE  Typed'
<1>1. req[r] \in RowReq /\ req[r].id \in Id /\ pc[r] = "row"
  BY ShapeOps DEF Typed, ReqShape, RowMissed, ConfirmHold, ReleaseHold, CancelRow
<1>2. CASE RowMissed(r)
  <2>1. NoRow(req[r].op) \in Answers BY DEF NoRow, Answers
  <2> QED BY <1>2, <2>1, TablesTyped, AnswerTyped DEF RowMissed
<1>3. CASE ConfirmHold(r) \/ ReleaseHold(r)
  <2>0. req[r].id \in DOMAIN bookings /\ bookings[req[r].id] \in Booking
    BY <1>3 DEF ConfirmHold, ReleaseHold, RowQualifies, Typed, TypeOK
  <2>1. DOMAIN bookings' \subseteq Id /\ bookings' \in [DOMAIN bookings' -> Booking]
    <3>1. CASE ConfirmHold(r) BY <2>0, <3>1, RowUpdates DEF ConfirmHold, Typed, TypeOK
    <3>2. CASE ReleaseHold(r) BY <2>0, <3>2, RowUpdates DEF ReleaseHold, Typed, TypeOK
    <3> QED BY <1>3, <3>1, <3>2
  <2>2. /\ DOMAIN keys' \subseteq Key /\ keys' \in [DOMAIN keys' -> KeyRow]
        /\ refunds' \in [Id -> Nat]
    BY <1>3 DEF ConfirmHold, ReleaseHold, Typed, TypeOK
  <2>3. PICK kind \in Answers, id \in Id \cup {None} : Answer(r, kind, id)
    BY <1>1, <1>3 DEF ConfirmHold, ReleaseHold, Answers
  <2> QED BY <2>1, <2>2, <2>3, AnswerTyped
<1>4. CASE CancelRow(r)
  <2> DEFINE t == [tx[r] EXCEPT !.cancels = {req[r].id}]
  <2>0. tx[r].new = None /\ tx[r] \in Transaction
    BY <1>1 DEF Typed, TypeOK, ReqShape
  <2>1. t \in Transaction /\ t.new = None
    BY <1>1, <2>0 DEF Transaction
  <2>2. Goto(r, "commit", t) /\ req[r].op = "cancel" BY <1>4 DEF CancelRow
  <2> HIDE DEF t
  <2>3. TypeOK'
    BY <2>1, <2>2 DEF Typed, TypeOK, Goto, tables, NoReply, None
  <2>4. ReqShape'
    BY <1>1, <2>1, <2>2 DEF Typed, TypeOK, ReqShape, Goto, tables, HoldPc, LockedPc
  <2> QED BY <2>3, <2>4 DEF Typed
<1> QED BY <1>2, <1>3, <1>4

\* New requests, failures, deadlock aborts, the worker's statements and time.
LEMMA OtherTyped ==
  ASSUME Typed,
         \/ \E r \in Req : PlaceHold(r) \/ StartRowOp(r) \/ Fail(r) \/ DeadlockAbort(r)
         \/ SweepExpiredHolds \/ PruneIdempotencyKeys \/ Tick
  PROVE  Typed'
<1> USE DEF HoldPc, LockedPc
<1>1. ASSUME NEW r \in Req, PlaceHold(r) PROVE Typed'
  <2>1. PICK s \in Seat, b \in Buyer, k \in Key \cup {NoKey} :
          /\ req' = [req EXCEPT ![r] = [op |-> "hold", seat |-> s, buyer |-> b, key |-> k]]
          /\ pc' = [pc EXCEPT ![r] = FirstStatement(k)]
    BY <1>1 DEF PlaceHold
  <2> DEFINE q == [op |-> "hold", seat |-> s, buyer |-> b, key |-> k]
  <2>2. q \in HoldReq BY DEF HoldReq
  <2> HIDE DEF q
  <2>3. FirstStatement(k) \in {"begin", "lookup"} BY DEF FirstStatement
  <2>4. tx[r].new = None BY <1>1 DEF Typed, ReqShape, PlaceHold
  <2>5. TypeOK'
    BY <1>1, <2>1, <2>2, <2>3 DEF q, Typed, TypeOK, PlaceHold, tables, NoReply, None
  <2>6. ReqShape'
    BY <1>1, <2>1, <2>2, <2>3, <2>4 DEF q, Typed, TypeOK, ReqShape, PlaceHold, tables
  <2> QED BY <2>5, <2>6 DEF Typed
<1>2. ASSUME NEW r \in Req, StartRowOp(r) PROVE Typed'
  <2>1. PICK q \in RowReq :
          /\ req' = [req EXCEPT ![r] = q]
          /\ tx' = [tx EXCEPT ![r] = [NoTx EXCEPT !.now = clock]]
          /\ pc' = [pc EXCEPT ![r] = "row"]
    BY <1>2, StoreAssumption DEF StartRowOp, RowReq, Typed, TypeOK
  <2>a. clock \in Nat BY StoreAssumption DEF Typed, TypeOK
  <2>2. [NoTx EXCEPT !.now = clock] \in Transaction /\ [NoTx EXCEPT !.now = clock].new = None
    BY <2>a DEF NoTx, Transaction, None
  <2>3. TypeOK'
    BY <1>2, <2>1, <2>2 DEF Typed, TypeOK, StartRowOp, tables, NoReply, None
  <2>4. ReqShape'
    BY <1>2, <2>1, <2>2 DEF Typed, TypeOK, ReqShape, StartRowOp, tables
  <2> QED BY <2>3, <2>4 DEF Typed
<1>3. ASSUME NEW r \in Req, Fail(r) PROVE Typed'
  BY <1>3, TablesTyped, AnswerTyped DEF Fail, Answers
<1>4. ASSUME NEW r \in Req, DeadlockAbort(r) PROVE Typed'
  <2>1. CASE tries[r] = MaxRetries /\ Answer(r, "error", None) /\ UNCHANGED tables
    BY <2>1, TablesTyped, AnswerTyped DEF Answers
  <2>2. CASE tries[r] < MaxRetries
    <3>1. req[r] \in HoldReq
      BY <1>4 DEF DeadlockAbort, InCycle, WaitsFor, Typed, ReqShape
    <3>2. FirstStatement(req[r].key) \in {"begin", "lookup"} BY DEF FirstStatement
    <3>3. TypeOK'
      BY <1>4, <2>2, <3>2, NoTxType, StoreAssumption
      DEF DeadlockAbort, Typed, TypeOK, tables, NoReply, None
    <3>4. ReqShape'
      BY <1>4, <2>2, <3>1, <3>2, NoTxType DEF DeadlockAbort, Typed, TypeOK, ReqShape, tables
    <3> QED BY <3>3, <3>4 DEF Typed
  <2> QED BY <1>4, <2>1, <2>2 DEF DeadlockAbort
<1>5. CASE SweepExpiredHolds
  <2>1. PICK batch \in SUBSET DOMAIN bookings :
          bookings' = [i \in DOMAIN bookings |->
                         IF i \in batch THEN [bookings[i] EXCEPT !.status = "expired"]
                         ELSE bookings[i]]
    BY <1>5 DEF SweepExpiredHolds
  <2>2. DOMAIN bookings' \subseteq Id /\ bookings' \in [DOMAIN bookings' -> Booking]
    BY <2>1, RowUpdates DEF Typed, TypeOK
  <2>3. TypeOK'
    BY <1>5, <2>2 DEF SweepExpiredHolds, Typed, TypeOK, NoReply, None
  <2>4. ReqShape'
    BY <1>5 DEF SweepExpiredHolds, Typed, ReqShape
  <2> QED BY <2>3, <2>4 DEF Typed
<1>6. CASE PruneIdempotencyKeys
  BY <1>6 DEF PruneIdempotencyKeys, Typed, TypeOK, ReqShape, NoReply, None
<1>7. CASE Tick
  BY <1>7, StoreAssumption DEF Tick, Typed, TypeOK, ReqShape, tables, NoReply, None
<1> QED BY <1>1, <1>2, <1>3, <1>4, <1>5, <1>6, <1>7

\* A step of the specification keeps every variable well typed.
LEMMA NextTyped == Typed /\ [Next]_vars => Typed'
<1> SUFFICES ASSUME Typed, [Next]_vars PROVE Typed'
  OBVIOUS
<1>1. ASSUME NEW r \in Req, Statement(r) PROVE Typed'
  BY <1>1, LookupTyped, StatementTyped, RefusalTyped, CommitHoldTyped, CommitCancelTyped,
     RowOpTyped DEF Statement
<1>2. CASE UNCHANGED vars
  BY <1>2 DEF vars, Typed, TypeOK, ReqShape
<1> QED BY <1>1, <1>2, OtherTyped DEF Next

\* Every variable of the store keeps its type, for all constants: the rows, the
\* keys, the transactions and the answers of placeHold, ConfirmHold,
\* ReleaseHold, CancelBooking and the worker's statements.
THEOREM TypeCorrect == Spec => []TypeOK
<1>1. Spec => []Typed BY InitTyped, NextTyped, PTL DEF Spec
<1> QED BY <1>1, PTL DEF Typed

-----------------------------------------------------------------------------
(***************************************************************************)
(* No oversell.  The indexes look at committed rows and at rows being      *)
(* inserted, so the invariant has to speak of uncommitted writes: two      *)
(* transactions never rewrite the same row, and a transaction that has     *)
(* inserted its row has already rewritten every committed row the indexes  *)
(* would refuse it for, and shares no index key with another insertion.    *)
(***************************************************************************)
WritesDisjoint ==
  \A r, q \in Req : r # q => Writes(r) \cap Writes(q) = {}

InsertedRowsFit ==
  \A r \in Req : tx[r].new # None =>
    /\ tx[r].new \notin DOMAIN bookings
    /\ SeatRivals(r) = {} /\ BuyerRivals(r) = {}
    /\ \A q \in Req \ {r} : tx[q].new # None =>
         /\ tx[q].new # tx[r].new
         /\ req[q].seat # req[r].seat
         /\ ~SameBuyerMatch(req[q], req[r])

IndexInv == OneActivePerSeat /\ OneHeldPerBuyer /\ WritesDisjoint /\ InsertedRowsFit

\* No row becomes active or held.
RowsShrink ==
  /\ DOMAIN bookings' = DOMAIN bookings
  /\ \A i \in DOMAIN bookings :
       /\ bookings'[i].seat = bookings[i].seat /\ bookings'[i].buyer = bookings[i].buyer
       /\ bookings'[i].status \in {"held", "confirmed"} =>
            bookings[i].status \in {"held", "confirmed"}
       /\ bookings'[i].status = "held" => bookings[i].status = "held"

\* Steps that add no active row, and leave the other transactions as they are.
LEMMA ShrinkIndexInv ==
  ASSUME Typed, IndexInv, RowsShrink,
         \A q \in Req : \/ tx'[q] = tx[q] /\ req'[q] = req[q]
                        \/ tx'[q].new = None /\ tx'[q].cancels = {} /\ tx'[q].expires = {}
  PROVE  IndexInv'
<1>1. OneActivePerSeat'
  BY DEF IndexInv, OneActivePerSeat, RowsShrink, Active
<1>2. OneHeldPerBuyer'
  BY DEF IndexInv, OneHeldPerBuyer, RowsShrink, Held, SameBuyerMatch
<1>3. WritesDisjoint'
  BY DEF IndexInv, WritesDisjoint, Writes
<1>4. InsertedRowsFit'
  <2> SUFFICES ASSUME NEW r \in Req, tx'[r].new # None
               PROVE  /\ tx'[r].new \notin DOMAIN bookings'
                      /\ SeatRivals(r)' = {} /\ BuyerRivals(r)' = {}
                      /\ \A q \in Req \ {r} : tx'[q].new # None =>
                           /\ tx'[q].new # tx'[r].new
                           /\ req'[q].seat # req'[r].seat
                           /\ ~SameBuyerMatch(req'[q], req'[r])
    BY DEF InsertedRowsFit
  <2>1. tx'[r] = tx[r] /\ req'[r] = req[r] OBVIOUS
  <2>2. SeatRivals(r)' = {}
    BY <2>1 DEF IndexInv, InsertedRowsFit, RowsShrink, SeatRivals, Writes, Active
  <2>3. BuyerRivals(r)' = {}
    BY <2>1 DEF IndexInv, InsertedRowsFit, RowsShrink, BuyerRivals, Writes, Held, SameBuyerMatch
  <2>4. ASSUME NEW q \in Req \ {r}, tx'[q].new # None
        PROVE  /\ tx'[q].new # tx'[r].new
               /\ req'[q].seat # req'[r].seat
               /\ ~SameBuyerMatch(req'[q], req'[r])
    <3>1. tx'[q] = tx[q] /\ req'[q] = req[q] BY <2>4
    <3> QED BY <2>1, <2>4, <3>1 DEF IndexInv, InsertedRowsFit
  <2> QED BY <2>1, <2>2, <2>3, <2>4 DEF RowsShrink, IndexInv, InsertedRowsFit
<1> QED BY <1>1, <1>2, <1>3, <1>4 DEF IndexInv

\* A statement of r that rewrites rows nobody else has locked.
LEMMA GotoIndexInv ==
  ASSUME Typed, IndexInv, NEW r \in Req, NEW stmt, NEW t \in Transaction, Goto(r, stmt, t),
         \A i \in t.cancels \cup t.expires : i \in Writes(r) \/ ~RowLocked(i, r),
         \/ t.new = None
         \/ t.new = tx[r].new /\ t.cancels = tx[r].cancels /\ t.expires = tx[r].expires
  PROVE  IndexInv'
<1>1. /\ UNCHANGED <<bookings, req>> /\ tx'[r] = t
      /\ \A q \in Req \ {r} : tx'[q] = tx[q]
  BY DEF Goto, tables, Typed, TypeOK
<1>2. OneActivePerSeat' /\ OneHeldPerBuyer'
  BY <1>1 DEF IndexInv, OneActivePerSeat, OneHeldPerBuyer, Active, Held, SameBuyerMatch
<1>3. WritesDisjoint'
  BY <1>1 DEF IndexInv, WritesDisjoint, Writes, RowLocked
<1>4. InsertedRowsFit'
  <2>1. ASSUME NEW p \in Req, tx'[p].new # None
        PROVE  /\ tx[p].new = tx'[p].new
               /\ SeatRivals(p)' = SeatRivals(p) /\ BuyerRivals(p)' = BuyerRivals(p)
    BY <1>1, <2>1 DEF SeatRivals, BuyerRivals, Writes, Active, Held, SameBuyerMatch
  <2> QED BY <1>1, <2>1 DEF IndexInv, InsertedRowsFit, SameBuyerMatch
<1> QED BY <1>2, <1>3, <1>4 DEF IndexInv

\* A request that ends without adding a row only gives up its locks.
LEMMA AnswerIndexInv ==
  ASSUME Typed, IndexInv, NEW r \in Req, NEW kind, NEW id, Answer(r, kind, id), RowsShrink
  PROVE  IndexInv'
<1>1. \A q \in Req : \/ tx'[q] = tx[q] /\ req'[q] = req[q]
                     \/ tx'[q].new = None /\ tx'[q].cancels = {} /\ tx'[q].expires = {}
  BY DEF Answer, Typed, TypeOK, NoTx
<1> QED BY <1>1, ShrinkIndexInv

\* A step that leaves the tables alone adds no active row.
LEMMA UnchangedRows == UNCHANGED tables => RowsShrink
  BY DEF tables, RowsShrink

\* The INSERT succeeds only when no committed row and no pending one has
\* either of its index keys.
LEMMA InsertIndexInv ==
  ASSUME Typed, IndexInv, NEW r \in Req, InsertBooking(r)
  PROVE  IndexInv'
<1>1. PICK i \in FreeId, stmt \in {"commit", "insertKey"} : Goto(r, stmt, [tx[r] EXCEPT !.new = i])
  BY DEF InsertBooking
<1> DEFINE t == [tx[r] EXCEPT !.new = i]
<1>2. t.new = i /\ t.cancels = tx[r].cancels /\ t.expires = tx[r].expires
  BY DEF Typed, TypeOK, Transaction
<1> HIDE DEF t
<1>3. /\ UNCHANGED <<bookings, req>> /\ tx'[r] = t
      /\ \A q \in Req \ {r} : tx'[q] = tx[q]
  BY <1>1 DEF t, Goto, tables, Typed, TypeOK
<1>4. OneActivePerSeat' /\ OneHeldPerBuyer'
  BY <1>3 DEF IndexInv, OneActivePerSeat, OneHeldPerBuyer, Active, Held, SameBuyerMatch
<1>5. WritesDisjoint'
  BY <1>2, <1>3 DEF IndexInv, WritesDisjoint, Writes
<1>6. \A p \in Req : SeatRivals(p)' = SeatRivals(p) /\ BuyerRivals(p)' = BuyerRivals(p)
  BY <1>2, <1>3 DEF SeatRivals, BuyerRivals, Writes, Active, Held, SameBuyerMatch
<1>7. SeatRivals(r) = {} /\ BuyerRivals(r) = {} /\ PendingRivals(r) = {}
  BY DEF InsertBooking
<1>8. i \notin DOMAIN bookings /\ \A q \in Req : tx[q].new # i
  BY DEF FreeId
<1>9. \A q \in Req \ {r} : tx[q].new # None =>
        /\ req[q].seat # req[r].seat
        /\ ~SameBuyerMatch(req[q], req[r]) /\ ~SameBuyerMatch(req[r], req[q])
  BY <1>7 DEF PendingRivals, SameBuyerMatch
<1>10. InsertedRowsFit'
  BY <1>2, <1>3, <1>6, <1>7, <1>8, <1>9 DEF IndexInv, InsertedRowsFit, SameBuyerMatch
<1> QED BY <1>4, <1>5, <1>10 DEF IndexInv

\* What the commit of a hold does to the table: r's row appears, the rows r
\* rewrote die, and every other row stays as it was.
LEMMA CommitHoldRows ==
  ASSUME Typed, IndexInv, NEW r \in Req, CommitHold(r)
  PROVE  /\ tx[r].new # None /\ tx[r].new \notin DOMAIN bookings
         /\ DOMAIN bookings' = DOMAIN bookings \cup {tx[r].new}
         /\ bookings'[tx[r].new] = NewRow(r)
         /\ \A i \in DOMAIN bookings :
              /\ bookings'[i].seat = bookings[i].seat /\ bookings'[i].buyer = bookings[i].buyer
              /\ i \in Writes(r) => bookings'[i].status \in {"cancelled", "expired"}
              /\ i \notin Writes(r) => bookings'[i] = bookings[i]
         /\ tx'[r] = NoTx /\ pc'[r] = "idle"
         /\ \A q \in Req \ {r} : tx'[q] = tx[q] /\ req'[q] = req[q] /\ pc'[q] = pc[q]
         /\ \A i \in DOMAIN bookings' :
              /\ Active(i)' => i = tx[r].new \/ (i \in DOMAIN bookings \ Writes(r) /\ Active(i))
              /\ Held(i)' => i = tx[r].new \/ (i \in DOMAIN bookings \ Writes(r) /\ Held(i))
<1> DEFINE n == tx[r].new
<1>1. n # None /\ n \notin DOMAIN bookings
  BY ShapeOps DEF Typed, ReqShape, CommitHold, IndexInv, InsertedRowsFit
<1>2. /\ DOMAIN bookings' = DOMAIN bookings \cup {n}
      /\ bookings'[n] = NewRow(r)
      /\ \A i \in DOMAIN bookings : bookings'[i] = RowAfter(r, i)
  BY DEF CommitHold, RowAfter
<1>3. \A i \in DOMAIN bookings :
        /\ bookings'[i].seat = bookings[i].seat /\ bookings'[i].buyer = bookings[i].buyer
        /\ i \in Writes(r) => bookings'[i].status \in {"cancelled", "expired"}
        /\ i \notin Writes(r) => bookings'[i] = bookings[i]
  BY <1>1, <1>2 DEF RowAfter, Writes, Typed, TypeOK, Booking
<1>4. /\ tx'[r] = NoTx /\ pc'[r] = "idle"
      /\ \A q \in Req \ {r} : tx'[q] = tx[q] /\ req'[q] = req[q] /\ pc'[q] = pc[q]
  BY DEF CommitHold, Answer, Typed, TypeOK
<1>5. \A i \in DOMAIN bookings' :
        /\ Active(i)' => i = n \/ (i \in DOMAIN bookings \ Writes(r) /\ Active(i))
        /\ Held(i)' => i = n \/ (i \in DOMAIN bookings \ Writes(r) /\ Held(i))
  BY <1>2, <1>3 DEF Active, Held
<1> QED BY <1>1, <1>2, <1>3, <1>4, <1>5

\* The commit of a hold: its own writes make room for its own row, and rows
\* being inserted elsewhere have other index keys.
LEMMA CommitHoldIndexInv ==
  ASSUME Typed, IndexInv, NEW r \in Req, CommitHold(r)
  PROVE  IndexInv'
<1> DEFINE n == tx[r].new
<1>1. n # None /\ n \notin DOMAIN bookings
  BY CommitHoldRows
<1>2. DOMAIN bookings' = DOMAIN bookings \cup {n}
  BY CommitHoldRows
<1>3. /\ bookings'[n].seat = req[r].seat /\ bookings'[n].buyer = req[r].buyer
      /\ bookings'[n].status = "held"
  <2>1. bookings'[n] = NewRow(r) BY CommitHoldRows
  <2> QED BY <2>1 DEF NewRow
<1>4. \A i \in DOMAIN bookings :
        /\ bookings'[i].seat = bookings[i].seat /\ bookings'[i].buyer = bookings[i].buyer
        /\ i \in Writes(r) => bookings'[i].status \in {"cancelled", "expired"}
        /\ i \notin Writes(r) => bookings'[i] = bookings[i]
  BY CommitHoldRows
<1>5. /\ tx'[r] = NoTx
      /\ \A q \in Req \ {r} : tx'[q] = tx[q] /\ req'[q] = req[q]
  BY CommitHoldRows
<1>6. \A i \in DOMAIN bookings' :
        /\ Active(i)' => i = n \/ (i \in DOMAIN bookings \ Writes(r) /\ Active(i))
        /\ Held(i)' => i = n \/ (i \in DOMAIN bookings \ Writes(r) /\ Held(i))
  BY CommitHoldRows
<1>7. SeatRivals(r) = {} /\ BuyerRivals(r) = {}
  BY <1>1 DEF IndexInv, InsertedRowsFit
<1>8. OneActivePerSeat'
  BY <1>2, <1>3, <1>4, <1>6, <1>7 DEF IndexInv, OneActivePerSeat, SeatRivals
<1>9. OneHeldPerBuyer'
  BY <1>2, <1>3, <1>4, <1>6, <1>7 DEF IndexInv, OneHeldPerBuyer, BuyerRivals, SameBuyerMatch
<1>10. WritesDisjoint'
  BY <1>5 DEF IndexInv, WritesDisjoint, Writes, NoTx
<1>11. InsertedRowsFit'
  <2>1. tx'[r].new = None BY <1>5 DEF NoTx
  <2>2. ASSUME NEW q \in Req \ {r}, tx'[q].new # None
        PROVE  /\ tx'[q].new \notin DOMAIN bookings'
               /\ SeatRivals(q)' = {} /\ BuyerRivals(q)' = {}
    <3>1. /\ tx[q].new # None /\ tx[q].new # n /\ tx[q].new \notin DOMAIN bookings
          /\ SeatRivals(q) = {} /\ BuyerRivals(q) = {}
          /\ req[q].seat # req[r].seat /\ ~SameBuyerMatch(req[r], req[q])
      BY <1>1, <1>5, <2>2 DEF IndexInv, InsertedRowsFit
    <3>2. SeatRivals(q)' = {}
      BY <1>3, <1>4, <1>5, <1>6, <3>1 DEF SeatRivals, Writes
    <3>3. BuyerRivals(q)' = {}
      BY <1>3, <1>4, <1>5, <1>6, <3>1 DEF BuyerRivals, Writes, SameBuyerMatch
    <3> QED BY <1>2, <1>5, <3>1, <3>2, <3>3
  <2> QED BY <1>5, <2>1, <2>2 DEF IndexInv, InsertedRowsFit
<1> QED BY <1>8, <1>9, <1>10, <1>11 DEF IndexInv

\* ConfirmHold and ReleaseHold add no active row and move none.
LEMMA RowOpShrinks ==
  ASSUME Typed, NEW r \in Req, ConfirmHold(r) \/ ReleaseHold(r)
  PROVE  RowsShrink
<1>1. req[r].id \in DOMAIN bookings /\ Held(req[r].id) /\ bookings[req[r].id] \in Booking
  BY DEF ConfirmHold, ReleaseHold, RowQualifies, Typed, TypeOK
<1>2. CASE ConfirmHold(r)
  BY <1>1, <1>2 DEF ConfirmHold, RowsShrink, Held, Booking
<1>3. CASE ReleaseHold(r)
  BY <1>1, <1>3 DEF ReleaseHold, RowsShrink, Held, Booking
<1> QED BY <1>2, <1>3

\* Every statement of a request keeps both unique indexes.
LEMMA StatementIndexInv ==
  ASSUME Typed, IndexInv, NEW r \in Req, Statement(r)
  PROVE  IndexInv'
<1>0. tx[r] \in Transaction BY DEF Typed, TypeOK
<1>1. CASE \E kind, id : Answer(r, kind, id) /\ UNCHANGED tables
  BY <1>1, UnchangedRows, AnswerIndexInv
<1>2. ASSUME NEW stmt, NEW t \in Transaction, Goto(r, stmt, t),
             t.new = None, t.cancels = {}, t.expires = {}
      PROVE  IndexInv'
  BY <1>2, GotoIndexInv
<1>3. ASSUME NEW stmt, NEW t \in Transaction, Goto(r, stmt, t),
             t.new = tx[r].new, t.cancels = tx[r].cancels, t.expires = tx[r].expires
      PROVE  IndexInv'
  BY <1>3, GotoIndexInv DEF Writes
<1>4. ASSUME NEW stmt, Goto(r, stmt, NoTx) PROVE IndexInv'
  BY <1>2, <1>4, NoTxType DEF NoTx
<1>5. CASE Lookup(r)
  <2>1. CASE req[r].key \in DOMAIN keys
             /\ Goto(r, "begin", [NoTx EXCEPT !.stale = keys[req[r].key].booking])
    <3> DEFINE t == [NoTx EXCEPT !.stale = keys[req[r].key].booking]
    <3>1. keys[req[r].key].booking \in Id BY <2>1 DEF Typed, TypeOK, KeyRow
    <3>2. t \in Transaction /\ t.new = None /\ t.cancels = {} /\ t.expires = {}
      BY <3>1 DEF NoTx, Transaction, None
    <3> HIDE DEF t
    <3> QED BY <1>2, <2>1, <3>2 DEF t
  <2> QED BY <1>1, <1>4, <1>5, <2>1 DEF Lookup, IdemState
<1>6. CASE Begin(r) \/ AcquireLock(r) \/ ClearStaleKey(r) \/ ReleasePrevious(r) \/ ExpireStale(r)
  <2>1. PICK stmt, t : /\ Goto(r, stmt, t) /\ t.new = tx[r].new
                       /\ t.cancels = tx[r].cancels /\ t.expires = tx[r].expires
    BY <1>0, <1>6 DEF Begin, AcquireLock, ClearStaleKey, ReleasePrevious, ExpireStale, Transaction
  <2>2. t \in Transaction
    <3>1. Typed' BY <1>6, StatementTyped
    <3>2. tx'[r] = t BY <2>1 DEF Goto, Typed, TypeOK
    <3> QED BY <3>1, <3>2 DEF Typed, TypeOK
  <2> QED BY <1>3, <2>1, <2>2
<1>7. CASE ReleaseRows(r) \/ ExpireRows(r)
  <2>0. tx[r].new = None
    BY <1>7 DEF ReleaseRows, ExpireRows, Typed, ReqShape
  <2>1. PICK stmt, t : /\ Goto(r, stmt, t) /\ t.new = None
                       /\ t.cancels \cup t.expires \subseteq Writes(r) \cup tx[r].wait
    <3>1. CASE ReleaseRows(r)
      <4> DEFINE t == [tx[r] EXCEPT !.wait = {}, !.cancels = {i \in tx[r].wait : Held(i)}]
      <4>1. /\ t.new = None /\ t.cancels \subseteq tx[r].wait /\ t.expires = tx[r].expires
        BY <1>0, <2>0 DEF Transaction
      <4> HIDE DEF t
      <4>2. Goto(r, "expire", t) BY <3>1 DEF ReleaseRows, t
      <4> QED BY <4>1, <4>2 DEF Writes
    <3>2. CASE ExpireRows(r)
      <4> DEFINE t == [tx[r] EXCEPT !.wait = {}, !.expires = {i \in tx[r].wait : Held(i)}]
      <4>1. /\ t.new = None /\ t.expires \subseteq tx[r].wait /\ t.cancels = tx[r].cancels
        BY <1>0, <2>0 DEF Transaction
      <4> HIDE DEF t
      <4>2. Goto(r, "insert", t) BY <3>2 DEF ExpireRows, t
      <4> QED BY <4>1, <4>2 DEF Writes
    <3> QED BY <1>7, <3>1, <3>2
  <2>2. t \in Transaction
    <3>1. Typed' BY <1>7, StatementTyped
    <3>2. tx'[r] = t BY <2>1 DEF Goto, Typed, TypeOK
    <3> QED BY <3>1, <3>2 DEF Typed, TypeOK
  <2>3. \A i \in tx[r].wait : ~RowLocked(i, r)
    BY <1>7 DEF ReleaseRows, ExpireRows
  <2> QED BY <2>1, <2>2, <2>3, GotoIndexInv
<1>8. CASE InsertRefused(r) \/ Relookup(r)
  BY <1>1, <1>4, <1>8 DEF InsertRefused, Relookup
<1>9. CASE InsertKey(r)
  <2>1. CASE Goto(r, "commit", [tx[r] EXCEPT !.keyed = TRUE])
    <3> DEFINE t == [tx[r] EXCEPT !.keyed = TRUE]
    <3>1. t \in Transaction /\ t.new = tx[r].new /\ t.cancels = tx[r].cancels
          /\ t.expires = tx[r].expires
      BY <1>0 DEF Transaction
    <3> HIDE DEF t
    <3> QED BY <1>3, <2>1, <3>1 DEF t
  <2> QED BY <1>4, <1>9, <2>1 DEF InsertKey
<1>10. CASE CommitCancel(r)
  <2>1. tx[r].new = None
    BY <1>10, ShapeOps DEF CommitCancel, Typed, ReqShape
  <2>2. \A i \in DOMAIN bookings : i # tx[r].new /\ bookings[i] \in Booking
    BY <2>1 DEF Typed, TypeOK, Id, None
  <2>3. RowsShrink
    BY <1>10, <2>2 DEF CommitCancel, RowAfter, RowsShrink, Booking
  <2> QED BY <1>10, <2>3, AnswerIndexInv DEF CommitCancel
<1>11. CASE RowMissed(r)
  BY <1>1, <1>11 DEF RowMissed
<1>12. CASE ConfirmHold(r) \/ ReleaseHold(r)
  <2>1. RowsShrink BY <1>12, RowOpShrinks
  <2> QED BY <1>12, <2>1, AnswerIndexInv DEF ConfirmHold, ReleaseHold
<1>13. CASE CancelRow(r)
  <2> DEFINE t == [tx[r] EXCEPT !.cancels = {req[r].id}]
  <2>0. tx[r].new = None /\ req[r].id \in Id
    BY <1>13, ShapeOps DEF CancelRow, Typed, ReqShape
  <2>1. t \in Transaction /\ t.new = None /\ t.cancels = {req[r].id} /\ t.expires = tx[r].expires
    BY <1>0, <2>0 DEF Transaction
  <2> HIDE DEF t
  <2>2. Goto(r, "commit", t) /\ ~RowLocked(req[r].id, r)
    BY <1>13 DEF CancelRow, t
  <2> QED BY <2>1, <2>2, GotoIndexInv DEF Writes
<1> QED BY <1>5, <1>6, <1>7, <1>8, <1>9, <1>10, <1>11, <1>12, <1>13, InsertIndexInv,
           CommitHoldIndexInv DEF Statement

\* A step of the specification keeps both unique indexes.
LEMMA NextIndexInv == Typed /\ IndexInv /\ [Next]_vars => IndexInv'
<1> SUFFICES ASSUME Typed, IndexInv, [Next]_vars PROVE IndexInv'
  OBVIOUS
<1>1. ASSUME RowsShrink,
             \A q \in Req : \/ tx'[q] = tx[q] /\ req'[q] = req[q]
                            \/ tx'[q] = NoTx
      PROVE  IndexInv'
  <2>1. NoTx.new = None /\ NoTx.cancels = {} /\ NoTx.expires = {} BY DEF NoTx
  <2> QED BY <1>1, <2>1, ShrinkIndexInv
<1>2. ASSUME NEW r \in Req, PlaceHold(r) PROVE IndexInv'
  <2>1. tx' = tx /\ bookings' = bookings /\ \A q \in Req \ {r} : req'[q] = req[q]
    BY <1>2 DEF PlaceHold, tables, Typed, TypeOK
  <2>2. tx[r].new = None BY <1>2 DEF PlaceHold, Typed, ReqShape
  <2>3. OneActivePerSeat' /\ OneHeldPerBuyer' /\ WritesDisjoint'
    BY <2>1 DEF IndexInv, OneActivePerSeat, OneHeldPerBuyer, WritesDisjoint, Writes, Active,
                Held, SameBuyerMatch
  <2>4. \A q \in Req \ {r} : SeatRivals(q)' = SeatRivals(q) /\ BuyerRivals(q)' = BuyerRivals(q)
    BY <2>1 DEF SeatRivals, BuyerRivals, Writes, Active, Held, SameBuyerMatch
  <2>5. InsertedRowsFit'
    BY <2>1, <2>2, <2>4 DEF IndexInv, InsertedRowsFit, SameBuyerMatch
  <2> QED BY <2>3, <2>5 DEF IndexInv
<1>3. ASSUME NEW r \in Req, StartRowOp(r) PROVE IndexInv'
  <2>1. /\ UNCHANGED tables
        /\ tx'[r].new = None /\ tx'[r].cancels = {} /\ tx'[r].expires = {}
        /\ \A q \in Req \ {r} : tx'[q] = tx[q] /\ req'[q] = req[q]
    BY <1>3 DEF StartRowOp, Typed, TypeOK, NoTx
  <2> QED BY <2>1, UnchangedRows, ShrinkIndexInv
<1>4. ASSUME NEW r \in Req, Fail(r) PROVE IndexInv'
  BY <1>4, UnchangedRows, AnswerIndexInv DEF Fail
<1>5. ASSUME NEW r \in Req, DeadlockAbort(r) PROVE IndexInv'
  <2>1. UNCHANGED tables /\ tx' = [tx EXCEPT ![r] = NoTx] /\ \A q \in Req \ {r} : req'[q] = req[q]
    BY <1>5 DEF DeadlockAbort, Answer, Typed, TypeOK
  <2>2. \A q \in Req : (tx'[q] = tx[q] /\ req'[q] = req[q]) \/ tx'[q] = NoTx
    BY <2>1 DEF Typed, TypeOK
  <2> QED BY <1>1, <2>1, <2>2, UnchangedRows
<1>6. CASE SweepExpiredHolds
  <2>1. RowsShrink
    BY <1>6 DEF SweepExpiredHolds, RowsShrink, Typed, TypeOK, Booking
  <2> QED BY <1>1, <1>6, <2>1 DEF SweepExpiredHolds
<1>7. CASE PruneIdempotencyKeys
  BY <1>1, <1>7 DEF PruneIdempotencyKeys, RowsShrink
<1>8. CASE Tick
  BY <1>1, <1>8, UnchangedRows DEF Tick
<1>9. CASE UNCHANGED vars
  BY <1>1, <1>9, UnchangedRows DEF vars, tables
<1> QED BY <1>2, <1>3, <1>4, <1>5, <1>6, <1>7, <1>8, <1>9, StatementIndexInv DEF Next

\* The indexes of empty tables hold.
LEMMA InitIndexInv == Init => IndexInv
  BY DEF Init, IndexInv, OneActivePerSeat, OneHeldPerBuyer, WritesDisjoint, InsertedRowsFit,
         Writes, NoTx, None

\* The store never oversells: for any number of concurrent requests and
\* workers, no two held or confirmed rows share a seat.
THEOREM NeverOversold == Spec => []OneActivePerSeat
<1>1. Spec => [](Typed /\ IndexInv)
  BY InitTyped, NextTyped, InitIndexInv, NextIndexInv, PTL DEF Spec
<1> QED BY <1>1, PTL DEF IndexInv

\* A buyer never has two holds in one match, however many tabs replace them.
THEOREM OneHoldPerBuyerMatch == Spec => []OneHeldPerBuyer
<1>1. Spec => [](Typed /\ IndexInv)
  BY InitTyped, NextTyped, InitIndexInv, NextIndexInv, PTL DEF Spec
<1> QED BY <1>1, PTL DEF IndexInv

-----------------------------------------------------------------------------
(***************************************************************************)
(* The advisory lock.  Holding it, a transaction sees every hold its buyer *)
(* can still have in the match, because nobody else can add one.           *)
(***************************************************************************)
AdvisoryExclusive ==
  \A r, q \in Req : r # q /\ HasBuyerLock(r) /\ HasBuyerLock(q) =>
                      ~SameBuyerMatch(req[r], req[q])

NoWritesPc == {"idle", "lookup", "begin", "lock", "clear", "release", "releaseRows",
               "relookup", "relookupKey"}

WritesFollowStatements ==
  \A r \in Req : /\ pc[r] \in NoWritesPc => tx[r].cancels = {}
                 /\ pc[r] \in NoWritesPc \cup {"expire", "expireRows"} => tx[r].expires = {}

PreviousHoldsTaken ==
  \A r \in Req : \A i \in BuyerRivals(r) :
    /\ pc[r] \in {"expire", "expireRows", "insert"} => bookings[i].seat = req[r].seat
    /\ pc[r] = "releaseRows" => bookings[i].seat = req[r].seat \/ i \in tx[r].wait

LockInv == AdvisoryExclusive /\ WritesFollowStatements /\ PreviousHoldsTaken

\* A step of r that adds no held row and does not give r the lock.
LEMMA StepLockInv ==
  ASSUME Typed, LockInv, NEW r \in Req, RowsShrink,
         \A q \in Req \ {r} : tx'[q] = tx[q] /\ req'[q] = req[q] /\ pc'[q] = pc[q],
         HasBuyerLock(r)' => HasBuyerLock(r) /\ req'[r] = req[r],
         pc'[r] \in NoWritesPc => tx'[r].cancels = {},
         pc'[r] \in NoWritesPc \cup {"expire", "expireRows"} => tx'[r].expires = {},
         \A i \in BuyerRivals(r)' :
           /\ pc'[r] \in {"expire", "expireRows", "insert"} => bookings'[i].seat = req'[r].seat
           /\ pc'[r] = "releaseRows" => bookings'[i].seat = req'[r].seat \/ i \in tx'[r].wait
  PROVE  LockInv'
<1>1. AdvisoryExclusive'
  <2>1. \A q \in Req \ {r} : HasBuyerLock(q)' = HasBuyerLock(q)
    BY DEF HasBuyerLock
  <2> QED BY <2>1 DEF LockInv, AdvisoryExclusive, SameBuyerMatch
<1>2. WritesFollowStatements'
  BY DEF LockInv, WritesFollowStatements
<1>3. PreviousHoldsTaken'
  <2> SUFFICES ASSUME NEW q \in Req \ {r}, NEW i \in BuyerRivals(q)'
               PROVE  /\ pc'[q] \in {"expire", "expireRows", "insert"} =>
                           bookings'[i].seat = req'[q].seat
                      /\ pc'[q] = "releaseRows" =>
                           bookings'[i].seat = req'[q].seat \/ i \in tx'[q].wait
    BY DEF PreviousHoldsTaken
  <2>1. i \in BuyerRivals(q) /\ bookings'[i].seat = bookings[i].seat
    BY DEF BuyerRivals, Writes, Held, SameBuyerMatch, RowsShrink
  <2> QED BY <2>1 DEF LockInv, PreviousHoldsTaken
<1> QED BY <1>1, <1>2, <1>3 DEF LockInv

\* r ends: it is answered, or aborted and started again.
LEMMA EndLockInv ==
  ASSUME Typed, LockInv, NEW r \in Req, RowsShrink, tx'[r] = NoTx,
         pc'[r] \in {"idle", "lookup", "begin", "relookup", "relookupKey"},
         \A q \in Req \ {r} : tx'[q] = tx[q] /\ req'[q] = req[q] /\ pc'[q] = pc[q]
  PROVE  LockInv'
<1>1. ~HasBuyerLock(r)' BY DEF HasBuyerLock, LockedPc
<1>2. NoTx.cancels = {} /\ NoTx.expires = {} BY DEF NoTx
<1> QED BY <1>1, <1>2, StepLockInv

\* The statements between the advisory lock and the INSERT.
LEMMA ReplaceLockInv ==
  ASSUME Typed, LockInv, NEW r \in Req,
         ReleasePrevious(r) \/ ReleaseRows(r) \/ ExpireStale(r) \/ ExpireRows(r)
  PROVE  LockInv'
<1>0. tx[r] \in Transaction BY DEF Typed, TypeOK
<1>1. /\ UNCHANGED <<tables, bookings, req>>
      /\ \A q \in Req \ {r} : tx'[q] = tx[q] /\ pc'[q] = pc[q]
  BY DEF ReleasePrevious, ReleaseRows, ExpireStale, ExpireRows, Goto, tables, Typed, TypeOK
<1>2. RowsShrink BY <1>1, UnchangedRows
<1>3. HasBuyerLock(r)
  BY DEF ReleasePrevious, ReleaseRows, ExpireStale, ExpireRows, HasBuyerLock, LockedPc
<1>4. CASE ReleasePrevious(r)
  <2>1. /\ pc[r] = "release" /\ tx'[r].wait = PreviousHolds(r)
        /\ tx'[r].cancels = tx[r].cancels /\ tx'[r].expires = tx[r].expires
        /\ pc'[r] = IF PreviousHolds(r) = {} THEN "expire" ELSE "releaseRows"
    BY <1>0, <1>4 DEF ReleasePrevious, Goto, Typed, TypeOK, Transaction
  <2>2. tx[r].cancels = {} /\ tx[r].expires = {}
    BY <2>1 DEF LockInv, WritesFollowStatements, NoWritesPc
  <2>3. \A i \in BuyerRivals(r)' : bookings[i].seat = req[r].seat \/ i \in PreviousHolds(r)
    BY <1>1 DEF BuyerRivals, PreviousHolds, Held, SameBuyerMatch
  <2> QED BY <1>1, <1>2, <1>3, <2>1, <2>2, <2>3, StepLockInv
<1>5. CASE ReleaseRows(r)
  <2>1. /\ pc[r] = "releaseRows" /\ tx'[r].cancels = {i \in tx[r].wait : Held(i)}
        /\ tx'[r].expires = tx[r].expires /\ pc'[r] = "expire"
    BY <1>0, <1>5 DEF ReleaseRows, Goto, Typed, TypeOK, Transaction
  <2>2. tx[r].cancels = {} /\ tx[r].expires = {}
    BY <2>1 DEF LockInv, WritesFollowStatements, NoWritesPc
  <2>3. \A i \in BuyerRivals(r)' : i \in BuyerRivals(r) /\ i \notin tx[r].wait
    BY <1>1, <2>1, <2>2 DEF BuyerRivals, Writes, Held, SameBuyerMatch
  <2>4. \A i \in BuyerRivals(r)' : bookings[i].seat = req[r].seat
    BY <2>1, <2>3 DEF LockInv, PreviousHoldsTaken
  <2> QED BY <1>1, <1>2, <1>3, <2>1, <2>2, <2>4, StepLockInv DEF NoWritesPc
<1>6. CASE ExpireStale(r)
  <2>1. /\ pc[r] = "expire" /\ tx'[r].cancels = tx[r].cancels /\ tx'[r].expires = tx[r].expires
        /\ pc'[r] \in {"insert", "expireRows"}
    BY <1>0, <1>6 DEF ExpireStale, Goto, Typed, TypeOK, Transaction
  <2>2. tx[r].expires = {}
    BY <2>1 DEF LockInv, WritesFollowStatements
  <2>3. \A i \in BuyerRivals(r)' : i \in BuyerRivals(r)
    BY <1>1, <2>1 DEF BuyerRivals, Writes, Held, SameBuyerMatch
  <2>4. \A i \in BuyerRivals(r)' : bookings[i].seat = req[r].seat
    BY <2>1, <2>3 DEF LockInv, PreviousHoldsTaken
  <2> QED BY <1>1, <1>2, <1>3, <2>1, <2>2, <2>4, StepLockInv DEF NoWritesPc
<1>7. CASE ExpireRows(r)
  <2>1. /\ pc[r] = "expireRows" /\ tx'[r].cancels = tx[r].cancels /\ pc'[r] = "insert"
    BY <1>0, <1>7 DEF ExpireRows, Goto, Typed, TypeOK, Transaction
  <2>2. tx[r].expires = {}
    BY <2>1 DEF LockInv, WritesFollowStatements
  <2>3. \A i \in BuyerRivals(r)' : i \in BuyerRivals(r)
    BY <1>1, <2>1, <2>2 DEF BuyerRivals, Writes, Held, SameBuyerMatch
  <2>4. \A i \in BuyerRivals(r)' : bookings[i].seat = req[r].seat
    BY <2>1, <2>3 DEF LockInv, PreviousHoldsTaken
  <2> QED BY <1>1, <1>2, <1>3, <2>1, <2>4, StepLockInv DEF NoWritesPc
<1> QED BY <1>4, <1>5, <1>6, <1>7

\* The one step that gives r the lock.
LEMMA AcquireLockInv ==
  ASSUME Typed, LockInv, NEW r \in Req, AcquireLock(r)
  PROVE  LockInv'
<1>1. /\ UNCHANGED <<bookings, req>> /\ tx' = tx
      /\ \A q \in Req \ {r} : pc'[q] = pc[q]
      /\ pc[r] = "lock" /\ pc'[r] \in {"release", "clear"}
  BY DEF AcquireLock, Goto, tables, Typed, TypeOK
<1>2. AdvisoryExclusive'
  <2>1. \A q \in Req \ {r} : HasBuyerLock(q)' = HasBuyerLock(q)
    BY <1>1 DEF HasBuyerLock
  <2>2. \A q \in Req \ {r} : HasBuyerLock(q) =>
          ~SameBuyerMatch(req[q], req[r]) /\ ~SameBuyerMatch(req[r], req[q])
    BY DEF AcquireLock, BuyerLockFree, SameBuyerMatch
  <2> QED BY <1>1, <2>1, <2>2 DEF LockInv, AdvisoryExclusive, SameBuyerMatch
<1>3. WritesFollowStatements'
  BY <1>1 DEF LockInv, WritesFollowStatements, NoWritesPc
<1>4. \A q \in Req : BuyerRivals(q)' = BuyerRivals(q)
  BY <1>1 DEF BuyerRivals, Writes, Held, SameBuyerMatch
<1>5. PreviousHoldsTaken'
  BY <1>1, <1>4 DEF LockInv, PreviousHoldsTaken
<1> QED BY <1>2, <1>3, <1>5 DEF LockInv

\* A hold that commits gives its buyer a row; the lock it still holds keeps
\* this buyer's other transactions from having looked already.
LEMMA CommitHoldLockInv ==
  ASSUME Typed, IndexInv, LockInv, NEW r \in Req, CommitHold(r)
  PROVE  LockInv'
<1> DEFINE n == tx[r].new
<1>1. /\ tx'[r] = NoTx /\ pc'[r] = "idle"
      /\ \A q \in Req \ {r} : tx'[q] = tx[q] /\ req'[q] = req[q] /\ pc'[q] = pc[q]
  BY CommitHoldRows
<1>2. /\ DOMAIN bookings' = DOMAIN bookings \cup {n} /\ bookings'[n] = NewRow(r)
      /\ \A i \in DOMAIN bookings :
           bookings'[i].seat = bookings[i].seat /\ bookings'[i].buyer = bookings[i].buyer
      /\ \A i \in DOMAIN bookings' : Held(i)' => i = n \/ (i \in DOMAIN bookings /\ Held(i))
  BY CommitHoldRows
<1>3. bookings'[n].seat = req[r].seat /\ bookings'[n].buyer = req[r].buyer
  BY <1>2 DEF NewRow
<1>4. HasBuyerLock(r) /\ ~HasBuyerLock(r)'
  BY <1>1 DEF CommitHold, HasBuyerLock, LockedPc
<1>5. \A q \in Req \ {r} : HasBuyerLock(q)' = HasBuyerLock(q)
  BY <1>1 DEF HasBuyerLock
<1>6. AdvisoryExclusive'
  BY <1>1, <1>4, <1>5 DEF LockInv, AdvisoryExclusive
<1>7. WritesFollowStatements'
  BY <1>1 DEF LockInv, WritesFollowStatements, NoTx
<1>8. PreviousHoldsTaken'
  <2> SUFFICES ASSUME NEW q \in Req \ {r}, NEW i \in BuyerRivals(q)',
                      pc'[q] \in {"expire", "expireRows", "insert", "releaseRows"}
               PROVE  /\ pc'[q] \in {"expire", "expireRows", "insert"} =>
                           bookings'[i].seat = req'[q].seat
                      /\ pc'[q] = "releaseRows" =>
                           bookings'[i].seat = req'[q].seat \/ i \in tx'[q].wait
    BY <1>1 DEF PreviousHoldsTaken
  <2>1. HasBuyerLock(q) BY <1>1 DEF HasBuyerLock, LockedPc
  <2>2. ~SameBuyerMatch(req[r], req[q])
    BY <1>4, <2>1 DEF LockInv, AdvisoryExclusive
  <2>3. i \in DOMAIN bookings' /\ Held(i)' /\ SameBuyerMatch(bookings'[i], req[q]) /\ i \notin Writes(q)
    BY <1>1 DEF BuyerRivals, Writes
  <2>4. i # n BY <1>3, <2>2, <2>3 DEF SameBuyerMatch
  <2>5. i \in BuyerRivals(q) /\ bookings'[i].seat = bookings[i].seat
    BY <1>2, <2>3, <2>4 DEF BuyerRivals, SameBuyerMatch
  <2> QED BY <1>1, <2>5 DEF LockInv, PreviousHoldsTaken
<1> QED BY <1>6, <1>7, <1>8 DEF LockInv

\* A step that leaves requests and transactions alone, and adds no held row.
LEMMA FrameLockInv ==
  ASSUME Typed, LockInv, RowsShrink, UNCHANGED <<pc, req, tx>>
  PROVE  LockInv'
<1>1. AdvisoryExclusive' /\ WritesFollowStatements'
  BY DEF LockInv, AdvisoryExclusive, WritesFollowStatements, HasBuyerLock, SameBuyerMatch
<1>2. \A q \in Req : \A i \in BuyerRivals(q)' :
        i \in BuyerRivals(q) /\ bookings'[i].seat = bookings[i].seat
  BY DEF BuyerRivals, Writes, Held, SameBuyerMatch, RowsShrink
<1>3. PreviousHoldsTaken'
  BY <1>2 DEF LockInv, PreviousHoldsTaken
<1> QED BY <1>1, <1>3 DEF LockInv

\* A request that ends without adding a row gives up the advisory lock.
LEMMA AnswerLockInv ==
  ASSUME Typed, LockInv, NEW r \in Req, NEW kind, NEW id, Answer(r, kind, id), RowsShrink
  PROVE  LockInv'
<1>1. /\ tx'[r] = NoTx /\ pc'[r] = "idle"
      /\ \A q \in Req \ {r} : tx'[q] = tx[q] /\ req'[q] = req[q] /\ pc'[q] = pc[q]
  BY DEF Answer, Typed, TypeOK
<1> QED BY <1>1, EndLockInv

\* The statements before the lock and after the INSERT.
LEMMA GotoLockInv ==
  ASSUME Typed, LockInv, NEW r \in Req, NEW stmt, NEW t, Goto(r, stmt, t),
         \/ stmt \in {"begin", "lock", "relookup", "relookupKey"} /\ t.cancels = {} /\ t.expires = {}
         \/ stmt = "release" /\ HasBuyerLock(r) /\ t.cancels = {} /\ t.expires = {}
         \/ stmt \in {"insertKey", "commit"} /\ HasBuyerLock(r)
         \/ stmt = "commit" /\ req[r].op # "hold"
  PROVE  LockInv'
<1>1. /\ UNCHANGED <<tables, req>> /\ tx'[r] = t /\ pc'[r] = stmt
      /\ \A q \in Req \ {r} : tx'[q] = tx[q] /\ pc'[q] = pc[q]
  BY DEF Goto, Typed, TypeOK
<1>2. RowsShrink BY <1>1, UnchangedRows
<1>3. HasBuyerLock(r)' => HasBuyerLock(r)
  BY <1>1 DEF HasBuyerLock, LockedPc
<1>4. /\ pc'[r] \notin {"expire", "expireRows", "insert", "releaseRows"}
      /\ pc'[r] \in NoWritesPc => t.cancels = {} /\ t.expires = {}
  BY <1>1 DEF NoWritesPc
<1> QED BY <1>1, <1>2, <1>3, <1>4, StepLockInv

\* Every statement of a request keeps the advisory lock's guarantee.
LEMMA StatementLockInv ==
  ASSUME Typed, IndexInv, LockInv, NEW r \in Req, Statement(r)
  PROVE  LockInv'
<1>0. tx[r] \in Transaction BY DEF Typed, TypeOK
<1>1. CASE \E kind, id : Answer(r, kind, id) /\ UNCHANGED tables
  BY <1>1, UnchangedRows, AnswerLockInv
<1>2. NoTx.cancels = {} /\ NoTx.expires = {} BY DEF NoTx
<1>3. pc[r] \in NoWritesPc => tx[r].cancels = {} /\ tx[r].expires = {}
  BY DEF LockInv, WritesFollowStatements
<1>4. CASE Lookup(r)
  <2>1. CASE Goto(r, "begin", NoTx) BY <1>2, <2>1, GotoLockInv
  <2>2. CASE Goto(r, "begin", [NoTx EXCEPT !.stale = keys[req[r].key].booking])
    <3> DEFINE t == [NoTx EXCEPT !.stale = keys[req[r].key].booking]
    <3>1. t.cancels = {} /\ t.expires = {} BY DEF NoTx
    <3> HIDE DEF t
    <3>2. Goto(r, "begin", t) BY <2>2 DEF t
    <3> QED BY <3>1, <3>2, GotoLockInv
  <2> QED BY <1>1, <1>4, <2>1, <2>2 DEF Lookup
<1>5. CASE Begin(r)
  <2> DEFINE t == [tx[r] EXCEPT !.now = clock]
  <2>1. t.cancels = {} /\ t.expires = {}
    BY <1>0, <1>3, <1>5 DEF Begin, NoWritesPc, Transaction
  <2> HIDE DEF t
  <2>2. Goto(r, "lock", t) BY <1>5 DEF Begin, t
  <2> QED BY <2>1, <2>2, GotoLockInv
<1>6. CASE ClearStaleKey(r)
  <2>1. PICK t : Goto(r, "release", t) /\ t.cancels = tx[r].cancels /\ t.expires = tx[r].expires
    BY <1>0, <1>6 DEF ClearStaleKey, Transaction
  <2>2. HasBuyerLock(r) /\ tx[r].cancels = {} /\ tx[r].expires = {}
    BY <1>3, <1>6 DEF ClearStaleKey, HasBuyerLock, LockedPc, NoWritesPc
  <2> QED BY <2>1, <2>2, GotoLockInv
<1>7. CASE InsertBooking(r)
  <2>1. PICK stmt, t : stmt \in {"insertKey", "commit"} /\ Goto(r, stmt, t)
    BY <1>7 DEF InsertBooking
  <2>2. HasBuyerLock(r) BY <1>7 DEF InsertBooking, HasBuyerLock, LockedPc
  <2> QED BY <2>1, <2>2, GotoLockInv
<1>8. CASE InsertKey(r)
  <2>1. HasBuyerLock(r) BY <1>8 DEF InsertKey, HasBuyerLock, LockedPc
  <2> QED BY <1>2, <1>8, <2>1, GotoLockInv DEF InsertKey
<1>9. CASE InsertRefused(r) \/ Relookup(r)
  BY <1>1, <1>2, <1>9, GotoLockInv DEF InsertRefused, Relookup
<1>10. CASE CommitCancel(r)
  <2>1. tx[r].new = None
    BY <1>10, ShapeOps DEF CommitCancel, Typed, ReqShape
  <2>2. \A i \in DOMAIN bookings : i # tx[r].new /\ bookings[i] \in Booking
    BY <2>1 DEF Typed, TypeOK, Id, None
  <2>3. RowsShrink
    BY <1>10, <2>2 DEF CommitCancel, RowAfter, RowsShrink, Booking
  <2> QED BY <1>10, <2>3, AnswerLockInv DEF CommitCancel
<1>11. CASE RowMissed(r) BY <1>1, <1>11 DEF RowMissed
<1>12. CASE ConfirmHold(r) \/ ReleaseHold(r)
  <2>1. RowsShrink BY <1>12, RowOpShrinks
  <2> QED BY <1>12, <2>1, AnswerLockInv DEF ConfirmHold, ReleaseHold
<1>13. CASE CancelRow(r)
  BY <1>13, GotoLockInv DEF CancelRow
<1> QED BY <1>4, <1>5, <1>6, <1>7, <1>8, <1>9, <1>10, <1>11, <1>12, <1>13, AcquireLockInv,
           ReplaceLockInv, CommitHoldLockInv DEF Statement

\* A step of the specification keeps the advisory lock's guarantee.
LEMMA NextLockInv == Typed /\ IndexInv /\ LockInv /\ [Next]_vars => LockInv'
<1> SUFFICES ASSUME Typed, IndexInv, LockInv, [Next]_vars PROVE LockInv'
  OBVIOUS
<1>1. ASSUME NEW r \in Req, PlaceHold(r) PROVE LockInv'
  <2>1. /\ UNCHANGED tables /\ tx' = tx /\ pc[r] = "idle"
        /\ pc'[r] \in {"begin", "lookup"}
        /\ \A q \in Req \ {r} : req'[q] = req[q] /\ pc'[q] = pc[q]
    BY <1>1 DEF PlaceHold, FirstStatement, Typed, TypeOK
  <2>2. tx[r].cancels = {} /\ tx[r].expires = {}
    BY <2>1 DEF LockInv, WritesFollowStatements, NoWritesPc
  <2>3. ~HasBuyerLock(r)' BY <2>1 DEF HasBuyerLock, LockedPc
  <2> QED BY <2>1, <2>2, <2>3, UnchangedRows, StepLockInv
<1>2. ASSUME NEW r \in Req, StartRowOp(r) PROVE LockInv'
  <2>1. /\ UNCHANGED tables /\ pc'[r] = "row"
        /\ \A q \in Req \ {r} : tx'[q] = tx[q] /\ req'[q] = req[q] /\ pc'[q] = pc[q]
    BY <1>2 DEF StartRowOp, Typed, TypeOK
  <2>2. ~HasBuyerLock(r)' BY <2>1 DEF HasBuyerLock, LockedPc
  <2>3. pc'[r] \notin NoWritesPc \cup {"expire", "expireRows", "insert"} BY <2>1 DEF NoWritesPc
  <2> QED BY <2>1, <2>2, <2>3, UnchangedRows, StepLockInv
<1>3. ASSUME NEW r \in Req, Fail(r) PROVE LockInv'
  BY <1>3, UnchangedRows, AnswerLockInv DEF Fail
<1>4. ASSUME NEW r \in Req, DeadlockAbort(r) PROVE LockInv'
  <2>1. /\ UNCHANGED tables /\ tx'[r] = NoTx /\ pc'[r] \in {"idle", "begin", "lookup"}
        /\ \A q \in Req \ {r} : tx'[q] = tx[q] /\ req'[q] = req[q] /\ pc'[q] = pc[q]
    BY <1>4 DEF DeadlockAbort, Answer, FirstStatement, Typed, TypeOK
  <2> QED BY <2>1, UnchangedRows, EndLockInv
<1>5. CASE SweepExpiredHolds
  <2>1. RowsShrink
    BY <1>5 DEF SweepExpiredHolds, RowsShrink, Typed, TypeOK, Booking
  <2> QED BY <1>5, <2>1, FrameLockInv DEF SweepExpiredHolds
<1>6. CASE PruneIdempotencyKeys
  BY <1>6, FrameLockInv DEF PruneIdempotencyKeys, RowsShrink
<1>7. CASE Tick
  BY <1>7, UnchangedRows, FrameLockInv DEF Tick
<1>8. CASE UNCHANGED vars
  BY <1>8, UnchangedRows, FrameLockInv DEF vars, tables
<1> QED BY <1>1, <1>2, <1>3, <1>4, <1>5, <1>6, <1>7, <1>8, StatementLockInv DEF Next

\* Nobody has the advisory lock at the start.
LEMMA InitLockInv == Init => LockInv
  BY DEF Init, LockInv, AdvisoryExclusive, WritesFollowStatements, PreviousHoldsTaken,
         HasBuyerLock, LockedPc, BuyerRivals, NoTx

\* The advisory lock alone keeps a buyer's holds apart: when placeHold reaches
\* its INSERT, ux_bookings_one_held_seat_per_buyer has nothing left to refuse
\* that ux_bookings_active_seat would not refuse as well.
THEOREM LockMakesIndexABackstop == Spec => []BuyerIndexIsBackstop
<1>1. Spec => [](Typed /\ IndexInv /\ LockInv)
  BY InitTyped, NextTyped, InitIndexInv, NextIndexInv, InitLockInv, NextLockInv, PTL DEF Spec
<1>2. Typed /\ LockInv => BuyerIndexIsBackstop
  <2> SUFFICES ASSUME Typed, LockInv, NEW r \in Req, pc[r] = "insert"
               PROVE  /\ \A i \in BuyerRivals(r) : bookings[i].seat = req[r].seat
                      /\ \A q \in Req \ {r} : tx[q].new # None => ~SameBuyerMatch(req[q], req[r])
    BY DEF BuyerIndexIsBackstop
  <2>1. HasBuyerLock(r) BY DEF HasBuyerLock, LockedPc
  <2>2. \A q \in Req : tx[q].new # None => HasBuyerLock(q)
    BY ShapeOps DEF Typed, ReqShape, HasBuyerLock, LockedPc
  <2> QED BY <2>1, <2>2 DEF LockInv, AdvisoryExclusive, PreviousHoldsTaken
<1> QED BY <1>1, <1>2, PTL
=============================================================================
