--------------------------- MODULE RefundOutboxProofs ---------------------------
(***************************************************************************)
(* Theorems about RefundOutbox, for any finite set of purchases and any    *)
(* malformed events, workers, lease, batch size and number of crashes.     *)
(***************************************************************************)
EXTENDS RefundOutbox, FiniteSetTheorems, TLAPS

Busy == {"gateway", "refund", "release", "mark"}

\* What a worker has in its memory is true of the tables, although a crash, a
\* lost answer or a lease that ran out lets several workers have one event.
Handed ==
  \A w \in Worker :
    /\ batch[w] \subseteq visible
    /\ wpc[w] \in Busy => hand[w] \in visible
    /\ wpc[w] \in {"gateway", "refund"} => hand[w] \in Purchase
    /\ wpc[w] = "refund" => w \in calls[hand[w]]
    /\ wpc[w] = "mark" /\ hand[w] \in Purchase => refund[hand[w]] = "refunded"

\* An event is visible together with the cancellation and its refunds row.
Committed ==
  \A b \in Purchase : /\ b \in visible => cancel[b] = "committed"
                      /\ cancel[b] = "committed" => refund[b] # "none"

OutboxInv == TypeOK /\ Handed /\ Committed /\ ProcessedMeansRefunded /\ RefundsAreReal

\* The stamp of one more cancellation is in range.
LEMMA StampType ==
  ASSUME NEW b \in Purchase
  PROVE  Cardinality({p \in Purchase : created[p] > 0 /\ p # b}) + 1 \in 0..Cardinality(Purchase)
<1> DEFINE S == {p \in Purchase : created[p] > 0 /\ p # b}
<1>1. IsFiniteSet(Purchase)
  BY OutboxAssumption
<1>2. IsFiniteSet(Purchase \ {b}) /\ Cardinality(Purchase \ {b}) = Cardinality(Purchase) - 1
  BY <1>1, FS_RemoveElement
<1>3. S \subseteq Purchase \ {b}
  OBVIOUS
<1>4. Cardinality(S) <= Cardinality(Purchase \ {b}) /\ IsFiniteSet(S)
  BY <1>2, <1>3, FS_Subset
<1>5. Cardinality(S) \in Nat /\ Cardinality(Purchase) \in Nat
  BY <1>1, <1>4, FS_CardinalityType
<1> HIDE DEF S
<1>6. Cardinality(S) + 1 \in 0..Cardinality(Purchase)
  BY <1>2, <1>4, <1>5
<1> QED BY <1>6 DEF S

\* Nothing is cancelled and nothing is claimed at first.
LEMMA OutboxInit == Init => OutboxInv
<1> SUFFICES ASSUME Init PROVE OutboxInv
  OBVIOUS
<1>1. TypeOK
  <2>1. Cardinality(Purchase) \in Nat
    BY OutboxAssumption, FS_CardinalityType
  <2>2. created \in [Event -> 0..Cardinality(Purchase)]
    BY <2>1 DEF Init
  <2>3. /\ age \in [Event -> Ages \cup {NoClaim}] /\ since \in [Worker -> Ages]
        /\ crashes \in 0..MaxCrashes
    BY OutboxAssumption DEF Init, Ages
  <2> QED BY <2>2, <2>3 DEF Init, TypeOK, Event, NoWorker
<1>2. Handed /\ Committed /\ ProcessedMeansRefunded /\ RefundsAreReal
  BY OutboxAssumption DEF Init, Handed, Busy, Committed, ProcessedMeansRefunded, RefundsAreReal
<1> QED BY <1>1, <1>2 DEF OutboxInv

\* A cancellation begins, commits or is rolled back.
LEMMA CancelInv ==
  ASSUME OutboxInv, NEW b \in Purchase,
         BeginCancel(b) \/ CommitCancel(b) \/ RollbackCancel(b)
  PROVE  OutboxInv'
<1> USE DEF OutboxInv
<1>0. b \in Event
  BY DEF Event
<1>1. CASE BeginCancel(b)
  <2>1. created' \in [Event -> 0..Cardinality(Purchase)]
    BY <1>0, <1>1, StampType DEF BeginCancel, TypeOK
  <2>2. TypeOK'
    BY <1>1, <2>1 DEF BeginCancel, TypeOK, workers
  <2>3. Handed'
    BY <1>1 DEF BeginCancel, Handed, workers
  <2>4. Committed' /\ ProcessedMeansRefunded' /\ RefundsAreReal'
    BY <1>1 DEF BeginCancel, TypeOK, Committed, ProcessedMeansRefunded, RefundsAreReal, workers
  <2> QED BY <2>2, <2>3, <2>4
<1>2. CASE CommitCancel(b)
  <2>1. refund[b] # "refunded" /\ b \notin processed
    BY <1>2 DEF CommitCancel, TypeOK, Committed, RefundsAreReal
  <2>2. TypeOK'
    BY <1>0, <1>2 DEF CommitCancel, TypeOK, workers
  <2>3. Handed'
    BY <1>2, <2>1 DEF CommitCancel, TypeOK, Handed, workers
  <2>4. Committed' /\ ProcessedMeansRefunded' /\ RefundsAreReal'
    BY <1>2, <2>1
    DEF CommitCancel, TypeOK, Committed, ProcessedMeansRefunded, RefundsAreReal, workers
  <2> QED BY <2>2, <2>3, <2>4
<1>3. CASE RollbackCancel(b)
  <2>1. TypeOK'
    BY <1>3 DEF RollbackCancel, TypeOK, workers
  <2>2. Handed'
    BY <1>3 DEF RollbackCancel, Handed, workers
  <2>3. Committed' /\ ProcessedMeansRefunded' /\ RefundsAreReal'
    BY <1>3 DEF RollbackCancel, TypeOK, Committed, ProcessedMeansRefunded, RefundsAreReal, workers
  <2> QED BY <2>1, <2>2, <2>3
<1> QED BY <1>1, <1>2, <1>3

\* A worker claims events, takes one from its batch, or is done with the batch.
LEMMA BatchInv ==
  ASSUME OutboxInv, NEW w \in Worker, PollUnprocessed(w) \/ NextEvent(w) \/ EndBatch(w)
  PROVE  OutboxInv'
<1> USE DEF OutboxInv
<1>1. CASE PollUnprocessed(w)
  <2>1. PICK S \in SUBSET Event :
          /\ OldestClaimable(S)
          /\ age' = [e \in Event |-> IF e \in S THEN 0 ELSE age[e]]
          /\ \/ /\ batch' = [batch EXCEPT ![w] = S]
                /\ wpc' = [wpc EXCEPT ![w] = "next"]
                /\ since' = [since EXCEPT ![w] = 0]
             \/ UNCHANGED <<batch, wpc, since>>
    BY <1>1 DEF PollUnprocessed
  <2>2. S \subseteq visible
    BY <2>1 DEF OldestClaimable, Claimable
  <2>3. 0 \in Ages
    BY OutboxAssumption DEF Ages
  <2>4. age' \in [Event -> Ages \cup {NoClaim}]
    BY <2>1, <2>3 DEF TypeOK
  <2>5. /\ batch' \in [Worker -> SUBSET Event] /\ since' \in [Worker -> Ages]
        /\ wpc' \in [Worker -> {"idle", "next", "gateway", "refund", "release", "mark"}]
    BY <2>1, <2>3 DEF TypeOK
  <2>6. TypeOK'
    BY <1>1, <2>4, <2>5 DEF PollUnprocessed, TypeOK
  <2>7. Handed'
    BY <1>1, <2>1, <2>2 DEF PollUnprocessed, TypeOK, Handed, Busy
  <2>8. Committed' /\ ProcessedMeansRefunded' /\ RefundsAreReal'
    BY <1>1 DEF PollUnprocessed, Committed, ProcessedMeansRefunded, RefundsAreReal
  <2> QED BY <2>6, <2>7, <2>8
<1>2. CASE NextEvent(w)
  <2>1. PICK e \in batch[w] :
          /\ hand' = [hand EXCEPT ![w] = e]
          /\ batch' = [batch EXCEPT ![w] = @ \ {e}]
          /\ wpc' = [wpc EXCEPT ![w] = IF e \in Bad THEN "mark" ELSE "gateway"]
    BY <1>2 DEF NextEvent
  <2>2. e \in visible /\ e \in Event
    BY <2>1 DEF Handed, TypeOK
  <2>3. TypeOK'
    BY <1>2, <2>1, <2>2 DEF NextEvent, TypeOK, db
  <2>4. Handed'
    BY <1>2, <2>1, <2>2, OutboxAssumption DEF NextEvent, TypeOK, Handed, Busy, Event, db
  <2>5. Committed' /\ ProcessedMeansRefunded' /\ RefundsAreReal'
    BY <1>2 DEF NextEvent, db, Committed, ProcessedMeansRefunded, RefundsAreReal
  <2> QED BY <2>3, <2>4, <2>5
<1>3. CASE EndBatch(w)
  <2>1. TypeOK' /\ Handed'
    BY <1>3 DEF EndBatch, TypeOK, Handed, Busy, db
  <2>2. Committed' /\ ProcessedMeansRefunded' /\ RefundsAreReal'
    BY <1>3 DEF EndBatch, db, Committed, ProcessedMeansRefunded, RefundsAreReal
  <2> QED BY <2>1, <2>2
<1> QED BY <1>1, <1>2, <1>3

\* The money goes out, for a purchase whose cancellation is committed.
LEMMA GatewayInv ==
  ASSUME OutboxInv, NEW w \in Worker, Gateway(w)
  PROVE  OutboxInv'
<1> USE DEF OutboxInv
<1>1. hand[w] \in Purchase /\ hand[w] \in visible /\ cancel[hand[w]] = "committed"
  BY DEF Gateway, Handed, Committed, Busy
<1>2. TypeOK'
  BY <1>1 DEF Gateway, TypeOK, db
<1>3. Handed'
  BY <1>1 DEF Gateway, TypeOK, Handed, Busy, db
<1>4. Committed' /\ ProcessedMeansRefunded' /\ RefundsAreReal'
  BY <1>1 DEF Gateway, TypeOK, db, Committed, ProcessedMeansRefunded, RefundsAreReal
<1> QED BY <1>2, <1>3, <1>4

\* The refund is recorded, was recorded before, or the statement failed.
LEMMA RecordInv ==
  ASSUME OutboxInv, NEW w \in Worker,
         MarkRefundFails(w) \/ \E b \in Purchase : MarkRefundStatus(w, b)
  PROVE  OutboxInv'
<1> USE DEF OutboxInv
<1> DEFINE b == hand[w]
<1>1. /\ wpc[w] = "refund" /\ b \in Purchase /\ w \in calls[b] /\ refund[b] # "none"
      /\ refund[b] \in {"pending", "refunded"}
  BY DEF MarkRefundFails, MarkRefundStatus, Handed, Committed, TypeOK, Busy
<1>2. /\ UNCHANGED <<cancel, created, visible, processed, age, batch, hand, since, calls, crashes>>
      /\ RecordRefund(w, b) \/ UNCHANGED <<refund, ref>>
  BY DEF MarkRefundFails, MarkRefundStatus
<1>3. \/ wpc' = [wpc EXCEPT ![w] = "release"]
      \/ wpc' = [wpc EXCEPT ![w] = "mark"] /\ refund'[b] = "refunded"
  <2>1. RecordRefund(w, b) => refund'[b] = "refunded"
    BY <1>1 DEF RecordRefund, TypeOK
  <2> QED BY <2>1 DEF MarkRefundFails, MarkRefundStatus
<1> HIDE DEF b
<1>4. /\ refund' \in [Purchase -> {"none", "pending", "refunded"}]
      /\ ref' \in [Purchase -> Worker \cup {NoWorker}]
  BY <1>1, <1>2 DEF RecordRefund, TypeOK
<1>5. \A p \in Purchase : /\ p # b => refund'[p] = refund[p] /\ ref'[p] = ref[p]
                          /\ refund[p] = "refunded" => refund'[p] = "refunded" /\ ref'[p] = ref[p]
                          /\ refund[p] # "none" => refund'[p] # "none"
                          /\ refund'[p] = "refunded" => refund[p] = "refunded" \/ (p = b /\ ref'[p] = w)
  BY <1>1, <1>2 DEF RecordRefund, TypeOK
<1>6. TypeOK'
  BY <1>2, <1>3, <1>4 DEF TypeOK
<1>7. Handed'
  BY <1>1, <1>2, <1>3, <1>5 DEF Handed, TypeOK, Busy, b
<1>8. Committed' /\ ProcessedMeansRefunded'
  BY <1>2, <1>5 DEF Committed, ProcessedMeansRefunded
<1>9. RefundsAreReal'
  BY <1>1, <1>2, <1>5 DEF RefundsAreReal
<1> QED BY <1>6, <1>7, <1>8, <1>9

\* The event is released or marked, or the statement failed; the loop goes on.
LEMMA FinishInv ==
  ASSUME OutboxInv, NEW w \in Worker,
         ReleaseClaim(w) \/ MarkProcessedFails(w) \/ \E e \in Event : MarkProcessed(w, e)
  PROVE  OutboxInv'
<1> USE DEF OutboxInv
<1>1. /\ wpc' = [wpc EXCEPT ![w] = "next"] /\ hand' = [hand EXCEPT ![w] = NoEvent]
      /\ UNCHANGED <<cancel, refund, ref, created, visible, batch, since, calls, crashes>>
  BY DEF ReleaseClaim, MarkProcessedFails, MarkProcessed, Continue, db
<1>2. wpc[w] \in Busy /\ hand[w] \in visible /\ hand[w] \in Event
  BY DEF ReleaseClaim, MarkProcessedFails, MarkProcessed, Handed, TypeOK, Busy
<1>3. age' \in [Event -> Ages \cup {NoClaim}]
  BY <1>2 DEF ReleaseClaim, MarkProcessedFails, MarkProcessed, TypeOK, db
<1>4. \/ processed' = processed
      \/ processed' = processed \cup {hand[w]} /\ wpc[w] = "mark"
  BY DEF ReleaseClaim, MarkProcessedFails, MarkProcessed, db
<1>5. TypeOK'
  BY <1>1, <1>2, <1>3, <1>4 DEF TypeOK
<1>6. Handed'
  BY <1>1 DEF Handed, TypeOK, Busy
<1>7. ProcessedMeansRefunded'
  BY <1>1, <1>4 DEF ProcessedMeansRefunded, Handed
<1>8. Committed' /\ RefundsAreReal'
  BY <1>1 DEF Committed, RefundsAreReal
<1> QED BY <1>5, <1>6, <1>7, <1>8

\* A crash forgets the worker's memory, and time ages the claims.
LEMMA CrashTickInv ==
  ASSUME OutboxInv, Tick \/ \E w \in Worker : Crash(w)
  PROVE  OutboxInv'
<1> USE DEF OutboxInv
<1>1. CASE Tick
  <2>1. /\ age' \in [Event -> Ages \cup {NoClaim}] /\ since' \in [Worker -> Ages]
    BY <1>1, OutboxAssumption DEF Tick, TypeOK, Ages, NoClaim
  <2>2. TypeOK'
    BY <1>1, <2>1 DEF Tick, TypeOK
  <2>3. Handed' /\ Committed' /\ ProcessedMeansRefunded' /\ RefundsAreReal'
    BY <1>1 DEF Tick, Handed, Committed, ProcessedMeansRefunded, RefundsAreReal
  <2> QED BY <2>2, <2>3
<1>2. CASE \E w \in Worker : Crash(w)
  <2>1. PICK w \in Worker : Crash(w)
    BY <1>2
  <2>2. crashes' \in 0..MaxCrashes
    BY <2>1, OutboxAssumption DEF Crash, TypeOK
  <2>3. TypeOK'
    BY <2>1, <2>2 DEF Crash, TypeOK, db
  <2>4. Handed'
    BY <2>1 DEF Crash, TypeOK, Handed, Busy, db
  <2>5. Committed' /\ ProcessedMeansRefunded' /\ RefundsAreReal'
    BY <2>1 DEF Crash, db, Committed, ProcessedMeansRefunded, RefundsAreReal
  <2> QED BY <2>3, <2>4, <2>5
<1> QED BY <1>1, <1>2

\* The invariant the theorems follow from.
LEMMA OutboxInvariant == Spec => []OutboxInv
<1>1. OutboxInv /\ [Next]_vars => OutboxInv'
  <2> SUFFICES ASSUME OutboxInv, [Next]_vars PROVE OutboxInv'
    OBVIOUS
  <2>1. CASE \E b \in Purchase : BeginCancel(b) \/ CommitCancel(b) \/ RollbackCancel(b)
    BY <2>1, CancelInv
  <2>2. CASE \E w \in Worker : Step(w)
    BY <2>2, BatchInv, GatewayInv, RecordInv, FinishInv DEF Step
  <2>3. CASE Tick \/ \E w \in Worker : Crash(w)
    BY <2>3, CrashTickInv
  <2>4. CASE UNCHANGED vars
    BY <2>4 DEF vars, OutboxInv, TypeOK, Handed, Committed, ProcessedMeansRefunded, RefundsAreReal
  <2> QED BY <2>1, <2>2, <2>3, <2>4 DEF Next
<1> QED BY <1>1, OutboxInit, PTL DEF Spec

\* The outbox's state keeps its types; in particular only an event whose
\* cancellation has committed is ever marked.
THEOREM OutboxTyped == Spec => []TypeOK
<1>1. OutboxInv => TypeOK
  BY DEF OutboxInv
<1> QED BY <1>1, OutboxInvariant, PTL

\* Every event that is marked has its refund recorded, whatever crashes or fails
\* between the statements of processBatch.
THEOREM NoRefundForgotten == Spec => []ProcessedMeansRefunded
<1>1. OutboxInv => ProcessedMeansRefunded
  BY DEF OutboxInv
<1> QED BY <1>1, OutboxInvariant, PTL

\* The gateway is called only for committed cancellations, and a recorded refund
\* names a call that was made.
THEOREM MoneyFollowsCancellation == Spec => []RefundsAreReal
<1>1. OutboxInv => RefundsAreReal
  BY DEF OutboxInv
<1> QED BY <1>1, OutboxInvariant, PTL

\* A repeated delivery never overwrites the refund recorded first.
THEOREM FirstRefundStands == Spec => RefundIsFinal
<1> DEFINE Stands == \A b \in Purchase : refund[b] = "refunded" =>
                       refund'[b] = refund[b] /\ ref'[b] = ref[b]
<1>1. OutboxInv /\ [Next]_vars => [Stands]_vars
  <2> SUFFICES ASSUME OutboxInv, Next, NEW b \in Purchase, refund[b] = "refunded"
               PROVE  refund'[b] = refund[b] /\ ref'[b] = ref[b]
    OBVIOUS
  <2>1. cancel[b] = "committed"
    BY DEF OutboxInv, RefundsAreReal
  <2>2. CASE \E p \in Purchase : BeginCancel(p) \/ CommitCancel(p) \/ RollbackCancel(p)
    BY <2>1, <2>2 DEF BeginCancel, CommitCancel, RollbackCancel, OutboxInv, TypeOK
  <2>3. CASE \E w \in Worker : MarkRefundFails(w) \/ \E p \in Purchase : MarkRefundStatus(w, p)
    BY <2>3 DEF MarkRefundFails, MarkRefundStatus, RecordRefund, OutboxInv, TypeOK
  <2>4. CASE Tick \/ \E w \in Worker : \/ Crash(w) \/ PollUnprocessed(w) \/ NextEvent(w)
                                       \/ EndBatch(w) \/ Gateway(w) \/ ReleaseClaim(w)
                                       \/ MarkProcessedFails(w)
                                       \/ \E e \in Event : MarkProcessed(w, e)
    BY <2>4 DEF Tick, Crash, PollUnprocessed, NextEvent, EndBatch, Gateway, ReleaseClaim,
                MarkProcessedFails, MarkProcessed, db
  <2> QED BY <2>2, <2>3, <2>4 DEF Next, Step
<1> QED BY <1>1, OutboxInvariant, PTL DEF Spec, RefundIsFinal
=============================================================================
