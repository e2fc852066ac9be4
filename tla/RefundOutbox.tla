----------------------------- MODULE RefundOutbox -----------------------------
(***************************************************************************)
(* The transactional outbox: CancelBooking writes a pending refund and an  *)
(* event in one commit; the workers of cmd/worker claim events under a     *)
(* lease, call the payment gateway, record the refund and mark the event   *)
(* processed.  A worker may crash between any two statements and any       *)
(* statement may fail, before or after the server applied it.              *)
(*                                                                         *)
(* Time is relative: age[e] is how long ago claimed_at was stamped, and it *)
(* stops counting once the lease has run out, so no bound on time is       *)
(* needed.  created[e] is the order of the created_at stamps, which now()  *)
(* takes at BEGIN: an event may become visible after a younger one.        *)
(***************************************************************************)
EXTENDS Integers, FiniteSets

CONSTANTS
  Purchase,   \* confirmed bookings, each the subject of at most one event
  Bad,        \* events with an unknown type or an unreadable payload
  Worker,     \* worker processes
  NoEvent,    \* a worker has no event in hand
  Lease,      \* claimLeaseTTL
  BatchSize,  \* cfg.OutboxBatchSize
  MaxCrashes  \* bound on worker crashes

ASSUME OutboxAssumption ==
  /\ Purchase \cap Bad = {} /\ NoEvent \notin Purchase \cup Bad
  /\ IsFiniteSet(Purchase)
  /\ Lease \in Nat /\ BatchSize \in Nat \ {0} /\ MaxCrashes \in Nat

VARIABLES
  cancel,     \* the CancelBooking transaction of every purchase
  refund,     \* status of its refunds row
  ref,        \* external_ref: the worker whose gateway call it names
  created,    \* order of created_at among events
  visible,    \* committed events
  processed,  \* events with processed_at set
  age,        \* time since claimed_at, or NoClaim
  wpc,        \* the statement each worker runs next
  batch,      \* events a worker has polled and not begun
  hand,       \* the event a worker is processing
  since,      \* time since the worker's last poll (history)
  calls,      \* workers that called the gateway for a purchase
  crashes

vars == <<cancel, refund, ref, created, visible, processed, age, wpc, batch,
          hand, since, calls, crashes>>
db == <<cancel, refund, ref, created, visible, processed, age>>

Event == Purchase \cup Bad
NoClaim == -1
Ages == 0..(Lease + 1)
NoWorker == NoEvent

TypeOK ==
  /\ cancel \in [Purchase -> {"none", "open", "committed"}]
  /\ refund \in [Purchase -> {"none", "pending", "refunded"}]
  /\ ref \in [Purchase -> Worker \cup {NoWorker}]
  /\ created \in [Event -> 0..Cardinality(Purchase)]
  /\ visible \subseteq Event /\ processed \subseteq visible
  /\ age \in [Event -> Ages \cup {NoClaim}]
  /\ wpc \in [Worker -> {"idle", "next", "gateway", "refund", "release", "mark"}]
  /\ batch \in [Worker -> SUBSET Event]
  /\ hand \in [Worker -> Event \cup {NoEvent}]
  /\ since \in [Worker -> Ages]
  /\ calls \in [Purchase -> SUBSET Worker]
  /\ crashes \in 0..MaxCrashes

\* Bad events are older rows: some other version of the program wrote them.
Init ==
  /\ cancel = [b \in Purchase |-> "none"]
  /\ refund = [b \in Purchase |-> "none"]
  /\ ref = [b \in Purchase |-> NoWorker]
  /\ created = [e \in Event |-> 0]
  /\ visible = Bad
  /\ processed = {}
  /\ age = [e \in Event |-> NoClaim]
  /\ wpc = [w \in Worker |-> "idle"]
  /\ batch = [w \in Worker |-> {}]
  /\ hand = [w \in Worker |-> NoEvent]
  /\ since = [w \in Worker |-> Lease + 1]
  /\ calls = [b \in Purchase |-> {}]
  /\ crashes = 0

(***************************************************************************)
(* CancelBooking: BEGIN, then the CAS, the refunds row and the event, all  *)
(* visible at COMMIT or not at all.                                        *)
(***************************************************************************)
workers == <<wpc, batch, hand, since, calls, crashes>>

BeginCancel(b) ==
  /\ cancel[b] = "none"
  /\ cancel' = [cancel EXCEPT ![b] = "open"]
  /\ created' = [created EXCEPT ![b] =
                   Cardinality({p \in Purchase : created[p] > 0 /\ p # b}) + 1]
  /\ UNCHANGED <<refund, ref, visible, processed, age, workers>>

CommitCancel(b) ==
  /\ cancel[b] = "open"
  /\ cancel' = [cancel EXCEPT ![b] = "committed"]
  /\ refund' = [refund EXCEPT ![b] = "pending"]
  /\ visible' = visible \cup {b}
  /\ UNCHANGED <<ref, created, processed, age, workers>>

RollbackCancel(b) ==
  /\ cancel[b] = "open"
  /\ cancel' = [cancel EXCEPT ![b] = "none"]
  /\ UNCHANGED <<refund, ref, created, visible, processed, age, workers>>

(***************************************************************************)
(* The worker.                                                             *)
(***************************************************************************)
\* Mutant: uncommitted events are read.
ClaimableUncommitted(e) == e \in Event \ processed /\ (age[e] = NoClaim \/ age[e] > Lease)

Claimable(e) == /\ e \in visible \ processed
                /\ age[e] = NoClaim \/ age[e] > Lease

\* The oldest BatchSize claimable events; the UPDATE returns them in no order.
OldestClaimable(S) ==
  LET pool == {e \in Event : Claimable(e)} IN
  /\ S \subseteq pool /\ S # {} /\ Cardinality(S) <= BatchSize
  /\ Cardinality(S) < BatchSize => S = pool
  /\ \A e \in S, d \in pool \ S : created[e] <= created[d]

PollUnprocessed(w) ==
  /\ wpc[w] = "idle"
  /\ \E S \in SUBSET Event :
       /\ OldestClaimable(S)
       /\ age' = [e \in Event |-> IF e \in S THEN 0 ELSE age[e]]
       /\ \/ /\ batch' = [batch EXCEPT ![w] = S]
             /\ wpc' = [wpc EXCEPT ![w] = "next"]
             /\ since' = [since EXCEPT ![w] = 0]
          \/ UNCHANGED <<batch, wpc, since>>        \* the answer is lost
  /\ UNCHANGED <<cancel, refund, ref, created, visible, processed, hand, calls, crashes>>

\* Mutants: a malformed event is left unmarked; the gateway is not called.
NextEventSkipsBad(w) ==
  /\ wpc[w] = "next" /\ batch[w] # {}
  /\ \E e \in batch[w] :
       /\ hand' = [hand EXCEPT ![w] = e]
       /\ batch' = [batch EXCEPT ![w] = @ \ {e}]
       /\ wpc' = [wpc EXCEPT ![w] = IF e \in Bad THEN "release" ELSE "gateway"]
  /\ UNCHANGED <<db, since, calls, crashes>>
NextEventNoGateway(w) ==
  /\ wpc[w] = "next" /\ batch[w] # {}
  /\ \E e \in batch[w] :
       /\ hand' = [hand EXCEPT ![w] = e]
       /\ batch' = [batch EXCEPT ![w] = @ \ {e}]
       /\ wpc' = [wpc EXCEPT ![w] = IF e \in Bad THEN "mark" ELSE "refund"]
  /\ UNCHANGED <<db, since, calls, crashes>>

NextEvent(w) ==
  /\ wpc[w] = "next" /\ batch[w] # {}
  /\ \E e \in batch[w] :
       /\ hand' = [hand EXCEPT ![w] = e]
       /\ batch' = [batch EXCEPT ![w] = @ \ {e}]
       /\ wpc' = [wpc EXCEPT ![w] = IF e \in Bad THEN "mark" ELSE "gateway"]
  /\ UNCHANGED <<db, since, calls, crashes>>

EndBatch(w) ==
  /\ wpc[w] = "next" /\ batch[w] = {}
  /\ wpc' = [wpc EXCEPT ![w] = "idle"]
  /\ UNCHANGED <<db, batch, hand, since, calls, crashes>>

Gateway(w) ==
  /\ wpc[w] = "gateway"
  /\ calls' = [calls EXCEPT ![hand[w]] = @ \cup {w}]
  /\ wpc' = [wpc EXCEPT ![w] = "refund"]
  /\ UNCHANGED <<db, batch, hand, since, crashes>>

\* Mutant: the UPDATE does not ask for status = 'pending'.
RecordRefundAgain(w, b) ==
  /\ refund' = [refund EXCEPT ![b] = "refunded"]
  /\ ref' = [ref EXCEPT ![b] = w]

\* UPDATE refunds ... WHERE id = $4 AND status = 'pending'.
RecordRefund(w, b) ==
  IF refund[b] = "pending"
  THEN /\ refund' = [refund EXCEPT ![b] = "refunded"]
       /\ ref' = [ref EXCEPT ![b] = w]
  ELSE UNCHANGED <<refund, ref>>

MarkRefundStatus(w, b) ==
  /\ wpc[w] = "refund" /\ hand[w] = b
  /\ RecordRefund(w, b)
  /\ wpc' = [wpc EXCEPT ![w] = "mark"]
  /\ UNCHANGED <<cancel, created, visible, processed, age, batch, hand, since, calls, crashes>>

\* Mutant: the event is marked processed although its refund was not recorded.
MarkRefundErrorIgnored(w) ==
  /\ wpc[w] = "refund"
  /\ RecordRefund(w, hand[w]) \/ UNCHANGED <<refund, ref>>
  /\ wpc' = [wpc EXCEPT ![w] = "mark"]
  /\ UNCHANGED <<cancel, created, visible, processed, age, batch, hand, since, calls, crashes>>

\* The statement failed, or its success was not reported.
MarkRefundFails(w) ==
  /\ wpc[w] = "refund"
  /\ RecordRefund(w, hand[w]) \/ UNCHANGED <<refund, ref>>
  /\ wpc' = [wpc EXCEPT ![w] = "release"]
  /\ UNCHANGED <<cancel, created, visible, processed, age, batch, hand, since, calls, crashes>>

\* Back to the loop; the event leaves the worker's hand.
Continue(w) ==
  /\ wpc' = [wpc EXCEPT ![w] = "next"]
  /\ hand' = [hand EXCEPT ![w] = NoEvent]
  /\ UNCHANGED <<batch, since, calls, crashes>>

ReleaseClaim(w) ==
  /\ wpc[w] = "release"
  /\ \/ hand[w] \notin processed /\ age' = [age EXCEPT ![hand[w]] = NoClaim]
     \/ UNCHANGED age         \* already processed, or the statement failed
  /\ UNCHANGED <<cancel, refund, ref, created, visible, processed>>
  /\ Continue(w)

MarkProcessed(w, e) ==
  /\ wpc[w] = "mark" /\ hand[w] = e
  /\ processed' = processed \cup {e}
  /\ UNCHANGED <<cancel, refund, ref, created, visible, age>>
  /\ Continue(w)

MarkProcessedFails(w) ==
  /\ wpc[w] = "mark"
  /\ UNCHANGED db
  /\ Continue(w)

\* The process dies and is restarted; its claims stay behind.
Crash(w) ==
  /\ wpc[w] # "idle" /\ crashes < MaxCrashes
  /\ crashes' = crashes + 1
  /\ wpc' = [wpc EXCEPT ![w] = "idle"]
  /\ batch' = [batch EXCEPT ![w] = {}]
  /\ hand' = [hand EXCEPT ![w] = NoEvent]
  /\ UNCHANGED <<db, since, calls>>

Tick ==
  /\ age' = [e \in Event |-> IF age[e] \in 0..Lease THEN age[e] + 1 ELSE age[e]]
  /\ since' = [w \in Worker |-> IF since[w] <= Lease THEN since[w] + 1 ELSE since[w]]
  /\ UNCHANGED <<cancel, refund, ref, created, visible, processed, wpc, batch, hand,
                 calls, crashes>>

-----------------------------------------------------------------------------
Step(w) == PollUnprocessed(w) \/ NextEvent(w) \/ EndBatch(w) \/ Gateway(w) \/ ReleaseClaim(w)
             \/ MarkRefundFails(w) \/ MarkProcessedFails(w)
             \/ \E b \in Purchase : MarkRefundStatus(w, b)
             \/ \E e \in Event : MarkProcessed(w, e)

Next ==
  \/ \E b \in Purchase : BeginCancel(b) \/ CommitCancel(b) \/ RollbackCancel(b)
  \/ \E w \in Worker : Step(w) \/ Crash(w)
  \/ Tick

Spec == Init /\ [][Next]_vars

\* The worker loops on its ticker, leases run out because time passes, and a
\* database that is asked again and again does not fail every time.
Fairness ==
  /\ WF_vars(Tick)
  /\ \A w \in Worker : WF_vars(Step(w))
  /\ SF_vars(\E w \in Worker : PollUnprocessed(w) /\ wpc'[w] = "next")
  /\ \A b \in Purchase : SF_vars(\E w \in Worker : MarkRefundStatus(w, b))
  /\ \A e \in Event : SF_vars(\E w \in Worker : MarkProcessed(w, e))

FairSpec == Spec /\ Fairness

-----------------------------------------------------------------------------
\* An event is closed only when its refund is recorded: no crash, failed
\* statement or second worker makes the outbox forget a refund.
ProcessedMeansRefunded ==
  \A b \in Purchase : b \in processed => refund[b] = "refunded"

\* Money follows a cancellation, and the books follow the money: a refund is
\* recorded only for a committed cancellation, with the reference of a gateway
\* call that was made.
RefundsAreReal ==
  \A b \in Purchase :
    /\ calls[b] # {} => cancel[b] = "committed"
    /\ refund[b] = "refunded" => ref[b] \in calls[b]

\* The first recorded refund stands: a worker that repeats the work after its
\* lease ran out does not overwrite the reference another worker recorded.
RefundIsFinal ==
  [][\A b \in Purchase : refund[b] = "refunded" => refund'[b] = refund[b] /\ ref'[b] = ref[b]]_vars

\* No event is stuck, and none blocks those behind it: every committed event,
\* malformed ones included, is marked processed in the end.  With
\* ProcessedMeansRefunded, every committed cancellation is refunded.
EveryEventProcessed ==
  \A e \in Event : e \in visible ~> e \in processed

-----------------------------------------------------------------------------
\* PollUnprocessed: two workers never claim the same rows.  A claim is a lease,
\* so two workers should not both be inside their lease on one event; but
\* ReleaseClaim clears a claim without asking whose it is.
LeaseIsExclusive ==
  \A w, v \in Worker, e \in Event :
    /\ w # v /\ e \in batch[w] \cup {hand[w]} /\ e \in batch[v] \cup {hand[v]}
    => since[w] > Lease \/ since[v] > Lease
=============================================================================
