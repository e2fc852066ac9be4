------------------------------- MODULE WebClient -------------------------------
(***************************************************************************)
(* The page in the browser: one event loop with timers, fetches in flight  *)
(* and a user, against a server that may refuse, fail or lose any request. *)
(* An action is one event handler or the continuation of one await.        *)
(*                                                                         *)
(* A seat request is only old or new: sent before the last mutation that   *)
(* the server applied, or after it.  What its answer shows is up to the    *)
(* server's cache, which may return a map from before the request          *)
(* (SeatCache).  Bounds: one purchase is made in all, and one mutation may *)
(* be late.                                                                *)
(***************************************************************************)
EXTENDS Naturals

CONSTANTS Buyer, NoBuyer,
          Anon    \* the buyer of an empty box

ASSUME WebAssumption == NoBuyer \notin Buyer /\ Anon \in Buyer

VARIABLES
  bookings,      \* the server's purchase of each buyer
  visible,       \* document.visibilityState
  buyer,         \* the buyer in the input box
  activeHold,    \* the page shows a hold
  mut,           \* the mutation in flight: [op, stage]
  late,          \* a mutation the page has given up, still on its way: [op, buyer]
  acked,         \* the server's last mutation was answered with success
  fetch,         \* the seat request in flight: "none", "old" or "new"
  again,         \* a refreshAfterMutation waits to send another one
  waiting,       \* what the calls that will scheduleNextRefresh still await:
                 \* the seat request, the bookings request, or both
  seatTimer,     \* refreshTimer is set
  shown,         \* what the last seat request brought: the map of an "old" or a
                 \* "new" request, or the message of a "failed" one
  req,           \* bookingRequest: [buyer, stage, why]
  poll,          \* the refund timer's callback awaits bookingRequest
  refundTimer,   \* refundStatusTimer is set
  known,         \* the buyer's purchase as the page shows it
  gap            \* no bookings were rendered since the return to the page

mapVars == <<acked, fetch, again, shown>>
seatVars == <<mapVars, waiting, seatTimer>>
bookVars == <<req, poll, refundTimer, known, gap>>
vars == <<bookings, visible, buyer, activeHold, mut, late, seatVars, bookVars>>

Purchase == {"none", "confirmed", "pending", "refunded"}
Op == {"hold", "confirm", "release", "cancel"}
Idle == [op |-> "none", stage |-> "idle"]
NoLate == [op |-> "none", buyer |-> NoBuyer]
NoReq == [buyer |-> NoBuyer, stage |-> "none", why |-> "none"]

TypeOK ==
  /\ bookings \in [Buyer -> Purchase] /\ known \in Purchase
  /\ buyer \in Buyer
  /\ late \in [op : Op \cup {"none"}, buyer : Buyer \cup {NoBuyer}]
  /\ mut \in [op : Op \cup {"none"},
              stage : {"idle", "sent", "applied", "reload"}]
  /\ fetch \in {"none", "old", "new"}
  /\ waiting \subseteq {"seats", "bookings", "both"}
  /\ req \in [buyer : Buyer \cup {NoBuyer}, stage : Purchase \cup {"sent"},
              why : {"none", "reload", "other"}]
  /\ shown \in {"old", "new", "failed"}
  /\ {visible, activeHold, acked, again, seatTimer, poll, refundTimer, gap} \subseteq BOOLEAN
  /\ poll => req # NoReq
  /\ again => fetch # "none"
  /\ fetch # "none" <=> "seats" \in waiting \/ "both" \in waiting
  /\ "bookings" \in waiting \/ "both" \in waiting => req # NoReq

(***************************************************************************)
(* The seat map.                                                           *)
(***************************************************************************)
\* refreshSeats starts a request or joins the one in flight.
RefreshSeats == IF fetch = "none" THEN "new" ELSE fetch

\* Mutant: the in-flight read is joined, whenever it began.
AfterMutationJoins(others) ==
  /\ fetch' = RefreshSeats
  /\ waiting' = others \cup {"seats"}
  /\ UNCHANGED <<again, shown>>

\* refreshAfterMutation: an earlier request is let finish and another one
\* follows.  others is what the other calls await.
AfterMutation(others) ==
  /\ fetch' = RefreshSeats
  /\ again' = (again \/ fetch # "none")
  /\ waiting' = IF fetch = "none" THEN others \cup {"seats"} ELSE others
  /\ UNCHANGED shown

\* Mutant: a call that awaited both requests stops when the bookings end last.
RearmedBySeats(end) == IF end = "seats" /\ end \in waiting THEN visible ELSE seatTimer

\* scheduleNextRefresh, by the calls whose last awaited request was this one.
Rearmed(end) == IF end \in waiting THEN visible ELSE seatTimer

\* What the calls still await after the seat request, or the bookings request.
AfterSeats == {IF w = "both" THEN "bookings" ELSE w : w \in waiting \ {"seats"}}
AfterBookings == {IF w = "both" THEN "seats" ELSE w : w \in waiting \ {"bookings"}}

\* The seat request is answered, or fails.
SeatsDone(ok) ==
  /\ fetch # "none"
  /\ shown' = IF ok THEN fetch ELSE "failed"
  /\ fetch' = IF again THEN "new" ELSE "none"
  /\ again' = FALSE
  /\ waiting' = IF again THEN AfterSeats \cup {"seats"} ELSE AfterSeats
  /\ seatTimer' = Rearmed("seats")
  /\ UNCHANGED <<bookings, visible, buyer, activeHold, mut, late, acked, bookVars>>

\* The timer of scheduleNextRefresh.
SeatTimer ==
  /\ seatTimer
  /\ seatTimer' = FALSE
  /\ fetch' = RefreshSeats
  /\ waiting' = waiting \cup {"seats"}
  /\ UNCHANGED <<bookings, visible, buyer, activeHold, mut, late, acked, again, shown,
                 bookVars>>

(***************************************************************************)
(* The bookings and their refunds.                                         *)
(***************************************************************************)
\* scheduleRefundStatusRefresh.
Scheduled(k) == visible /\ k = "pending"

\* renderBookings.
Render(k) == known' = k /\ refundTimer' = Scheduled(k) /\ gap' = FALSE

\* Mutant: after a failure the callback does not ask again.
ContinuePollOnce == refundTimer' = refundTimer

\* The end of the awaited request, whatever it was, for the timer's callback.
ContinuePoll == refundTimer' = (refundTimer \/ (poll /\ Scheduled(known)))

\* The bookings request is over, and so is Promise.all for who awaited it last.
BookingsOver == waiting' = AfterBookings /\ seatTimer' = Rearmed("bookings")

\* refreshBookings with force: an older request is aborted, its promise ends.
ForceRefresh ==
  /\ req' = [buyer |-> buyer, stage |-> "sent", why |-> "other"]
  /\ poll' = FALSE
  /\ ContinuePoll

\* refreshBookings without force joins a request of the same buyer; one of
\* another buyer was aborted when the box changed.
Refresh ==
  IF req.buyer = buyer THEN UNCHANGED req
  ELSE req' = [buyer |-> buyer, stage |-> "sent", why |-> "other"]

ServeBookings ==
  /\ req.stage = "sent"
  /\ req' = [req EXCEPT !.stage = bookings[req.buyer]]
  /\ UNCHANGED <<bookings, visible, buyer, activeHold, mut, late, seatVars, poll, refundTimer,
                 known, gap>>

\* An answer for another buyer than the one in the box is not rendered.
BookingsDone ==
  /\ req.stage \in Purchase
  /\ req # NoReq
  /\ IF req.buyer = buyer THEN Render(req.stage) ELSE UNCHANGED <<known, gap>> /\ ContinuePoll
  /\ req' = NoReq
  /\ poll' = FALSE
  /\ BookingsOver
  /\ UNCHANGED <<bookings, visible, buyer, activeHold, mut, late, mapVars>>

BookingsFail ==
  /\ req # NoReq
  /\ ContinuePoll
  /\ req' = NoReq
  /\ poll' = FALSE
  /\ BookingsOver
  /\ UNCHANGED <<bookings, visible, buyer, activeHold, mut, late, mapVars, known, gap>>

RefundTimer ==
  /\ refundTimer
  /\ refundTimer' = FALSE
  /\ Refresh
  /\ poll' = TRUE
  /\ UNCHANGED <<bookings, visible, buyer, activeHold, mut, late, seatVars, known, gap>>

\* The bookings' refresh button, their tab and the timer that follows typing.
UserRefresh ==
  /\ Refresh
  /\ UNCHANGED <<bookings, visible, buyer, activeHold, mut, late, seatVars, poll, refundTimer, known, gap>>

\* refreshAllAndReschedule, the map's refresh button: the timer is cleared until
\* both requests have ended.
RefreshAll ==
  /\ visible
  /\ seatTimer' = FALSE
  /\ fetch' = RefreshSeats
  /\ waiting' = waiting \cup {"both"}
  /\ Refresh
  /\ UNCHANGED <<bookings, visible, buyer, activeHold, mut, late, acked, again, shown,
                 poll, refundTimer, known, gap>>

\* Mutant: the list of the previous buyer stays until the next answer.
BuyerInputKeeps(b) ==
  /\ mut = Idle /\ ~activeHold /\ b # buyer
  /\ buyer' = b
  /\ req' = NoReq /\ poll' = FALSE
  /\ BookingsOver
  /\ UNCHANGED <<bookings, visible, activeHold, mut, late, mapVars, known, refundTimer, gap>>

\* Typing, which updateControls forbids during a mutation or a hold.
BuyerInput(b) ==
  /\ mut = Idle /\ ~activeHold /\ b # buyer
  /\ buyer' = b
  /\ req' = NoReq /\ poll' = FALSE
  /\ Render("none")
  /\ BookingsOver
  /\ UNCHANGED <<bookings, visible, activeHold, mut, late, mapVars>>

Hide ==
  /\ visible
  /\ visible' = FALSE /\ seatTimer' = FALSE /\ refundTimer' = FALSE
  /\ UNCHANGED <<bookings, buyer, activeHold, mut, late, mapVars, waiting,
                 req, poll, known, gap>>

\* refreshAndReschedule, and for a pending refund refreshBookings with force: who
\* awaited the older request re-arms the timer.
Show ==
  /\ ~visible
  /\ visible' = TRUE
  /\ fetch' = RefreshSeats
  /\ IF known = "pending"
     THEN /\ req' = [buyer |-> buyer, stage |-> "sent", why |-> "other"]
          /\ refundTimer' = poll
          /\ poll' = FALSE /\ gap' = TRUE
          /\ waiting' = AfterBookings \cup {"seats"}
          /\ seatTimer' = ("bookings" \in waiting)
     ELSE /\ waiting' = waiting \cup {"seats"} /\ seatTimer' = FALSE
          /\ UNCHANGED <<req, refundTimer, poll, gap>>
  /\ UNCHANGED <<bookings, buyer, activeHold, mut, late, acked, again, shown, known>>

(***************************************************************************)
(* Mutations: holdSeat, confirmBooking, releaseHold and                    *)
(* cancelConfirmedBooking.                                                 *)
(***************************************************************************)
Send(op) ==
  /\ mut = Idle
  /\ op \in {"confirm", "release"} => activeHold
  /\ op = "cancel" => known = "confirmed"
  /\ mut' = [op |-> op, stage |-> "sent"]
  /\ UNCHANGED <<bookings, visible, buyer, activeHold, late, seatVars, bookVars>>

\* The server commits; what was read before no longer shows everything.
Commit(op, b) ==
  /\ op = "confirm" => \A c \in Buyer : bookings[c] = "none"
  /\ op = "cancel" => bookings[b] = "confirmed"
  /\ bookings' = [bookings EXCEPT ![b] = CASE op = "confirm" -> "confirmed"
                                          [] op = "cancel" -> "pending"
                                          [] OTHER -> @]
  /\ acked' = FALSE
  /\ shown' = IF shown = "new" THEN "old" ELSE shown
  /\ fetch' = IF fetch = "new" THEN "old" ELSE fetch
  /\ UNCHANGED <<visible, buyer, activeHold, again, waiting, seatTimer, bookVars>>

Apply ==
  \/ /\ mut.stage = "sent" /\ Commit(mut.op, buyer)
     /\ mut' = [mut EXCEPT !.stage = "applied"]
     /\ UNCHANGED late
  \/ /\ late # NoLate /\ Commit(late.op, late.buyer)
     /\ late' = NoLate
     /\ UNCHANGED mut

\* The finally block; a cancellation also reloads the bookings.
Finally(op) ==
  /\ mut' = Idle
  /\ IF op = "cancel"
     THEN /\ ForceRefresh /\ UNCHANGED <<known, gap>>
          /\ AfterMutation(AfterBookings) /\ seatTimer' = Rearmed("bookings")
     ELSE AfterMutation(waiting) /\ UNCHANGED <<seatTimer, bookVars>>

Succeed ==
  /\ mut.stage = "applied"
  /\ acked' = TRUE
  /\ activeHold' = CASE mut.op = "hold" -> TRUE [] mut.op = "cancel" -> activeHold
                      [] OTHER -> FALSE
  /\ IF mut.op = "confirm"
     THEN /\ Render("confirmed")
          /\ req' = [buyer |-> buyer, stage |-> "sent", why |-> "reload"]
          /\ poll' = FALSE
          /\ mut' = [mut EXCEPT !.stage = "reload"]
          /\ BookingsOver
          /\ UNCHANGED <<fetch, again, shown>>
     ELSE Finally(mut.op)
  /\ UNCHANGED <<bookings, visible, buyer, late>>

\* confirmBooking goes on when its reload has ended or was aborted.
Reloaded ==
  /\ mut.stage = "reload" /\ req.why # "reload"
  /\ mut' = Idle
  /\ AfterMutation(waiting)
  /\ UNCHANGED <<bookings, visible, buyer, activeHold, late, acked, seatTimer, bookVars>>

\* An error status: the mutation was refused, or failed after its commit.
Refuse ==
  /\ mut.stage \in {"sent", "applied"}
  /\ activeHold' = (activeHold /\ mut.op # "confirm")
  /\ Finally(mut.op)
  /\ UNCHANGED <<bookings, visible, buyer, late, acked>>

\* A network error: the request may still arrive.  (A late hold or release is
\* one more change that others make to the map.)
Lose ==
  /\ mut.stage \in {"sent", "applied"}
  /\ \/ UNCHANGED late
     \/ /\ mut.stage = "sent" /\ mut.op \in {"confirm", "cancel"}
        /\ late' = [op |-> mut.op, buyer |-> buyer]
  /\ Finally(mut.op)
  /\ UNCHANGED <<bookings, visible, buyer, activeHold, acked>>

\* The countdown reaches zero, also during a mutation.
Countdown ==
  /\ activeHold
  /\ activeHold' = FALSE
  /\ AfterMutation(waiting)
  /\ UNCHANGED <<bookings, visible, buyer, mut, late, acked, seatTimer, bookVars>>

\* The refund worker.
Refund(b) ==
  /\ bookings[b] = "pending"
  /\ bookings' = [bookings EXCEPT ![b] = "refunded"]
  /\ UNCHANGED <<visible, buyer, activeHold, mut, late, seatVars, bookVars>>

-----------------------------------------------------------------------------
Init ==
  /\ bookings = [b \in Buyer |-> "none"]
  /\ visible = TRUE /\ buyer = Anon
  /\ activeHold = FALSE /\ mut = Idle /\ late = NoLate
  /\ fetch = "new" /\ again = FALSE /\ waiting = {"seats"} /\ seatTimer = FALSE
  /\ shown = "old" /\ acked = FALSE
  /\ req = [buyer |-> buyer, stage |-> "sent", why |-> "other"]
  /\ poll = FALSE /\ refundTimer = FALSE /\ known = "none" /\ gap = FALSE

Next ==
  \/ SeatsDone(TRUE) \/ SeatsDone(FALSE) \/ SeatTimer \/ RefreshAll
  \/ ServeBookings \/ BookingsDone \/ BookingsFail \/ RefundTimer \/ UserRefresh
  \/ Hide \/ Show \/ Countdown
  \/ Apply \/ Succeed \/ Reloaded \/ Refuse \/ Lose
  \/ \E op \in Op : Send(op)
  \/ \E b \in Buyer : BuyerInput(b) \/ Refund(b)

Spec == Init /\ [][Next]_vars

\* Timers fire, refunds are made, and not every bookings request fails.
Fairness ==
  /\ WF_vars(RefundTimer) /\ \A b \in Buyer : WF_vars(Refund(b))
  /\ SF_vars(ServeBookings) /\ SF_vars(BookingsDone)

FairSpec == Spec /\ Fairness

-----------------------------------------------------------------------------
\* When the page is at rest, its map answers a request that it sent after the last
\* mutation it was told of, or says that the server could not be reached: no request
\* from before the mutation has the last word (refreshAfterMutation).  How far the
\* answer itself may lag is the server's cache's part (SeatCache).
LastReadFollowsMutation ==
  mut = Idle /\ fetch = "none" /\ acked => shown # "old"

\* A visible page never stops looking: after any failure, overlap, join, abort or
\* return it has a seat request in flight, a timer for the next one, or a refresh
\* button's call that sets it when the bookings request in flight has ended.
SeatsPolled ==
  visible => seatTimer \/ fetch # "none" \/ ("bookings" \in waiting /\ req # NoReq)

Past(p) == CASE p = "none" -> {"none"}
             [] p = "confirmed" -> {"none", "confirmed"}
             [] p = "pending" -> {"none", "confirmed", "pending"}
             [] OTHER -> Purchase

\* The bookings on the page are, or were, those of the buyer in the box, however
\* typing, polling and answers overlap.
KnownIsOwn == known \in Past(bookings[buyer])

\* A pending refund on a visible page is watched until it ends, whatever fails
\* meanwhile.  The one gap is a request that fails before a page that came back
\* has rendered anything: the visibility handler sets no timer.
RefundFollowed ==
  ~ <>[](visible /\ known = "pending" /\ ~gap)
=============================================================================
