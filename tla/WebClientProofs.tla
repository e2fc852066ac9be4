---------------------------- MODULE WebClientProofs ----------------------------
(***************************************************************************)
(* Theorems about WebClient, for any set of buyers.                        *)
(***************************************************************************)
EXTENDS WebClient, TLAPS

-----------------------------------------------------------------------------
Mutation == [op : Op \cup {"none"}, stage : {"idle", "sent", "applied", "reload"}]
Request == [buyer : Buyer \cup {NoBuyer}, stage : Purchase \cup {"sent"},
            why : {"none", "reload", "other"}]

Asking(b, w) == [buyer |-> b, stage |-> "sent", why |-> w]

\* The parts of TypeOK.
Data ==
  /\ bookings \in [Buyer -> Purchase] /\ known \in Purchase
  /\ buyer \in Buyer
  /\ late \in [op : Op \cup {"none"}, buyer : Buyer \cup {NoBuyer}]
  /\ mut \in Mutation
  /\ fetch \in {"none", "old", "new"} /\ shown \in {"old", "new", "failed"}
  /\ waiting \subseteq {"seats", "bookings", "both"}
  /\ req \in Request

Flags ==
  {visible, activeHold, acked, again, seatTimer, poll, refundTimer, gap} \subseteq BOOLEAN

\* Whoever waits has something to wait for.
Waits ==
  /\ poll => req # NoReq
  /\ again => fetch # "none"
  /\ fetch # "none" <=> "seats" \in waiting \/ "both" \in waiting
  /\ "bookings" \in waiting \/ "both" \in waiting => req # NoReq
  /\ req.stage = "sent" => req.buyer \in Buyer

\* The constants of the page are of their types.
LEMMA PageConstants ==
  /\ Idle \in Mutation /\ NoReq \in Request
  /\ NoLate \in [op : Op \cup {"none"}, buyer : Buyer \cup {NoBuyer}]
  /\ \A b \in Buyer, w \in {"reload", "other"} :
       Asking(b, w) \in Request /\ Asking(b, w) # NoReq /\ Asking(b, w).buyer \in Buyer
  BY WebAssumption DEF Idle, NoReq, NoLate, Mutation, Request, Purchase, Asking

\* Who has awaited one of the two requests only awaits the other.
LEMMA StillAwaited ==
  ASSUME waiting \subseteq {"seats", "bookings", "both"}
  PROVE  /\ AfterSeats \subseteq {"bookings"} /\ AfterBookings \subseteq {"seats"}
         /\ "bookings" \in AfterSeats <=> "bookings" \in waiting \/ "both" \in waiting
         /\ "seats" \in AfterBookings <=> "seats" \in waiting \/ "both" \in waiting
  BY DEF AfterSeats, AfterBookings

\* A step changes the bookings request in one of these ways.
LEMMA RequestMoves ==
  ASSUME Data, [Next]_vars
  PROVE  \/ req' = req \/ req' = NoReq
         \/ \E w \in {"reload", "other"} : req' = Asking(buyer, w)
         \/ req.stage = "sent" /\ req' = [req EXCEPT !.stage = bookings[req.buyer]]
<1> USE DEF Asking
<1>1. CASE SeatsDone(TRUE) \/ SeatsDone(FALSE) \/ SeatTimer
  BY <1>1 DEF SeatsDone, SeatTimer, bookVars
<1>2. CASE ServeBookings \/ BookingsDone \/ BookingsFail
  BY <1>2 DEF ServeBookings, BookingsDone, BookingsFail
<1>3. CASE RefundTimer \/ UserRefresh \/ RefreshAll
  BY <1>3 DEF RefundTimer, UserRefresh, RefreshAll, Refresh
<1>4. CASE Hide \/ Show \/ Countdown
  BY <1>4 DEF Hide, Show, Countdown, bookVars
<1>5. CASE Apply \/ Reloaded
  BY <1>5 DEF Apply, Commit, Reloaded, bookVars
<1>6. CASE Succeed \/ Refuse \/ Lose
  BY <1>6 DEF Succeed, Refuse, Lose, Finally, ForceRefresh, bookVars
<1>7. CASE (\E op \in Op : Send(op)) \/ \E b \in Buyer : BuyerInput(b) \/ Refund(b)
  BY <1>7 DEF Send, BuyerInput, Refund, bookVars
<1>8. CASE UNCHANGED vars
  BY <1>8 DEF vars, bookVars
<1> QED BY <1>1, <1>2, <1>3, <1>4, <1>5, <1>6, <1>7, <1>8 DEF Next

\* Values stay of their types.
LEMMA DataKept == Data /\ Waits /\ [Next]_vars => Data'
<1> SUFFICES ASSUME Data, Waits, [Next]_vars PROVE Data'
  OBVIOUS
<1>0. req' \in Request
  BY RequestMoves, PageConstants DEF Data, Waits, Request
<1> USE <1>0, PageConstants, StillAwaited DEF Data, RefreshSeats, mapVars, BookingsOver
<1>1. CASE SeatTimer \/ ServeBookings
  BY <1>1 DEF SeatTimer, ServeBookings, bookVars, seatVars
<1>2. ASSUME NEW ok \in BOOLEAN, SeatsDone(ok) PROVE Data'
  BY <1>2 DEF SeatsDone, bookVars
<1>3. CASE BookingsDone \/ BookingsFail
  BY <1>3 DEF BookingsDone, BookingsFail, Render, seatVars
<1>4. CASE RefundTimer \/ UserRefresh \/ RefreshAll \/ Hide \/ Show
  BY <1>4 DEF RefundTimer, UserRefresh, RefreshAll, Hide, Show, seatVars
<1>5. CASE Countdown \/ Reloaded
  BY <1>5 DEF Countdown, Reloaded, AfterMutation, bookVars
<1>6. CASE Apply
  <2>1. PICK op, b : Commit(op, b)
    BY <1>6 DEF Apply
  <2>2. bookings' \in [Buyer -> Purchase]
    BY <2>1 DEF Commit, Purchase
  <2>3. /\ fetch' \in {"none", "old", "new"} /\ shown' \in {"old", "new", "failed"}
        /\ known' = known /\ buyer' = buyer /\ waiting' = waiting
    BY <2>1 DEF Commit, bookVars
  <2>4. mut' \in Mutation /\ late' \in [op : Op \cup {"none"}, buyer : Buyer \cup {NoBuyer}]
    BY <1>6 DEF Apply, Mutation
  <2> QED BY <2>2, <2>3, <2>4
<1>7. CASE Succeed
  <2>1. mut' \in Mutation
    BY <1>7 DEF Succeed, Finally, Mutation
  <2>2. /\ known' \in Purchase /\ fetch' \in {"none", "old", "new"} /\ shown' = shown
        /\ waiting' \subseteq {"seats", "bookings", "both"}
    BY <1>7 DEF Succeed, Finally, AfterMutation, Render, Purchase, bookVars
  <2> QED BY <1>7, <2>1, <2>2 DEF Succeed
<1>8. CASE Refuse \/ Lose
  <2>1. late' \in [op : Op \cup {"none"}, buyer : Buyer \cup {NoBuyer}]
    BY <1>8 DEF Refuse, Lose, Op
  <2>2. /\ mut' \in Mutation /\ known' = known /\ fetch' \in {"none", "old", "new"}
        /\ shown' = shown /\ waiting' \subseteq {"seats", "bookings", "both"}
    BY <1>8 DEF Refuse, Lose, Finally, AfterMutation, bookVars
  <2> QED BY <1>8, <2>1, <2>2 DEF Refuse, Lose
<1>9. CASE \E op \in Op : Send(op)
  BY <1>9 DEF Send, Mutation, seatVars, bookVars
<1>10. CASE \E b \in Buyer : BuyerInput(b) \/ Refund(b)
  BY <1>10 DEF BuyerInput, Refund, Render, Purchase, seatVars, bookVars
<1>11. CASE UNCHANGED vars
  BY <1>11 DEF vars, seatVars, bookVars
<1> QED BY <1>1, <1>2, <1>3, <1>4, <1>5, <1>6, <1>7, <1>8, <1>9, <1>10, <1>11 DEF Next

\* Flags stay Boolean.
LEMMA FlagsKept == Flags /\ [Next]_vars => Flags'
<1> SUFFICES ASSUME Flags, [Next]_vars PROVE Flags'
  OBVIOUS
<1> USE DEF Flags, mapVars, BookingsOver, Rearmed
<1>1. CASE SeatTimer \/ ServeBookings
  BY <1>1 DEF SeatTimer, ServeBookings, bookVars, seatVars
<1>2. ASSUME NEW ok \in BOOLEAN, SeatsDone(ok) PROVE Flags'
  BY <1>2 DEF SeatsDone, bookVars
<1>3. CASE BookingsDone \/ BookingsFail
  BY <1>3 DEF BookingsDone, BookingsFail, Render, ContinuePoll, Scheduled, seatVars
<1>4. CASE RefundTimer \/ UserRefresh \/ RefreshAll \/ Hide
  BY <1>4 DEF RefundTimer, UserRefresh, RefreshAll, Hide, seatVars
<1>11. CASE Show
  <2>1. ("bookings" \in waiting) \in BOOLEAN
    OBVIOUS
  <2>2. seatTimer' \in {"bookings" \in waiting, FALSE}
    BY <1>11 DEF Show
  <2>3. seatTimer' \in BOOLEAN
    BY <2>1, <2>2, Zenon
  <2>4. visible' /\ refundTimer' \in BOOLEAN /\ poll' \in BOOLEAN /\ gap' \in BOOLEAN
    BY <1>11 DEF Show
  <2>5. activeHold' = activeHold /\ acked' = acked /\ again' = again
    BY <1>11 DEF Show
  <2> QED BY <2>3, <2>4, <2>5
<1>5. CASE Countdown \/ Reloaded
  BY <1>5 DEF Countdown, Reloaded, AfterMutation, bookVars
<1>6. CASE Apply
  BY <1>6 DEF Apply, Commit, bookVars
<1>7. CASE Succeed
  BY <1>7 DEF Succeed, Finally, AfterMutation, ForceRefresh, ContinuePoll, Render, Scheduled,
              bookVars
<1>8. CASE Refuse \/ Lose
  BY <1>8 DEF Refuse, Lose, Finally, AfterMutation, ForceRefresh, ContinuePoll, Scheduled, bookVars
<1>9. CASE (\E op \in Op : Send(op)) \/ \E b \in Buyer : BuyerInput(b) \/ Refund(b)
  BY <1>9 DEF Send, BuyerInput, Refund, Render, Scheduled, seatVars, bookVars
<1>10. CASE UNCHANGED vars
  BY <1>10 DEF vars, seatVars, bookVars
<1> QED BY <1>1, <1>2, <1>3, <1>4, <1>5, <1>6, <1>7, <1>8, <1>9, <1>10, <1>11 DEF Next

\* A waiting callback's request ends only together with the wait.
LEMMA WaitsKept == Data /\ Waits /\ [Next]_vars => Waits'
<1> SUFFICES ASSUME Data, Waits, [Next]_vars PROVE Waits'
  OBVIOUS
<1>1. req'.stage = "sent" => req'.buyer \in Buyer
  BY RequestMoves, PageConstants DEF Data, Waits, Request, NoReq, Purchase
<1>2. /\ again' => fetch' # "none"
      /\ fetch' # "none" <=> "seats" \in waiting' \/ "both" \in waiting'
  <2> USE StillAwaited DEF Data, Waits, RefreshSeats, mapVars, BookingsOver
  <2>1. CASE SeatTimer \/ SeatsDone(TRUE) \/ SeatsDone(FALSE)
    BY <2>1 DEF SeatTimer, SeatsDone
  <2>2. CASE ServeBookings \/ BookingsDone \/ BookingsFail \/ RefundTimer \/ UserRefresh
    BY <2>2 DEF ServeBookings, BookingsDone, BookingsFail, RefundTimer, UserRefresh, seatVars
  <2>8. CASE RefreshAll
    BY <2>8 DEF RefreshAll
  <2>3. CASE Hide \/ Show \/ Countdown \/ Reloaded
    BY <2>3 DEF Hide, Show, Countdown, Reloaded, AfterMutation
  <2>4. CASE Apply
    BY <2>4 DEF Apply, Commit
  <2>5. CASE Succeed \/ Refuse \/ Lose
    BY <2>5 DEF Succeed, Refuse, Lose, Finally, AfterMutation
  <2>6. CASE (\E op \in Op : Send(op)) \/ \E b \in Buyer : BuyerInput(b) \/ Refund(b)
    BY <2>6 DEF Send, BuyerInput, Refund, seatVars
  <2>7. CASE UNCHANGED vars
    BY <2>7 DEF vars, seatVars
  <2> QED BY <2>1, <2>2, <2>3, <2>4, <2>5, <2>6, <2>7, <2>8 DEF Next
<1>3. poll' => req' # NoReq
  <2>1. ASSUME poll' = poll, req' = req PROVE poll' => req' # NoReq
    BY <2>1 DEF Waits
  <2>2. CASE \/ SeatTimer \/ SeatsDone(TRUE) \/ SeatsDone(FALSE) \/ Hide
             \/ Countdown \/ Reloaded \/ UNCHANGED vars
    BY <2>1, <2>2 DEF SeatTimer, SeatsDone, Hide, Countdown, Reloaded, vars, bookVars
  <2>3. CASE ServeBookings
    <3>1. req.buyer \in Buyer /\ req' = [req EXCEPT !.stage = bookings[req.buyer]]
      BY <2>3 DEF ServeBookings, Waits
    <3>2. req'.buyer = req.buyer
      BY <3>1 DEF Data, Request
    <3> QED BY <3>1, <3>2, WebAssumption DEF NoReq
  <2>4. CASE BookingsDone \/ BookingsFail \/ \E b \in Buyer : BuyerInput(b)
    BY <2>4 DEF BookingsDone, BookingsFail, BuyerInput
  <2>5. CASE RefundTimer \/ UserRefresh \/ RefreshAll
    <3>1. req.buyer = buyer => req # NoReq
      BY WebAssumption DEF Data, NoReq
    <3> QED BY <2>5, <3>1, PageConstants
            DEF RefundTimer, UserRefresh, RefreshAll, Refresh, Waits, Data, Asking
  <2>6. CASE Show
    BY <2>1, <2>6 DEF Show
  <2>7. CASE Apply
    BY <2>1, <2>7 DEF Apply, Commit, bookVars
  <2>8. CASE Succeed \/ Refuse \/ Lose
    BY <2>1, <2>8 DEF Succeed, Refuse, Lose, Finally, ForceRefresh, bookVars
  <2>9. CASE (\E op \in Op : Send(op)) \/ \E b \in Buyer : Refund(b)
    BY <2>1, <2>9 DEF Send, Refund, bookVars
  <2> QED BY <2>2, <2>3, <2>4, <2>5, <2>6, <2>7, <2>8, <2>9 DEF Next
<1>4. "bookings" \in waiting' \/ "both" \in waiting' => req' # NoReq
  <2> USE StillAwaited DEF Data, Waits, BookingsOver
  <2>1. ASSUME req' = req,
               waiting' = waiting \/ waiting' = waiting \cup {"seats"}
        PROVE  "bookings" \in waiting' \/ "both" \in waiting' => req' # NoReq
    BY <2>1
  <2>2. ASSUME waiting' = AfterBookings \/ waiting' = AfterBookings \cup {"seats"}
        PROVE  "bookings" \in waiting' \/ "both" \in waiting' => req' # NoReq
    BY <2>2
  <2>3. CASE SeatTimer \/ Hide \/ Countdown \/ Reloaded \/ UNCHANGED vars
    BY <2>1, <2>3 DEF SeatTimer, Hide, Countdown, Reloaded, AfterMutation, vars, seatVars, bookVars
  <2>4. CASE SeatsDone(TRUE) \/ SeatsDone(FALSE)
    BY <2>4 DEF SeatsDone, bookVars
  <2>5. CASE BookingsDone \/ BookingsFail \/ \E b \in Buyer : BuyerInput(b)
    BY <2>2, <2>5 DEF BookingsDone, BookingsFail, BuyerInput
  <2>6. CASE ServeBookings
    <3>1. req.buyer \in Buyer /\ req' = [req EXCEPT !.stage = bookings[req.buyer]]
      BY <2>6 DEF ServeBookings
    <3>2. req'.buyer = req.buyer
      BY <3>1 DEF Request
    <3> QED BY <3>1, <3>2, WebAssumption DEF NoReq
  <2>7. CASE RefundTimer \/ UserRefresh \/ RefreshAll
    <3>1. req.buyer = buyer => req # NoReq
      BY WebAssumption DEF NoReq
    <3> QED BY <2>7, <3>1, PageConstants DEF RefundTimer, UserRefresh, RefreshAll, Refresh, Asking
  <2>8. CASE Show
    BY <2>1, <2>2, <2>8 DEF Show
  <2>9. CASE Apply
    BY <2>1, <2>9 DEF Apply, Commit, bookVars
  <2>10. CASE Succeed \/ Refuse \/ Lose
    BY <2>1, <2>2, <2>10 DEF Succeed, Refuse, Lose, Finally, AfterMutation, bookVars
  <2>11. CASE (\E op \in Op : Send(op)) \/ \E b \in Buyer : Refund(b)
    BY <2>1, <2>11 DEF Send, Refund, seatVars, bookVars
  <2> QED BY <2>3, <2>4, <2>5, <2>6, <2>7, <2>8, <2>9, <2>10, <2>11 DEF Next
<1> QED BY <1>1, <1>2, <1>3, <1>4 DEF Waits

\* The page's state keeps its types; a callback that awaits a bookings request,
\* or a refresh that follows another one, has a request to wait for.
THEOREM PageTyped == Spec => []TypeOK
<1>1. Init => Data /\ Flags /\ Waits
  BY PageConstants, WebAssumption DEF Init, Data, Flags, Waits, Purchase, Asking
<1>2. Data /\ Flags /\ Waits => TypeOK
  BY DEF Data, Flags, Waits, TypeOK, Mutation, Request
<1> QED BY <1>1, <1>2, DataKept, FlagsKept, WaitsKept, PTL DEF Spec

-----------------------------------------------------------------------------
\* Somebody will set the next timer, or has.
Polled == visible => seatTimer \/ fetch # "none" \/ "bookings" \in waiting

\* Whoever stops waiting sets the timer, or leaves it to one who goes on.
LEMMA PolledKept == Data /\ Waits /\ Polled /\ [Next]_vars => Polled'
<1> SUFFICES ASSUME Data, Waits, Polled, [Next]_vars PROVE Polled'
  OBVIOUS
<1>0. /\ fetch # "none" <=> "seats" \in waiting \/ "both" \in waiting
      /\ waiting \subseteq {"seats", "bookings", "both"}
  BY DEF Data, Waits
<1> USE <1>0, StillAwaited DEF Polled, RefreshSeats, mapVars, BookingsOver, Rearmed
<1>1. CASE SeatTimer \/ RefreshAll
  BY <1>1 DEF SeatTimer, RefreshAll
<1>2. ASSUME NEW ok \in BOOLEAN, SeatsDone(ok) PROVE Polled'
  BY <1>2 DEF SeatsDone
<1>3. CASE ServeBookings \/ RefundTimer \/ UserRefresh
  BY <1>3 DEF ServeBookings, RefundTimer, UserRefresh, seatVars
<1>4. CASE BookingsDone \/ BookingsFail \/ \E b \in Buyer : BuyerInput(b)
  BY <1>4 DEF BookingsDone, BookingsFail, BuyerInput
<1>5. CASE Hide \/ Show \/ Countdown \/ Reloaded
  BY <1>5 DEF Hide, Show, Countdown, Reloaded, AfterMutation
<1>6. CASE Apply
  BY <1>6 DEF Apply, Commit
<1>7. CASE Succeed
  BY <1>7 DEF Succeed, Finally, AfterMutation
<1>8. CASE Refuse \/ Lose
  BY <1>8 DEF Refuse, Lose, Finally, AfterMutation
<1>9. CASE (\E op \in Op : Send(op)) \/ \E b \in Buyer : Refund(b)
  BY <1>9 DEF Send, Refund, seatVars
<1>10. CASE UNCHANGED vars
  BY <1>10 DEF vars, seatVars
<1> QED BY <1>1, <1>2, <1>3, <1>4, <1>5, <1>6, <1>7, <1>8, <1>9, <1>10 DEF Next

\* A visible page always has a seat request in flight, a timer for the next one, or
\* a refresh button's call that sets it when its bookings request has ended
\* (refreshSeats, scheduleNextRefresh, refreshAllAndReschedule, visibilitychange).
THEOREM PageKeepsPolling == Spec => []SeatsPolled
<1>1. Init => Data /\ Waits /\ Polled
  BY PageConstants, WebAssumption DEF Init, Data, Waits, Polled, Purchase, Asking
<1>2. Waits /\ Polled => SeatsPolled
  BY DEF Waits, Polled, SeatsPolled
<1> QED BY <1>1, <1>2, DataKept, WaitsKept, PolledKept, PTL DEF Spec

-----------------------------------------------------------------------------
\* Once a mutation is acknowledged, and its reload is over, a request from before
\* it is followed by another one, and the last one's answer has been shown.
ReadFollows ==
  acked /\ mut.stage # "reload" =>
    /\ fetch = "old" => again
    /\ fetch = "none" => shown # "old"

MapInv ==
  /\ mut \in Mutation
  /\ fetch \in {"none", "old", "new"}
  /\ {again, acked} \subseteq BOOLEAN
  /\ ReadFollows

\* The map on a page at rest answers a request that was sent after the last mutation
\* the page was told of, whatever polls, joins, failures and later mutations overlap
\* (refreshAfterMutation).
THEOREM LastReadFollows == Spec => []LastReadFollowsMutation
<1>1. Init => MapInv
  <2>1. Idle \in Mutation
    BY DEF Idle, Mutation
  <2> QED BY <2>1 DEF Init, MapInv, ReadFollows
<1>2. MapInv /\ [Next]_vars => MapInv'
  <2> SUFFICES ASSUME MapInv, [Next]_vars PROVE MapInv'
    OBVIOUS
  <2>0. Idle \in Mutation
    BY DEF Idle, Mutation
  <2> USE <2>0 DEF MapInv, ReadFollows, RefreshSeats, mapVars
  <2>1. CASE SeatTimer
    BY <2>1 DEF SeatTimer
  <2>2. ASSUME NEW ok \in BOOLEAN, SeatsDone(ok) PROVE MapInv'
    BY <2>2 DEF SeatsDone
  <2>3. CASE ServeBookings \/ BookingsDone \/ BookingsFail \/ RefundTimer \/ UserRefresh
    BY <2>3 DEF ServeBookings, BookingsDone, BookingsFail, RefundTimer, UserRefresh, seatVars
  <2>4. CASE Hide \/ Show \/ RefreshAll
    BY <2>4 DEF Hide, Show, RefreshAll
  <2>5. CASE Countdown
    BY <2>5 DEF Countdown, AfterMutation
  <2>6. CASE Apply
    <3>1. CASE mut' = [mut EXCEPT !.stage = "applied"]
      BY <2>6, <3>1 DEF Apply, Commit, Mutation
    <3>2. CASE UNCHANGED mut
      BY <2>6, <3>2 DEF Apply, Commit
    <3> QED BY <2>6, <3>1, <3>2 DEF Apply
  <2>7. CASE Succeed
    <3>1. CASE mut.op = "confirm"
      <4>1. mut' = [mut EXCEPT !.stage = "reload"] /\ acked' = TRUE
        BY <2>7, <3>1 DEF Succeed
      <4>2. fetch' = fetch /\ again' = again /\ shown' = shown
        BY <2>7, <3>1 DEF Succeed
      <4>3. mut' \in Mutation /\ mut'.stage = "reload"
        BY <4>1 DEF Mutation
      <4> QED BY <4>1, <4>2, <4>3
    <3>2. CASE mut.op # "confirm"
      BY <2>7, <3>2 DEF Succeed, Finally, AfterMutation
    <3> QED BY <3>1, <3>2
  <2>8. CASE Reloaded
    BY <2>8 DEF Reloaded, AfterMutation
  <2>9. CASE Refuse \/ Lose
    BY <2>9 DEF Refuse, Lose, Finally, AfterMutation
  <2>10. CASE \E op \in Op : Send(op)
    BY <2>10 DEF Send, seatVars, Idle, Mutation
  <2>11. CASE \E b \in Buyer : BuyerInput(b) \/ Refund(b)
    BY <2>11 DEF BuyerInput, Refund, seatVars
  <2>12. CASE UNCHANGED vars
    BY <2>12 DEF vars, seatVars
  <2> QED BY <2>1, <2>2, <2>3, <2>4, <2>5, <2>6, <2>7, <2>8, <2>9, <2>10, <2>11, <2>12 DEF Next
<1>3. MapInv => LastReadFollowsMutation
  BY DEF MapInv, ReadFollows, LastReadFollowsMutation, Idle
<1> QED BY <1>1, <1>2, <1>3, PTL DEF Spec

-----------------------------------------------------------------------------
\* What is shown, and what an answer in flight says, was once true of its buyer;
\* and a confirmation that was applied is in the tables.
KnownInv ==
  /\ bookings \in [Buyer -> Purchase] /\ known \in Purchase /\ buyer \in Buyer
  /\ mut \in Mutation
  /\ req \in [buyer : Buyer \cup {NoBuyer}, stage : Purchase \cup {"sent"},
              why : {"none", "reload", "other"}]
  /\ KnownIsOwn
  /\ req.stage = "sent" => req.buyer \in Buyer
  /\ req.buyer \in Buyer /\ req.stage \in Purchase => req.stage \in Past(bookings[req.buyer])
  /\ mut.op = "confirm" /\ mut.stage = "applied" => bookings[buyer] # "none"

Grow ==
  \A b \in Buyer : /\ Past(bookings[b]) \subseteq Past(bookings'[b])
                   /\ bookings[b] # "none" => bookings'[b] # "none"

\* A purchase only moves on along its life.
LEMMA CommitGrows ==
  ASSUME KnownInv, NEW op, NEW b, Commit(op, b)
  PROVE  bookings' \in [Buyer -> Purchase] /\ Grow
<1>1. CASE b \in Buyer
  BY <1>1 DEF Commit, KnownInv, Purchase, Grow, Past
<1>2. CASE b \notin Buyer
  BY <1>2 DEF Commit, KnownInv, Grow
<1> QED BY <1>1, <1>2

\* Steps that leave what the page knows and asks alone.
LEMMA QuietInv ==
  ASSUME KnownInv, bookings' \in [Buyer -> Purchase], Grow, known' = known, buyer' = buyer,
         req' = req, mut' \in Mutation,
         mut'.op = "confirm" /\ mut'.stage = "applied" => bookings'[buyer] # "none"
  PROVE  KnownInv'
<1>1. KnownIsOwn'
  <2>1. known \in Past(bookings'[buyer])
    BY DEF KnownInv, Grow, KnownIsOwn
  <2> QED BY <2>1 DEF KnownIsOwn, Past
<1>2. req'.buyer \in Buyer /\ req'.stage \in Purchase => req'.stage \in Past(bookings'[req'.buyer])
  BY DEF KnownInv, Grow
<1>3. \A p : Past(p)' = Past(p)
  BY DEF Past, Purchase
<1> QED BY <1>1, <1>2, <1>3 DEF KnownInv

\* Steps that begin, answer or end a request, and those that render.
LEMMA AskInv ==
  ASSUME KnownInv, bookings' = bookings, buyer' = buyer, mut' \in Mutation,
         mut' = mut \/ mut'.stage # "applied",
         \/ req' = req
         \/ req' = NoReq
         \/ req' = [buyer |-> buyer, stage |-> "sent", why |-> "other"]
         \/ req' = [buyer |-> buyer, stage |-> "sent", why |-> "reload"],
         known' \in Past(bookings[buyer])
  PROVE  KnownInv'
<1>1. known' \in Purchase
  BY DEF KnownInv, Past, Purchase
<1>2. /\ req' \in [buyer : Buyer \cup {NoBuyer}, stage : Purchase \cup {"sent"},
                  why : {"none", "reload", "other"}]
      /\ req'.buyer \in Buyer /\ req'.stage \in Purchase => req' = req
      /\ req'.stage = "sent" => req'.buyer \in Buyer
  BY WebAssumption DEF KnownInv, NoReq, Purchase
<1>3. KnownIsOwn'
  BY DEF KnownIsOwn, Past
<1> QED BY <1>1, <1>2, <1>3 DEF KnownInv, Past

\* The list on the page is, or was, that of the buyer in the box: an answer for
\* the buyer who was there before is never rendered (refreshBookings).
THEOREM ListIsOwn == Spec => []KnownIsOwn
<1>1. Init => KnownInv
  <2> SUFFICES ASSUME Init PROVE KnownInv
    OBVIOUS
  <2>1. mut \in Mutation /\ mut.op = "none"
    BY DEF Init, Idle, Mutation
  <2>2. buyer \in Buyer /\ bookings \in [Buyer -> Purchase] /\ known = "none"
    BY WebAssumption DEF Init, Purchase
  <2>3. /\ req \in [buyer : Buyer \cup {NoBuyer}, stage : Purchase \cup {"sent"},
                   why : {"none", "reload", "other"}]
        /\ req.stage = "sent" /\ req.buyer \in Buyer
    BY <2>2 DEF Init
  <2>4. bookings[buyer] = "none"
    BY <2>2 DEF Init
  <2> QED BY <2>1, <2>2, <2>3, <2>4 DEF KnownInv, KnownIsOwn, Past, Purchase
<1>2. KnownInv /\ [Next]_vars => KnownInv'
  <2> SUFFICES ASSUME KnownInv, [Next]_vars PROVE KnownInv'
    OBVIOUS
  <2>0. /\ mut \in Mutation /\ bookings \in [Buyer -> Purchase] /\ buyer \in Buyer
        /\ known \in Past(bookings[buyer]) /\ Idle \in Mutation
        /\ Idle.stage # "applied"
    BY DEF KnownInv, KnownIsOwn, Idle, Mutation
  <2>1. ASSUME UNCHANGED <<bookings, known, buyer, req, mut>> PROVE KnownInv'
    BY <2>0, <2>1, QuietInv DEF Grow, KnownInv
  <2>2. CASE \/ SeatsDone(TRUE) \/ SeatsDone(FALSE) \/ SeatTimer \/ Hide
             \/ Countdown \/ UNCHANGED vars
    BY <2>1, <2>2 DEF SeatsDone, SeatTimer, Hide, Countdown, vars, bookVars
  <2>3. CASE ServeBookings
    <3>1. req.buyer \in Buyer => req'.stage = bookings[req.buyer] /\ req'.buyer = req.buyer
      BY <2>3 DEF ServeBookings, KnownInv
    <3>2. req' \in [buyer : Buyer \cup {NoBuyer}, stage : Purchase \cup {"sent"},
                   why : {"none", "reload", "other"}]
      BY <2>0, <2>3 DEF ServeBookings, KnownInv
    <3>3. \A p \in Purchase : p \in Past(p)
      BY DEF Past, Purchase
    <3>4. req'.buyer \in Buyer => req'.stage \in Past(bookings[req'.buyer])
      BY <2>0, <2>3, <3>1, <3>2, <3>3 DEF ServeBookings, KnownInv
    <3> QED BY <2>3, <3>2, <3>4 DEF ServeBookings, KnownInv, KnownIsOwn, Past
  <2>4. CASE BookingsDone
    <3>1. known' \in Past(bookings[buyer])
      BY <2>0, <2>4 DEF BookingsDone, Render, KnownInv
    <3> QED BY <2>0, <2>4, <3>1, AskInv DEF BookingsDone
  <2>5. CASE BookingsFail
    BY <2>0, <2>5, AskInv DEF BookingsFail
  <2>6. CASE RefundTimer \/ UserRefresh \/ RefreshAll
    BY <2>0, <2>6, AskInv DEF RefundTimer, UserRefresh, RefreshAll, Refresh
  <2>7. CASE Show
    BY <2>0, <2>7, AskInv DEF Show
  <2>8. CASE Apply
    <3>1. /\ bookings' \in [Buyer -> Purchase] /\ Grow /\ known' = known /\ buyer' = buyer
          /\ req' = req
      <4>1. PICK op, b : Commit(op, b)
        BY <2>8 DEF Apply
      <4> QED BY <4>1, CommitGrows DEF Commit, bookVars
    <3>2. CASE UNCHANGED mut
      BY <2>0, <3>1, <3>2, QuietInv DEF Grow, KnownInv
    <3>3. CASE mut' = [mut EXCEPT !.stage = "applied"] /\ Commit(mut.op, buyer)
      <4>1. mut' \in Mutation /\ mut'.op = mut.op
        BY <2>0, <3>3 DEF Mutation
      <4>2. mut.op = "confirm" => bookings'[buyer] # "none"
        BY <2>0, <3>3 DEF Commit
      <4> QED BY <3>1, <4>1, <4>2, QuietInv
    <3> QED BY <2>8, <3>2, <3>3 DEF Apply
  <2>9. CASE Succeed
    <3>1. CASE mut.op = "confirm"
      <4>1. known' = "confirmed" /\ bookings[buyer] # "none"
        BY <2>9, <3>1 DEF Succeed, Render, KnownInv
      <4>2. known' \in Past(bookings[buyer])
        BY <2>0, <4>1 DEF Past, Purchase
      <4>3. mut' \in Mutation /\ mut'.stage # "applied"
        BY <2>0, <2>9, <3>1 DEF Succeed, Mutation
      <4> QED BY <2>9, <3>1, <4>2, <4>3, AskInv DEF Succeed
    <3>2. CASE mut.op # "confirm"
      BY <2>0, <2>9, <3>2, AskInv DEF Succeed, Finally, ForceRefresh, bookVars
    <3> QED BY <3>1, <3>2
  <2>10. CASE Reloaded
    BY <2>0, <2>10, AskInv DEF Reloaded, bookVars
  <2>11. CASE Refuse \/ Lose
    BY <2>0, <2>11, AskInv DEF Refuse, Lose, Finally, ForceRefresh, bookVars
  <2>12. CASE \E op \in Op : Send(op)
    <3>1. mut' \in Mutation /\ mut'.stage = "sent"
      BY <2>12 DEF Send, Mutation
    <3> QED BY <2>0, <2>12, <3>1, AskInv DEF Send, bookVars
  <2>13. CASE \E b \in Buyer : BuyerInput(b)
    <3>1. \A b \in Buyer : "none" \in Past(bookings[b])
      BY <2>0 DEF Past, Purchase
    <3>2. /\ buyer' \in Buyer /\ known' = "none" /\ req' = NoReq /\ mut' = Idle
          /\ bookings' = bookings
      BY <2>13 DEF BuyerInput, Render
    <3> QED BY <2>0, <3>1, <3>2, WebAssumption DEF KnownInv, KnownIsOwn, NoReq, Idle, Purchase
  <2>14. CASE \E b \in Buyer : Refund(b)
    <3>1. bookings' \in [Buyer -> Purchase] /\ Grow
      BY <2>0, <2>14 DEF Refund, Grow, Past, Purchase
    <3> QED BY <2>0, <2>14, <3>1, QuietInv DEF Refund, bookVars, Grow, KnownInv
  <2> QED BY <2>2, <2>3, <2>4, <2>5, <2>6, <2>7, <2>8, <2>9, <2>10, <2>11, <2>12, <2>13, <2>14
          DEF Next
<1>3. KnownInv => KnownIsOwn
  BY DEF KnownInv
<1> QED BY <1>1, <1>2, <1>3, PTL DEF Spec
=============================================================================
