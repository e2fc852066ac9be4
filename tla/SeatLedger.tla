------------------------------ MODULE SeatLedger ------------------------------
(***************************************************************************)
(* What the booking store promises a box office: every seat is free, held  *)
(* by one buyer or sold to one buyer, and it changes only in these ways.   *)
(* No transactions, locks, keys or retries; BookingStore implements it.    *)
(***************************************************************************)
EXTENDS Integers

CONSTANTS Seat, Match, MatchOf, Buyer, TTL

VARIABLES clock, ledger

Free == [state |-> "free"]
HeldBy(b, until) == [state |-> "held", buyer |-> b, until |-> until]
SoldTo(b) == [state |-> "sold", buyer |-> b]

IsHeld(s) == ledger[s].state = "held"
IsDead(s) == IsHeld(s) /\ ledger[s].until < clock

LedgerInit == clock = 0 /\ ledger = [s \in Seat |-> Free]

\* A hold takes a seat that is free or whose hold is dead.  In the same step it
\* gives up whatever seat of the match the buyer held before.
Grant(s, b) ==
  /\ ledger[s] = Free \/ IsDead(s)
  /\ \E until \in 0..(clock + TTL) :
       ledger' = [x \in Seat |->
         IF x = s THEN HeldBy(b, until)
         ELSE IF IsHeld(x) /\ ledger[x].buyer = b /\ MatchOf[x] = MatchOf[s] THEN Free
         ELSE ledger[x]]
  /\ UNCHANGED clock

\* Only the holder can be sold the seat.
Sell(s) ==
  /\ IsHeld(s)
  /\ ledger' = [ledger EXCEPT ![s] = SoldTo(ledger[s].buyer)]
  /\ UNCHANGED clock

\* One hold is released, or one purchase cancelled.
Vacate(s) ==
  /\ ledger[s] # Free
  /\ ledger' = [ledger EXCEPT ![s] = Free]
  /\ UNCHANGED clock

\* Several dead holds are swept at once.
Sweep(S) ==
  /\ \A s \in S : IsDead(s)
  /\ ledger' = [x \in Seat |-> IF x \in S THEN Free ELSE ledger[x]]
  /\ UNCHANGED clock

LedgerTick == clock' = clock + 1 /\ UNCHANGED ledger

LedgerNext ==
  \/ \E s \in Seat, b \in Buyer : Grant(s, b)
  \/ \E s \in Seat : Sell(s) \/ Vacate(s)
  \/ \E S \in SUBSET Seat : Sweep(S)
  \/ LedgerTick

LedgerSpec == LedgerInit /\ [][LedgerNext]_<<clock, ledger>>
=============================================================================
