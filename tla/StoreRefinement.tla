--------------------------- MODULE StoreRefinement ---------------------------
(***************************************************************************)
(* BookingStore implements SeatLedger: the ledger's entry of a seat is the *)
(* seat's active row.                                                      *)
(***************************************************************************)
EXTENDS BookingStore

ActiveOn(s) == {i \in DOMAIN bookings : Active(i) /\ bookings[i].seat = s}

LedgerOf(s) ==
  IF ActiveOn(s) = {} THEN [state |-> "free"]
  ELSE LET row == bookings[CHOOSE i \in ActiveOn(s) : TRUE]
       IN  IF row.status = "held"
           THEN [state |-> "held", buyer |-> row.buyer, until |-> row.expires]
           ELSE [state |-> "sold", buyer |-> row.buyer]

Ledger == INSTANCE SeatLedger WITH ledger <- [s \in Seat |-> LedgerOf(s)]

\* Every step of the store, seen through its active rows, is a step a box
\* office may take: a hold is granted on a free or dead seat and swaps out the
\* buyer's previous hold in the same step, a seat is sold to its holder only,
\* and everything else placeHold's transaction does is invisible.
ImplementsLedger == Ledger!LedgerSpec
=============================================================================
