------------------------------- MODULE MCStore -------------------------------
(* Instances of BookingStore for TLC: one match whose start time lies       *)
(* inside the bounded time, model values for everything else.               *)
EXTENDS StoreRefinement, TLC

CONSTANTS m1

OneMatch == [s \in Seat |-> m1]
StartsLast == [m \in Match |-> MaxTime]
Symmetry == Permutations(Req) \cup Permutations(Seat) \cup Permutations(Buyer)

\* Behaviours in which a single-row statement takes no time of its own: the
\* clock moves past one only while it waits for a row lock.
NoTimeInRowStatements ==
  clock' # clock => \A r \in Req : pc[r] = "row" => RowLocked(req[r].id, r)
PromptSpec == Init /\ [][Next /\ NoTimeInRowStatements]_vars

CONSTANTS s1, s2, b1, b2

\* A state of Spec: both buyers placed a hold at time 0, the clock has reached
\* the instant at which both holds run out, and nothing is in flight.
Placed(s, b) == [seat |-> s, buyer |-> b, status |-> "held", expires |-> TTL,
                 confirmed |-> FALSE, key |-> NoKey]
HoldsRunOutInit ==
  /\ clock = TTL
  /\ bookings = (1 :> Placed(s1, b1)) @@ (2 :> Placed(s2, b2))
  /\ keys = [k \in {} |-> {}]
  /\ refunds = [i \in Id |-> 0]
  /\ pc = [r \in Req |-> "idle"]
  /\ req = [r \in Req |-> NoReq]
  /\ tx = [r \in Req |-> NoTx]
  /\ tries = [r \in Req |-> 0]
  /\ reply = NoReply
RaceSpec == HoldsRunOutInit /\ [][Next]_vars /\ Fairness
=============================================================================
