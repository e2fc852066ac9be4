------------------------------ MODULE SeatCache ------------------------------
(***************************************************************************)
(* The read-through seat-map cache of internal/booking/seatcache.go for    *)
(* one match of one server instance: lookups with a TTL, loads collapsed   *)
(* by singleflight, and the invalidation every service call makes after    *)
(* its write has committed.  Matches share no state, so one is enough.     *)
(*                                                                         *)
(* A seat map is the number of writes it reflects.  Time is relative: an   *)
(* age counts up to the point after which it makes no difference.  Steps   *)
(* in memory take no time; a query does.                                   *)
(***************************************************************************)
EXTENDS Integers

CONSTANTS
  Reader, Writer,   \* request goroutines
  TTL,              \* seatCacheTTL
  Timeout,          \* svc.requestTimeout, the deadline of the shared load
  MaxWrites         \* bound on the writes to the match

ASSUME CacheAssumption == TTL \in Nat /\ Timeout \in Nat /\ MaxWrites \in Nat

VARIABLES
  db,       \* writes committed so far
  since,    \* time since each write committed
  entry,    \* items[matchID]: its map, and its age since put
  flight,   \* the singleflight call: its next step, its map, its age
  rpc,      \* what each reader does next
  inbox,    \* the result the call has sent to each reader's channel
  began,    \* served and acked when each reader's open request began
  wpc,      \* the write a writer has committed and not invalidated, or None
  acked,    \* the last write whose request has been answered
  served,   \* the newest map handed to a reader so far
  answer    \* the map the last step handed to a reader, and its began

flightVars == <<entry, flight>>
readVars == <<rpc, inbox, began, served, answer>>
writeVars == <<db, wpc, acked>>
vars == <<flightVars, readVars, writeVars, since>>

None == -1
Forever == TTL + Timeout + 1
Version == 0..MaxWrites
Result == Version \cup {None}      \* None: no map, or an error
Begun == [served : Version, acked : Version]
NoEntry == [map |-> None, age |-> 0]
NoFlight == [at |-> "none", map |-> None, age |-> 0]
NoAnswer == [map |-> None, began |-> [served |-> 0, acked |-> 0]]

TypeOK ==
  /\ db \in Version
  /\ since \in [1..MaxWrites -> 0..Forever]
  /\ entry \in [map : Result, age : 0..(TTL + 1)]
  /\ flight \in [at : {"none", "recheck", "query", "put", "deliver"},
                 map : Result, age : 0..Timeout]
  /\ rpc \in [Reader -> {"idle", "do", "wait", "receive"}]
  /\ inbox \in [Reader -> Result]
  /\ began \in [Reader -> Begun]
  /\ wpc \in [Writer -> Result]
  /\ acked \in Version
  /\ served \in Version
  /\ answer \in [map : Result, began : Begun]

Init ==
  /\ db = 0
  /\ since = [v \in 1..MaxWrites |-> 0]
  /\ entry = NoEntry
  /\ flight = NoFlight
  /\ rpc = [r \in Reader |-> "idle"]
  /\ inbox = [r \in Reader |-> None]
  /\ began = [r \in Reader |-> NoAnswer.began]
  /\ wpc = [w \in Writer |-> None]
  /\ acked = 0
  /\ served = 0
  /\ answer = NoAnswer

(***************************************************************************)
(* get and load.                                                           *)
(***************************************************************************)
Later(v, w) == IF v > w THEN v ELSE w

\* A map (None is an error) returned to the client of a request begun at b.
HandOut(map, b) ==
  /\ answer' = [map |-> map, began |-> b]
  /\ served' = Later(served, map)

\* Mutant: entries do not expire.
FreshForever == entry.map # None

\* get: not After(expiresAt), so an entry of age TTL is still served.
Fresh == entry.map # None /\ entry.age <= TTL

Get(r) ==
  /\ rpc[r] = "idle"
  /\ LET now == [served |-> served, acked |-> acked] IN
     \/ /\ Fresh
        /\ HandOut(entry.map, now)
        /\ UNCHANGED <<rpc, began>>
     \/ /\ ~Fresh
        /\ rpc' = [rpc EXCEPT ![r] = "do"]
        /\ began' = [began EXCEPT ![r] = now]
        /\ answer' = NoAnswer
        /\ UNCHANGED served
  /\ UNCHANGED <<flightVars, writeVars, since, inbox>>

\* DoChan: join the call in flight, or start one.
DoChan(r) ==
  /\ rpc[r] = "do"
  /\ rpc' = [rpc EXCEPT ![r] = "wait"]
  /\ flight' = IF flight.at = "none" THEN [NoFlight EXCEPT !.at = "recheck"] ELSE flight
  /\ answer' = NoAnswer
  /\ UNCHANGED <<entry, writeVars, since, inbox, began, served>>

\* A waiter's own deadline; the flight goes on without it.
GiveUp(r) ==
  /\ rpc[r] \in {"wait", "receive"}
  /\ rpc' = [rpc EXCEPT ![r] = "idle"]
  /\ inbox' = [inbox EXCEPT ![r] = None]
  /\ began' = [began EXCEPT ![r] = NoAnswer.began]
  /\ answer' = NoAnswer
  /\ UNCHANGED <<flightVars, writeVars, since, served>>

\* Mutant: the result of a failed load is ignored.
ReceiveSuccess(r) ==
  /\ rpc[r] = "receive" /\ inbox[r] # None
  /\ rpc' = [rpc EXCEPT ![r] = "idle"]
  /\ inbox' = [inbox EXCEPT ![r] = None]
  /\ began' = [began EXCEPT ![r] = NoAnswer.began]
  /\ HandOut(inbox[r], began[r])
  /\ UNCHANGED <<flightVars, writeVars, since>>

Receive(r) ==
  /\ rpc[r] = "receive"
  /\ rpc' = [rpc EXCEPT ![r] = "idle"]
  /\ inbox' = [inbox EXCEPT ![r] = None]
  /\ began' = [began EXCEPT ![r] = NoAnswer.began]
  /\ HandOut(inbox[r], began[r])
  /\ UNCHANGED <<flightVars, writeVars, since>>

(***************************************************************************)
(* The shared call.                                                        *)
(***************************************************************************)
FlightStep(f) ==
  /\ flight' = f
  /\ answer' = NoAnswer
  /\ UNCHANGED <<writeVars, since, rpc, inbox, began, served>>

Recheck ==
  /\ flight.at = "recheck"
  /\ FlightStep(IF Fresh THEN [flight EXCEPT !.at = "deliver", !.map = entry.map]
                ELSE [flight EXCEPT !.at = "query"])
  /\ UNCHANGED entry

\* Mutant: ListSeats reads from a lagging replica.
QueryReplica ==
  /\ flight.at = "query"
  /\ \/ \E v \in 0..db : FlightStep([flight EXCEPT !.at = "put", !.map = v])
     \/ FlightStep([flight EXCEPT !.at = "deliver", !.map = None])
  /\ UNCHANGED entry

\* ListSeats on the primary: a snapshot of the committed writes, or an error.
Query ==
  /\ flight.at = "query"
  /\ \/ FlightStep([flight EXCEPT !.at = "put", !.map = db])
     \/ FlightStep([flight EXCEPT !.at = "deliver", !.map = None])
  /\ UNCHANGED entry

Put ==
  /\ flight.at = "put"
  /\ FlightStep([flight EXCEPT !.at = "deliver"])
  /\ entry' = [map |-> flight.map, age |-> 0]

\* The call leaves the group; its result is in every waiter's channel.
Deliver ==
  /\ flight.at = "deliver"
  /\ flight' = NoFlight
  /\ rpc' = [r \in Reader |-> IF rpc[r] = "wait" THEN "receive" ELSE rpc[r]]
  /\ inbox' = [r \in Reader |-> IF rpc[r] = "wait" THEN flight.map ELSE inbox[r]]
  /\ answer' = NoAnswer
  /\ UNCHANGED <<entry, writeVars, since, began, served>>

(***************************************************************************)
(* Writes.  The service invalidates after a write it knows to have         *)
(* committed.  A commit whose answer was lost, the worker's sweep, a hold  *)
(* reaching its expiry and the other instances' writes change the map and  *)
(* invalidate nothing here.                                                *)
(***************************************************************************)
Commit(w) ==
  /\ wpc[w] = None /\ db < MaxWrites
  /\ db' = db + 1
  /\ wpc' = [wpc EXCEPT ![w] = db + 1]
  /\ answer' = NoAnswer
  /\ UNCHANGED <<flightVars, since, acked, rpc, inbox, began, served>>

\* invalidate, and the answer to the writing request.
Invalidate(w) ==
  /\ wpc[w] # None
  /\ entry' = NoEntry
  /\ acked' = Later(acked, wpc[w])
  /\ wpc' = [wpc EXCEPT ![w] = None]
  /\ answer' = NoAnswer
  /\ UNCHANGED <<flight, db, since, rpc, inbox, began, served>>

CommitUnseen(w) ==
  /\ wpc[w] # None
  /\ wpc' = [wpc EXCEPT ![w] = None]
  /\ answer' = NoAnswer
  /\ UNCHANGED <<flightVars, since, db, acked, rpc, inbox, began, served>>

Querying == flight.at \in {"query", "put"}

\* Mutant: the load has no deadline of its own.
LoadUnbounded == Querying

\* loadCtx: a query that has reached its deadline ends before time goes on.
LoadInTime == Querying /\ flight.age < Timeout

\* Time passes only while nothing but a query is under way.
Tick ==
  /\ flight.at = "none" \/ LoadInTime
  /\ \A r \in Reader : rpc[r] \in {"idle", "wait"}
  /\ since' = [v \in 1..MaxWrites |->
                 IF v <= db /\ since[v] < Forever THEN since[v] + 1 ELSE since[v]]
  /\ entry' = IF entry.map # None /\ entry.age <= TTL
              THEN [entry EXCEPT !.age = @ + 1] ELSE entry
  /\ flight' = IF Querying THEN [flight EXCEPT !.age = @ + 1] ELSE flight
  /\ answer' = NoAnswer
  /\ UNCHANGED <<writeVars, rpc, inbox, began, served>>

-----------------------------------------------------------------------------
Flight == Recheck \/ Query \/ Put \/ Deliver

Next ==
  \/ \E r \in Reader : Get(r) \/ DoChan(r) \/ GiveUp(r) \/ Receive(r)
  \/ Flight
  \/ \E w \in Writer : Commit(w) \/ Invalidate(w) \/ CommitUnseen(w)
  \/ Tick

Spec == Init /\ [][Next]_vars

\* Goroutines run, the load has a deadline, and time passes; nobody has to
\* read, write or give up.
Fairness == /\ SF_vars(Tick) /\ WF_vars(Flight)
            /\ \A r \in Reader : WF_vars(DoChan(r)) /\ WF_vars(Receive(r))

FairSpec == Spec /\ Fairness

-----------------------------------------------------------------------------
\* How long a map has been out of date.
StaleFor(map) == IF map < db THEN since[map + 1] ELSE 0

\* Readers of one instance never go back in time: a request that begins after
\* some map was handed out, to anyone, does not get an older one, although
\* loads race writes, invalidations, expiries of the entry and slow readers.
ReadsAreMonotonic == answer.map # None => answer.map >= answer.began.served

\* A map is handed out at most TTL plus one load after it went out of date,
\* also when the write that made it so invalidated nothing, or invalidated
\* before the load put its older map back.
StalenessBounded == answer.map # None => StaleFor(answer.map) <= TTL + Timeout

\* A load that fails or drags on leaves no reader waiting, even one whose own
\* deadline never fires.
ReadersAnswered == \A r \in Reader : rpc[r] # "idle" ~> rpc[r] = "idle"

-----------------------------------------------------------------------------
\* httpapi/seats.go: invalidation after every mutation guarantees immediate
\* read-your-writes.  A request that began after a write was answered can join
\* a load that queried before the write, or find what it put.
ReadsOwnWrites == answer.map # None => answer.map >= answer.began.acked
=============================================================================
