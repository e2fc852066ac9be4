---------------------------- MODULE SeatCacheProofs ----------------------------
(***************************************************************************)
(* Theorems about SeatCache, for any readers and writers, any TTL and load *)
(* deadline, and any number of writes.                                     *)
(***************************************************************************)
EXTENDS SeatCache, TLAPS

FlightPc == {"none", "recheck", "query", "put", "deliver"}

\* The types the argument needs, field by field.
CacheTyped ==
  /\ db \in Nat /\ served \in Nat /\ acked \in Nat
  /\ entry \in [map : Int, age : Nat]
  /\ flight \in [at : FlightPc, map : Int, age : Nat]
  /\ rpc \in [Reader -> {"idle", "do", "wait", "receive"}]
  /\ inbox \in [Reader -> Int]
  /\ began \in [Reader -> [served : Nat, acked : Nat]]
  /\ wpc \in [Writer -> Int]

\* Loads are ordered: a map that is, or will be, in the cache or on its way is
\* not older than any map that was delivered before, and none is from the future.
LoadsOrdered ==
  /\ served <= db /\ entry.map <= db /\ flight.map <= db
  /\ entry.map # None => entry.map >= served
  /\ flight.map # None => flight.map >= served /\ flight.map >= entry.map
  /\ \A r \in Reader :
       /\ began[r].served <= served
       /\ rpc[r] # "receive" => inbox[r] = None
       /\ inbox[r] # None =>
            /\ inbox[r] >= began[r].served /\ inbox[r] <= db
            /\ entry.map # None => inbox[r] <= entry.map
            /\ flight.map # None => inbox[r] <= flight.map

\* Before its query a flight has no map, and what it delivers was stored.
FlightHasMap ==
  /\ flight.at \in {"none", "recheck", "query"} => flight.map = None
  /\ flight.at = "deliver" /\ flight.map # None => entry.map \in {flight.map, None}

CacheInv == CacheTyped /\ LoadsOrdered /\ FlightHasMap /\ ReadsAreMonotonic

\* An empty cache.
LEMMA CacheInit == Init => CacheInv
  BY DEF Init, CacheInv, CacheTyped, FlightPc, LoadsOrdered, FlightHasMap, ReadsAreMonotonic,
         NoEntry, NoFlight, NoAnswer, None

\* A step that hands nothing out is monotonic.
LEMMA Silent == answer' = NoAnswer => ReadsAreMonotonic'
  BY DEF NoAnswer, ReadsAreMonotonic, None

\* Lookups, joins, and waiters that give up or receive.
LEMMA ReaderInv ==
  ASSUME CacheInv, NEW r \in Reader, Get(r) \/ DoChan(r) \/ GiveUp(r) \/ Receive(r)
  PROVE  CacheInv'
<1> USE DEF CacheInv
<1>0. /\ db \in Nat /\ served \in Nat /\ acked \in Nat /\ entry.map \in Int /\ flight.map \in Int
      /\ \A q \in Reader : inbox[q] \in Int /\ began[q].served \in Nat
      /\ began[r] \in [served : Nat, acked : Nat]
      /\ NoAnswer.began \in [served : Nat, acked : Nat] /\ NoAnswer.began.served = 0
      /\ None = -1 /\ None \in Int
  BY DEF CacheTyped, NoAnswer, None
<1>1. CASE Get(r)
  <2> DEFINE now == [served |-> served, acked |-> acked]
  <2>1. now \in [served : Nat, acked : Nat] /\ now.served = served
    BY <1>0
  <2>2. UNCHANGED <<entry, flight, db, acked, wpc, inbox>>
    BY <1>1 DEF Get, flightVars, writeVars
  <2>3. CASE Fresh
    <3>1. HandOut(entry.map, now) /\ UNCHANGED <<rpc, began>>
      BY <1>1, <2>3 DEF Get
    <3>2. entry.map # None /\ entry.map >= served /\ served' = entry.map
      BY <1>0, <2>3, <3>1 DEF Fresh, LoadsOrdered, HandOut, Later
    <3>3. ReadsAreMonotonic'
      BY <2>1, <3>1, <3>2 DEF HandOut, ReadsAreMonotonic
    <3>4. CacheTyped'
      BY <1>0, <2>2, <3>1, <3>2 DEF CacheTyped, LoadsOrdered
    <3>5. LoadsOrdered'
      BY <1>0, <2>2, <3>1, <3>2 DEF LoadsOrdered
    <3> QED BY <2>2, <3>3, <3>4, <3>5 DEF FlightHasMap
  <2>4. CASE ~Fresh
    <3>1. /\ rpc' = [rpc EXCEPT ![r] = "do"] /\ began' = [began EXCEPT ![r] = now]
          /\ answer' = NoAnswer /\ served' = served /\ rpc[r] = "idle"
      BY <1>1, <2>4 DEF Get
    <3>2. CacheTyped'
      BY <2>1, <2>2, <3>1 DEF CacheTyped
    <3>3. \A q \in Reader : q # r => began'[q] = began[q] /\ rpc'[q] = rpc[q]
      BY <3>1 DEF CacheTyped
    <3>4. began'[r].served = served /\ inbox[r] = None
      BY <2>1, <3>1 DEF CacheTyped, LoadsOrdered
    <3>5. LoadsOrdered'
      BY <1>0, <2>2, <3>1, <3>3, <3>4 DEF LoadsOrdered
    <3> QED BY <2>2, <3>1, <3>2, <3>5, Silent DEF FlightHasMap
  <2> QED BY <2>3, <2>4
<1>2. CASE DoChan(r)
  <2>1. /\ rpc' = [rpc EXCEPT ![r] = "wait"] /\ answer' = NoAnswer /\ rpc[r] = "do"
        /\ UNCHANGED <<entry, db, acked, wpc, inbox, began, served>>
    BY <1>2 DEF DoChan, writeVars
  <2>2. \/ flight' = flight
        \/ flight' = [at |-> "recheck", map |-> None, age |-> 0]
    BY <1>2 DEF DoChan, NoFlight
  <2>3. CacheTyped'
    BY <1>0, <2>1, <2>2 DEF CacheTyped, FlightPc
  <2>4. \A q \in Reader : rpc'[q] # "receive" => inbox'[q] = None
    BY <2>1 DEF CacheTyped, LoadsOrdered
  <2>5. flight'.map \in {flight.map, None}
    BY <2>2
  <2>6. LoadsOrdered'
    BY <1>0, <2>1, <2>4, <2>5 DEF LoadsOrdered
  <2>7. FlightHasMap'
    BY <2>1, <2>2 DEF FlightHasMap
  <2> QED BY <2>1, <2>3, <2>6, <2>7, Silent
<1>3. CASE GiveUp(r) \/ Receive(r)
  <2>1. /\ rpc' = [rpc EXCEPT ![r] = "idle"] /\ inbox' = [inbox EXCEPT ![r] = None]
        /\ began' = [began EXCEPT ![r] = NoAnswer.began]
        /\ UNCHANGED <<entry, flight, db, acked, wpc>>
    BY <1>3 DEF GiveUp, Receive, flightVars, writeVars
  <2>2. /\ served' = served \/ (inbox[r] # None /\ served' = Later(served, inbox[r]))
        /\ ReadsAreMonotonic'
    <3>1. CASE GiveUp(r)
      BY <3>1, Silent DEF GiveUp
    <3>2. CASE Receive(r)
      <4>1. HandOut(inbox[r], began[r])
        BY <3>2 DEF Receive
      <4>2. inbox[r] = None => served' = served
        BY <1>0, <4>1 DEF HandOut, Later
      <4>3. ReadsAreMonotonic'
        BY <1>0, <4>1 DEF HandOut, ReadsAreMonotonic, LoadsOrdered
      <4> QED BY <4>1, <4>2, <4>3 DEF HandOut
    <3> QED BY <1>3, <3>1, <3>2
  <2>3. /\ served' \in Nat /\ served' >= served /\ served' <= db
        /\ entry.map # None => entry.map >= served'
        /\ flight.map # None => flight.map >= served'
    BY <1>0, <2>2 DEF LoadsOrdered, Later
  <2>4. CacheTyped'
    BY <1>0, <2>1, <2>3 DEF CacheTyped
  <2>5. /\ \A q \in Reader : q # r => began'[q] = began[q] /\ rpc'[q] = rpc[q] /\ inbox'[q] = inbox[q]
        /\ began'[r].served = 0 /\ inbox'[r] = None
    BY <1>0, <2>1 DEF CacheTyped
  <2>6. LoadsOrdered'
    BY <1>0, <2>1, <2>3, <2>5 DEF LoadsOrdered
  <2> QED BY <2>1, <2>2, <2>4, <2>6 DEF FlightHasMap
<1> QED BY <1>1, <1>2, <1>3

\* The shared load: it answers from the cache, or queries, stores and delivers.
LEMMA FlightInv ==
  ASSUME CacheInv, Flight
  PROVE  CacheInv'
<1> USE DEF CacheInv
<1>0. /\ db \in Nat /\ served \in Nat /\ entry.map \in Int /\ flight.map \in Int
      /\ flight.age \in Nat /\ entry.age \in Nat
      /\ \A q \in Reader : inbox[q] \in Int /\ began[q].served \in Nat
      /\ None = -1 /\ None \in Int
  BY DEF CacheTyped, None
<1>1. CASE Recheck \/ Query
  <2>1. UNCHANGED <<entry, db, acked, wpc, rpc, inbox, began, served>> /\ answer' = NoAnswer
    BY <1>1 DEF Recheck, Query, FlightStep, writeVars
  <2>2. flight \in [at : FlightPc, map : Int, age : Nat]
    BY DEF CacheTyped
  <2>3. \/ flight' = [flight EXCEPT !.at = "deliver", !.map = entry.map]
        \/ flight' = [flight EXCEPT !.at = "query"] /\ flight.at = "recheck"
        \/ flight' = [flight EXCEPT !.at = "put", !.map = db]
        \/ flight' = [flight EXCEPT !.at = "deliver", !.map = None]
    BY <1>1 DEF Recheck, Query, FlightStep
  <2>4. flight' \in [at : FlightPc, map : Int, age : Nat]
    <3>1. \A p \in FlightPc, m \in Int :
            [flight EXCEPT !.at = p, !.map = m] \in [at : FlightPc, map : Int, age : Nat]
      BY <2>2
    <3>2. [flight EXCEPT !.at = "query"] \in [at : FlightPc, map : Int, age : Nat]
      BY <2>2 DEF FlightPc
    <3>3. "deliver" \in FlightPc /\ "put" \in FlightPc /\ db \in Int
      BY <1>0 DEF FlightPc
    <3> QED BY <1>0, <2>3, <3>1, <3>2, <3>3
  <2>5. \/ flight'.map \in {entry.map, None} /\ flight'.at = "deliver"
        \/ flight'.map = db /\ flight'.at = "put"
        \/ flight'.map = None /\ flight'.at = "query"
    BY <2>2, <2>3 DEF FlightHasMap
  <2>6. CacheTyped'
    BY <2>1, <2>4 DEF CacheTyped
  <2>7. LoadsOrdered'
    <3>1. flight'.map \in {entry.map, db, None}
      BY <2>5
    <3> QED BY <1>0, <2>1, <3>1 DEF LoadsOrdered
  <2> QED BY <2>1, <2>5, <2>6, <2>7, Silent DEF FlightHasMap
<1>2. CASE Put
  <2>1. /\ UNCHANGED <<db, acked, wpc, rpc, inbox, began, served>> /\ answer' = NoAnswer
        /\ entry' = [map |-> flight.map, age |-> 0] /\ flight' = [flight EXCEPT !.at = "deliver"]
    BY <1>2 DEF Put, FlightStep, writeVars
  <2>2. flight'.map = flight.map /\ flight'.at = "deliver" /\ entry'.map = flight.map
    BY <2>1 DEF CacheTyped
  <2>3. CacheTyped'
    BY <1>0, <2>1 DEF CacheTyped, FlightPc
  <2>4. LoadsOrdered'
    BY <1>0, <2>1, <2>2 DEF LoadsOrdered
  <2> QED BY <2>1, <2>2, <2>3, <2>4, Silent DEF FlightHasMap
<1>3. CASE Deliver
  <2>1. /\ UNCHANGED <<entry, db, acked, wpc, began, served>> /\ answer' = NoAnswer
        /\ flight' = [at |-> "none", map |-> None, age |-> 0]
        /\ rpc' = [r \in Reader |-> IF rpc[r] = "wait" THEN "receive" ELSE rpc[r]]
        /\ inbox' = [r \in Reader |-> IF rpc[r] = "wait" THEN flight.map ELSE inbox[r]]
    BY <1>3 DEF Deliver, NoFlight, writeVars
  <2>2. flight'.map = None /\ flight'.at = "none"
    BY <2>1
  <2>3. CacheTyped'
    BY <1>0, <2>1 DEF CacheTyped, FlightPc
  <2>4. \A r \in Reader : \/ rpc'[r] = "receive" /\ inbox'[r] = flight.map
                          \/ rpc'[r] = rpc[r] /\ inbox'[r] = inbox[r]
    BY <2>1
  <2>5. flight.map # None => entry.map \in {flight.map, None}
    BY <1>3 DEF Deliver, FlightHasMap
  <2>6. LoadsOrdered'
    BY <1>0, <2>1, <2>2, <2>4, <2>5 DEF LoadsOrdered
  <2> QED BY <2>1, <2>2, <2>3, <2>6, Silent DEF FlightHasMap
<1> QED BY <1>1, <1>2, <1>3 DEF Flight

\* Writes make the tables newer and the cache empty; time changes ages only.
LEMMA WriterInv ==
  ASSUME CacheInv, Tick \/ \E w \in Writer : Commit(w) \/ Invalidate(w) \/ CommitUnseen(w)
  PROVE  CacheInv'
<1> USE DEF CacheInv
<1>0. /\ db \in Nat /\ served \in Nat /\ entry.map \in Int /\ flight.map \in Int
      /\ \A q \in Reader : inbox[q] \in Int /\ began[q].served \in Nat
      /\ None = -1 /\ None \in Int
  BY DEF CacheTyped, None
<1>1. UNCHANGED <<rpc, inbox, began, served>> /\ answer' = NoAnswer
  BY DEF Tick, Commit, Invalidate, CommitUnseen
<1>2. CASE Tick
  <2>1. /\ UNCHANGED <<db, acked, wpc>>
        /\ entry' = entry \/ entry' = [entry EXCEPT !.age = @ + 1]
        /\ flight' = flight \/ flight' = [flight EXCEPT !.age = @ + 1]
    BY <1>2 DEF Tick, writeVars
  <2>2. entry'.map = entry.map /\ flight'.map = flight.map /\ flight'.at = flight.at
    BY <2>1 DEF CacheTyped
  <2>3. CacheTyped'
    BY <1>1, <2>1 DEF CacheTyped
  <2>4. LoadsOrdered'
    BY <1>0, <1>1, <2>1, <2>2 DEF LoadsOrdered
  <2> QED BY <1>1, <2>2, <2>3, <2>4, Silent DEF FlightHasMap
<1>3. ASSUME NEW w \in Writer, Commit(w) \/ CommitUnseen(w) PROVE CacheInv'
  <2>1. /\ UNCHANGED <<entry, flight, acked>> /\ db' \in Nat /\ db' >= db
        /\ wpc' \in [Writer -> Int]
    BY <1>0, <1>3 DEF Commit, CommitUnseen, flightVars, CacheTyped
  <2>2. CacheTyped'
    BY <1>1, <2>1 DEF CacheTyped
  <2>3. LoadsOrdered'
    BY <1>0, <1>1, <2>1 DEF LoadsOrdered
  <2> QED BY <1>1, <2>1, <2>2, <2>3, Silent DEF FlightHasMap
<1>4. ASSUME NEW w \in Writer, Invalidate(w) PROVE CacheInv'
  <2>1. /\ UNCHANGED <<flight, db>> /\ entry' = [map |-> None, age |-> 0]
        /\ acked' = Later(acked, wpc[w]) /\ wpc' = [wpc EXCEPT ![w] = None]
    BY <1>4 DEF Invalidate, NoEntry
  <2>2. entry'.map = None /\ acked' \in Nat
    BY <2>1 DEF CacheTyped, Later
  <2>3. CacheTyped'
    BY <1>0, <1>1, <2>1, <2>2 DEF CacheTyped
  <2>4. LoadsOrdered'
    BY <1>0, <1>1, <2>1, <2>2 DEF LoadsOrdered
  <2> QED BY <1>1, <2>1, <2>3, <2>4, Silent DEF FlightHasMap
<1> QED BY <1>2, <1>3, <1>4

\* The four together are inductive.
LEMMA CacheInvariant == Spec => []CacheInv
<1>1. CacheInv /\ [Next]_vars => CacheInv'
  <2> SUFFICES ASSUME CacheInv, [Next]_vars PROVE CacheInv'
    OBVIOUS
  <2>1. CASE UNCHANGED vars
    BY <2>1 DEF vars, flightVars, readVars, writeVars, CacheInv, CacheTyped, LoadsOrdered,
                FlightHasMap, ReadsAreMonotonic
  <2> QED BY <2>1, ReaderInv, FlightInv, WriterInv DEF Next
<1> QED BY <1>1, CacheInit, PTL DEF Spec

\* Whoever asks later never sees an older map, although loads race writes,
\* invalidations, expiries and readers that are slow to take their result.
THEOREM MonotonicReads == Spec => []ReadsAreMonotonic
<1>1. CacheInv => ReadsAreMonotonic
  BY DEF CacheInv
<1> QED BY <1>1, CacheInvariant, PTL

-----------------------------------------------------------------------------
(***************************************************************************)
(* Types, with the bounds on ages that the staleness argument rests on.    *)
(***************************************************************************)
\* What may be handed out, and the later of two versions, are versions.
LEMMA HandOutTyped ==
  ASSUME TypeOK, NEW m \in Result, NEW b \in Begun, HandOut(m, b)
  PROVE  served' \in Version /\ answer' \in [map : Result, began : Begun]
  BY CacheAssumption DEF TypeOK, HandOut, Later, Result, Version, None

\* A step that hands nothing out answers with no map.
LEMMA SilentTyped ==
  ASSUME answer' = NoAnswer
  PROVE  answer' \in [map : Result, began : Begun] /\ answer'.map = None
  BY CacheAssumption DEF NoAnswer, Result, Begun, Version

\* Each step keeps every field in its range; a load's age stops at its deadline.
LEMMA NextTyped == TypeOK /\ [Next]_vars => TypeOK'
<1> SUFFICES ASSUME TypeOK, [Next]_vars PROVE TypeOK'
  OBVIOUS
<1>0. /\ None \in Result /\ Version \subseteq Result /\ 0 \in Version /\ NoAnswer.began \in Begun
      /\ NoEntry \in [map : Result, age : 0..(TTL + 1)]
      /\ \A p \in {"none", "recheck"} : [NoFlight EXCEPT !.at = p] \in
           [at : {"none", "recheck", "query", "put", "deliver"}, map : Result, age : 0..Timeout]
      /\ NoFlight.at = "none" /\ [NoFlight EXCEPT !.at = "none"] = NoFlight
  BY CacheAssumption DEF Result, Version, NoAnswer, Begun, NoEntry, NoFlight
<1>1. ASSUME NEW r \in Reader, Get(r) PROVE TypeOK'
  <2> DEFINE now == [served |-> served, acked |-> acked]
  <2>1. now \in Begun BY DEF TypeOK, Begun
  <2>2. UNCHANGED <<entry, flight, db, wpc, acked, since, inbox>>
    BY <1>1 DEF Get, flightVars, writeVars
  <2>3. CASE Fresh
    <3>1. HandOut(entry.map, now) /\ UNCHANGED <<rpc, began>>
      BY <1>1, <2>3 DEF Get
    <3>2. entry.map \in Result BY DEF TypeOK
    <3>3. served' \in Version /\ answer' \in [map : Result, began : Begun]
      BY <2>1, <3>1, <3>2, HandOutTyped
    <3> QED BY <2>2, <3>1, <3>3 DEF TypeOK
  <2>4. CASE ~Fresh
    <3>1. /\ rpc' = [rpc EXCEPT ![r] = "do"] /\ began' = [began EXCEPT ![r] = now]
          /\ answer' = NoAnswer /\ served' = served
      BY <1>1, <2>4 DEF Get
    <3> QED BY <2>1, <2>2, <3>1, SilentTyped DEF TypeOK
  <2> QED BY <2>3, <2>4
<1>2. ASSUME NEW r \in Reader, DoChan(r) PROVE TypeOK'
  <2>1. /\ UNCHANGED <<entry, db, wpc, acked, since, inbox, began, served>>
        /\ rpc' = [rpc EXCEPT ![r] = "wait"] /\ answer' = NoAnswer
        /\ flight' = flight \/ flight' = [NoFlight EXCEPT !.at = "recheck"]
    BY <1>2 DEF DoChan, writeVars
  <2> QED BY <1>0, <2>1, SilentTyped DEF TypeOK
<1>3. ASSUME NEW r \in Reader, GiveUp(r) \/ Receive(r) PROVE TypeOK'
  <2>1. /\ UNCHANGED <<entry, flight, db, wpc, acked, since>>
        /\ rpc' = [rpc EXCEPT ![r] = "idle"] /\ inbox' = [inbox EXCEPT ![r] = None]
        /\ began' = [began EXCEPT ![r] = NoAnswer.began]
    BY <1>3 DEF GiveUp, Receive, flightVars, writeVars
  <2>2. served' \in Version /\ answer' \in [map : Result, began : Begun]
    <3>1. CASE GiveUp(r) BY <3>1, SilentTyped DEF GiveUp, TypeOK
    <3>2. CASE Receive(r)
      <4>1. inbox[r] \in Result /\ began[r] \in Begun BY DEF TypeOK
      <4> QED BY <3>2, <4>1, HandOutTyped DEF Receive
    <3> QED BY <1>3, <3>1, <3>2
  <2> QED BY <1>0, <2>1, <2>2 DEF TypeOK
<1>4. ASSUME Recheck \/ Query \/ Put PROVE TypeOK'
  <2>1. UNCHANGED <<db, wpc, acked, since, rpc, inbox, began, served>> /\ answer' = NoAnswer
    BY <1>4 DEF Recheck, Query, Put, FlightStep, writeVars
  <2>2. entry' \in [map : Result, age : 0..(TTL + 1)]
    BY <1>4, CacheAssumption DEF Recheck, Query, Put, TypeOK
  <2>3. \E p \in {"query", "put", "deliver"}, m \in Result :
          flight' = [flight EXCEPT !.at = p, !.map = m]
    <3>1. [flight EXCEPT !.at = "query"] = [flight EXCEPT !.at = "query", !.map = flight.map]
      BY DEF TypeOK
    <3>2. [flight EXCEPT !.at = "deliver"] = [flight EXCEPT !.at = "deliver", !.map = flight.map]
      BY DEF TypeOK
    <3>3. flight.map \in Result /\ entry.map \in Result /\ db \in Result
      BY <1>0 DEF TypeOK
    <3> QED BY <1>0, <1>4, <3>1, <3>2, <3>3 DEF Recheck, Query, Put, FlightStep
  <2>4. flight' \in [at : {"none", "recheck", "query", "put", "deliver"},
                     map : Result, age : 0..Timeout]
    BY <2>3 DEF TypeOK
  <2> QED BY <2>1, <2>2, <2>4, SilentTyped DEF TypeOK
<1>5. ASSUME Deliver PROVE TypeOK'
  <2>1. /\ UNCHANGED <<entry, db, wpc, acked, since, began, served>>
        /\ flight' = NoFlight /\ answer' = NoAnswer
        /\ rpc' = [r \in Reader |-> IF rpc[r] = "wait" THEN "receive" ELSE rpc[r]]
        /\ inbox' = [r \in Reader |-> IF rpc[r] = "wait" THEN flight.map ELSE inbox[r]]
    BY <1>5 DEF Deliver, writeVars
  <2> QED BY <1>0, <2>1, SilentTyped DEF TypeOK
<1>6. ASSUME NEW w \in Writer, Commit(w) \/ Invalidate(w) \/ CommitUnseen(w) PROVE TypeOK'
  <2>1. UNCHANGED <<flight, since, rpc, inbox, began, served>> /\ answer' = NoAnswer
    BY <1>6 DEF Commit, Invalidate, CommitUnseen, flightVars
  <2>2. entry' \in {entry, NoEntry}
    BY <1>6 DEF Commit, Invalidate, CommitUnseen, flightVars
  <2>3. db' \in Version /\ acked' \in Version
    BY <1>6, CacheAssumption DEF Commit, Invalidate, CommitUnseen, TypeOK, Version, Result, None, Later
  <2>4. wpc' \in [Writer -> Result]
    <3>1. wpc' = [wpc EXCEPT ![w] = None] \/ (wpc' = [wpc EXCEPT ![w] = db + 1] /\ db' = db + 1)
      BY <1>6 DEF Commit, Invalidate, CommitUnseen
    <3>2. \A v \in Result : [wpc EXCEPT ![w] = v] \in [Writer -> Result]
      BY DEF TypeOK
    <3> QED BY <1>0, <2>3, <3>1, <3>2
  <2> QED BY <1>0, <2>1, <2>2, <2>3, <2>4, SilentTyped DEF TypeOK
<1>7. ASSUME Tick PROVE TypeOK'
  <2>1. UNCHANGED <<db, wpc, acked, rpc, inbox, began, served>> /\ answer' = NoAnswer
    BY <1>7 DEF Tick, writeVars
  <2>2. since' \in [1..MaxWrites -> 0..Forever]
    BY <1>7, CacheAssumption DEF Tick, TypeOK, Forever, Version
  <2>3. entry' \in [map : Result, age : 0..(TTL + 1)]
    BY <1>7, CacheAssumption DEF Tick, TypeOK
  <2>4. flight' \in [at : {"none", "recheck", "query", "put", "deliver"},
                     map : Result, age : 0..Timeout]
    <3>1. CASE Querying
      <4>1. flight' = [flight EXCEPT !.age = @ + 1] /\ flight.age < Timeout
        BY <1>7, <3>1 DEF Tick, LoadInTime, Querying
      <4>2. flight.age + 1 \in 0..Timeout
        BY <4>1, CacheAssumption DEF TypeOK
      <4> QED BY <4>1, <4>2 DEF TypeOK
    <3>2. CASE ~Querying BY <1>7, <3>2 DEF Tick, TypeOK
    <3> QED BY <3>1, <3>2
  <2> QED BY <2>1, <2>2, <2>3, <2>4, SilentTyped DEF TypeOK
<1>8. CASE UNCHANGED vars
  BY <1>8 DEF vars, flightVars, readVars, writeVars, TypeOK
<1> QED BY <1>1, <1>2, <1>3, <1>4, <1>5, <1>6, <1>7, <1>8 DEF Next, Flight

\* The cache keeps its types: versions stay within the writes, a load's age
\* within its deadline and an entry's within one tick of its TTL.
THEOREM CacheTypeCorrect == Spec => []TypeOK
<1>1. Init => TypeOK
  BY CacheAssumption DEF Init, TypeOK, Version, Result, Begun, NoEntry, NoFlight, NoAnswer, None, Forever
<1> QED BY <1>1, NextTyped, PTL DEF Spec

-----------------------------------------------------------------------------
(***************************************************************************)
(* Staleness.  A map ages by the same clock as the load or the entry that  *)
(* holds it, and no time passes while one is delivered or received.        *)
(***************************************************************************)
StaleBy(map, bound) == map # None => StaleFor(map) <= bound

MapsAge ==
  /\ \A v \in 1..MaxWrites : v > db => since[v] = 0
  /\ entry.age <= TTL => StaleBy(entry.map, entry.age + Timeout)
  /\ flight.at = "put" => StaleBy(flight.map, flight.age)
  /\ flight.at = "deliver" => StaleBy(flight.map, TTL + Timeout)
  /\ \A r \in Reader : StaleBy(inbox[r], TTL + Timeout)
  /\ StaleBy(answer.map, TTL + Timeout)

\* While the tables and the clock stand still no map grows stale.
LEMMA StaleKept ==
  ASSUME UNCHANGED <<db, since>>
  PROVE  \A m, b : StaleBy(m, b)' <=> StaleBy(m, b)
  BY DEF StaleBy, StaleFor

\* Each step keeps the maps within their bounds.
LEMMA NextAge ==
  ASSUME TypeOK, CacheInv, MapsAge, [Next]_vars
  PROVE  MapsAge'
<1>0. /\ db \in Nat /\ MaxWrites \in Nat /\ db <= MaxWrites /\ TTL \in Nat /\ Timeout \in Nat
      /\ entry.age \in Nat /\ flight.age \in Nat /\ flight.age <= Timeout
      /\ \A v \in 1..MaxWrites : since[v] \in Nat
      /\ entry.map \in Result /\ flight.map \in Result /\ \A r \in Reader : inbox[r] \in Result
  BY CacheAssumption DEF TypeOK, Version, Forever
<1>1. StaleBy(None, TTL + Timeout)' /\ StaleBy(None, Timeout)' /\ NoAnswer.map = None
  BY DEF StaleBy, NoAnswer
<1>2. ASSUME NEW r \in Reader, Get(r) \/ DoChan(r) \/ GiveUp(r) \/ Receive(r)
      PROVE  MapsAge'
  <2>1. UNCHANGED <<db, since, entry>> BY <1>2 DEF Get, DoChan, GiveUp, Receive, flightVars, writeVars
  <2>2. flight' = flight \/ flight'.at = "recheck"
    BY <1>2 DEF Get, DoChan, GiveUp, Receive, flightVars, NoFlight
  <2>3. \A q \in Reader : inbox'[q] \in {inbox[q], None}
    BY <1>2 DEF Get, DoChan, GiveUp, Receive, TypeOK
  <2>4. answer'.map = None \/ (Fresh /\ answer'.map = entry.map) \/ answer'.map = inbox[r]
    BY <1>1, <1>2 DEF Get, DoChan, GiveUp, Receive, HandOut
  <2>5. Fresh => StaleBy(entry.map, TTL + Timeout)
    <3>1. Fresh => StaleFor(entry.map) <= entry.age + Timeout /\ entry.age <= TTL
      BY DEF Fresh, MapsAge, StaleBy
    <3>2. entry.map \in Version => StaleFor(entry.map) \in Nat
      BY <1>0 DEF StaleFor, Version
    <3> QED BY <1>0, <3>1, <3>2 DEF StaleBy, Result
  <2>6. StaleBy(answer'.map, TTL + Timeout)
    BY <2>4, <2>5 DEF MapsAge, StaleBy
  <2>7. \A q \in Reader : StaleBy(inbox'[q], TTL + Timeout)
    BY <2>3 DEF MapsAge, StaleBy
  <2> QED BY <2>1, <2>2, <2>6, <2>7, StaleKept DEF MapsAge
<1>3. ASSUME Recheck \/ Query \/ Put \/ Deliver PROVE MapsAge'
  <2>1. UNCHANGED <<db, since>> /\ answer'.map = None
    BY <1>1, <1>3 DEF Recheck, Query, Put, Deliver, FlightStep, writeVars
  <2>2. CASE Recheck
    <3>1. UNCHANGED <<entry, inbox>> BY <2>2 DEF Recheck, FlightStep
    <3>2. \/ flight'.at = "query"
          \/ flight'.at = "deliver" /\ flight'.map = entry.map /\ entry.age <= TTL
      BY <2>2 DEF Recheck, FlightStep, Fresh, TypeOK
    <3>3. entry.age <= TTL => StaleBy(entry.map, TTL + Timeout)
      <4>1. entry.map \in Version => StaleFor(entry.map) \in Nat
        BY <1>0 DEF StaleFor, Version
      <4> QED BY <1>0, <4>1 DEF MapsAge, StaleBy, Result
    <3> QED BY <1>1, <2>1, <3>1, <3>2, <3>3, StaleKept DEF MapsAge
  <2>3. CASE Query
    <3>1. UNCHANGED <<entry, inbox>> BY <2>3 DEF Query, FlightStep
    <3>2. \/ flight'.at = "put" /\ flight'.map = db /\ flight'.age = flight.age
          \/ flight'.at = "deliver" /\ flight'.map = None
      BY <2>3 DEF Query, FlightStep, TypeOK
    <3>3. StaleBy(db, flight.age)
      BY <1>0 DEF StaleBy, StaleFor
    <3> QED BY <1>1, <2>1, <3>1, <3>2, <3>3, StaleKept DEF MapsAge
  <2>4. CASE Put
    <3>1. /\ UNCHANGED inbox /\ entry'.map = flight.map /\ entry'.age = 0
          /\ flight'.at = "deliver" /\ flight'.map = flight.map /\ flight.at = "put"
      BY <2>4 DEF Put, FlightStep, TypeOK
    <3>2. StaleBy(flight.map, 0 + Timeout) /\ StaleBy(flight.map, TTL + Timeout)
      <4>1. flight.map \in Version => StaleFor(flight.map) \in Nat
        BY <1>0 DEF StaleFor, Version
      <4> QED BY <1>0, <3>1, <4>1 DEF MapsAge, StaleBy, Result
    <3> QED BY <1>1, <2>1, <3>1, <3>2, StaleKept DEF MapsAge
  <2>5. CASE Deliver
    <3>1. /\ UNCHANGED entry /\ flight'.at = "none" /\ flight.at = "deliver"
          /\ \A r \in Reader : inbox'[r] \in {inbox[r], flight.map}
      BY <2>5 DEF Deliver, NoFlight
    <3>2. \A r \in Reader : StaleBy(inbox'[r], TTL + Timeout)
      BY <3>1 DEF MapsAge
    <3> QED BY <1>1, <2>1, <3>1, <3>2, StaleKept DEF MapsAge
  <2> QED BY <1>3, <2>2, <2>3, <2>4, <2>5
<1>4. ASSUME NEW w \in Writer, Commit(w) \/ Invalidate(w) \/ CommitUnseen(w) PROVE MapsAge'
  <2>1. UNCHANGED <<since, flight, inbox>> /\ answer'.map = None /\ db' \in {db, db + 1} /\ db' <= MaxWrites
    BY <1>0, <1>1, <1>4 DEF Commit, Invalidate, CommitUnseen, flightVars
  <2>2. entry' = entry \/ entry'.map = None
    BY <1>4 DEF Commit, Invalidate, CommitUnseen, flightVars, NoEntry
  <2>3. ASSUME NEW m \in Result, NEW b \in Nat, StaleBy(m, b), m <= db PROVE StaleBy(m, b)'
    <3>1. CASE m = db /\ db' = db + 1
      <4>1. since[m + 1] = 0 BY <1>0, <2>1, <3>1 DEF MapsAge
      <4> QED BY <1>0, <2>1, <2>3, <3>1, <4>1 DEF StaleBy, StaleFor
    <3>2. CASE ~(m = db /\ db' = db + 1)
      <4>1. m < db' <=> m < db BY <1>0, <2>1, <2>3, <3>2 DEF Result, Version, None
      <4> QED BY <2>1, <2>3, <4>1 DEF StaleBy, StaleFor
    <3> QED BY <3>1, <3>2
  <2>4. entry.map <= db /\ flight.map <= db /\ \A r \in Reader : inbox[r] <= db
    BY <1>0 DEF CacheInv, LoadsOrdered, None
  <2>5. \A v \in 1..MaxWrites : v > db' => since'[v] = 0
    BY <1>0, <2>1 DEF MapsAge
  <2>6. (entry.age <= TTL => StaleBy(entry.map, entry.age + Timeout))'
    <3>1. CASE entry' = entry
      <4>1. entry.age + Timeout \in Nat BY <1>0
      <4>2. entry.age <= TTL => StaleBy(entry.map, entry.age + Timeout) BY DEF MapsAge
      <4>3. PICK m : m = entry.map OBVIOUS
      <4>4. PICK b : b = entry.age + Timeout OBVIOUS
      <4>5. entry.age <= TTL => StaleBy(m, b)' BY <1>0, <2>3, <2>4, <4>1, <4>2, <4>3, <4>4
      <4> QED BY <3>1, <4>3, <4>4, <4>5
    <3>2. CASE entry'.map = None BY <3>2 DEF StaleBy
    <3> QED BY <2>2, <3>1, <3>2
  <2>7. PICK m : m = flight.map OBVIOUS
  <2>8. PICK a : a = flight.age OBVIOUS
  <2>9. flight.at = "put" => StaleBy(m, a)'
    BY <1>0, <2>3, <2>4, <2>7, <2>8 DEF MapsAge
  <2>10. flight.at = "deliver" => StaleBy(m, TTL + Timeout)'
    BY <1>0, <2>3, <2>4, <2>7 DEF MapsAge
  <2>11. ASSUME NEW r \in Reader PROVE StaleBy(inbox[r], TTL + Timeout)'
    <3>1. PICK k : k = inbox[r] OBVIOUS
    <3>2. StaleBy(k, TTL + Timeout)' BY <1>0, <2>3, <2>4, <3>1 DEF MapsAge
    <3> QED BY <2>1, <3>1, <3>2
  <2> QED BY <1>1, <2>1, <2>5, <2>6, <2>7, <2>8, <2>9, <2>10, <2>11 DEF MapsAge
<1>5. ASSUME Tick PROVE MapsAge'
  <2>1. UNCHANGED <<db, inbox>> /\ answer'.map = None BY <1>1, <1>5 DEF Tick, writeVars
  <2>2. /\ flight.at \in {"none", "query", "put"}
        /\ flight'.at = flight.at /\ flight'.map = flight.map
        /\ flight.at = "put" => flight'.age = flight.age + 1
    BY <1>5 DEF Tick, LoadInTime, Querying, TypeOK
  <2>3. entry'.map = entry.map /\ (entry.map # None /\ entry'.age <= TTL => entry'.age = entry.age + 1 /\ entry.age <= TTL)
    BY <1>0, <1>5 DEF Tick, TypeOK
  <2>4. \A r \in Reader : inbox[r] = None
    BY <1>5 DEF Tick, CacheInv, LoadsOrdered
  <2>5. \A v \in 1..MaxWrites : /\ since'[v] \in Nat /\ since'[v] <= since[v] + 1
                                /\ v > db => since'[v] = since[v]
    BY <1>0, <1>5 DEF Tick
  <2>6. ASSUME NEW m \in Version, NEW b \in Nat, StaleFor(m) <= b PROVE StaleFor(m)' <= b + 1
    <3>1. CASE m < db
      <4>1. m + 1 \in 1..MaxWrites BY <1>0, <3>1 DEF Version
      <4>2. StaleFor(m) = since[m + 1] /\ StaleFor(m)' = since'[m + 1]
        BY <2>1, <3>1 DEF StaleFor
      <4> QED BY <1>0, <2>5, <2>6, <4>1, <4>2
    <3>2. CASE ~(m < db)
      BY <2>1, <3>2 DEF StaleFor
    <3> QED BY <3>1, <3>2
  <2>7. (entry.age <= TTL => StaleBy(entry.map, entry.age + Timeout))'
    <3>1. PICK m : m = entry.map OBVIOUS
    <3> SUFFICES ASSUME entry'.age <= TTL, m # None
                 PROVE  StaleFor(m)' <= entry'.age + Timeout
      BY <2>3, <3>1 DEF StaleBy
    <3>2. m \in Version /\ StaleFor(m) <= entry.age + Timeout /\ entry.age + Timeout \in Nat
      BY <1>0, <2>3, <3>1 DEF MapsAge, StaleBy, Result
    <3>3. StaleFor(m)' <= (entry.age + Timeout) + 1 BY <2>6, <3>2
    <3>4. entry'.age + Timeout = entry.age + Timeout + 1 BY <1>0, <2>3, <3>1
    <3> QED BY <3>3, <3>4
  <2>8. (flight.at = "put" => StaleBy(flight.map, flight.age))'
    <3>1. PICK m : m = flight.map OBVIOUS
    <3> SUFFICES ASSUME flight.at = "put", m # None
                 PROVE  StaleFor(m)' <= flight'.age
      BY <2>2, <3>1 DEF StaleBy
    <3>2. m \in Version /\ StaleFor(m) <= flight.age
      BY <1>0, <3>1 DEF MapsAge, StaleBy, Result
    <3>3. StaleFor(m)' <= flight.age + 1 BY <1>0, <2>6, <3>2
    <3> QED BY <2>2, <3>3
  <2>9. \A v \in 1..MaxWrites : v > db' => since'[v] = 0
    BY <2>1, <2>5 DEF MapsAge
  <2> QED BY <1>1, <2>1, <2>2, <2>4, <2>7, <2>8, <2>9 DEF MapsAge
<1>6. CASE UNCHANGED vars
  <2>1. UNCHANGED <<db, since, entry, flight, inbox, answer>>
    BY <1>6 DEF vars, flightVars, readVars, writeVars
  <2> QED BY <2>1 DEF MapsAge, StaleBy, StaleFor
<1> QED BY <1>2, <1>3, <1>4, <1>5, <1>6 DEF Next, Flight

\* No map is handed out more than TTL plus one load's deadline after it went
\* out of date, whether or not the write that outdated it invalidated anything,
\* and although a load may put an older map back after an invalidation.
THEOREM StalenessIsBounded == Spec => []StalenessBounded
<1>1. Init => MapsAge
  BY CacheAssumption DEF Init, MapsAge, StaleBy, NoEntry, NoFlight, NoAnswer, None
<1>2. MapsAge => StalenessBounded
  BY DEF MapsAge, StaleBy, StalenessBounded
<1> QED BY <1>1, <1>2, NextAge, CacheTypeCorrect, CacheInvariant, PTL DEF Spec
=============================================================================
