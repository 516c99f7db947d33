------------------------- MODULE LiveVehiclesProofs -------------------------
(***************************************************************************)
(* Theorems about LiveVehicles, for any vehicles, requests and times to    *)
(* live.                                                                   *)
(***************************************************************************)
EXTENDS LiveVehicles, TLAPS

\* Only registered vehicles are pinged, and a throttle that is set stands for a
\* last_seen that is written, or is about to be.
Writing(v) == \E r \in Requests : req[r].pc = "last_seen" /\ req[r].v = v
PingsRegistered == \A r \in Requests : req[r].pc \in PingSteps => req[r].v \in registered
ThrottleMeansSeen ==
  \A v \in Vehicles : seenTtl[v] # 0 => v \in seen \/ Writing(v) \/ failures > 0

IInv == TypeOK /\ PingsRegistered /\ ThrottleMeansSeen
          /\ ImmortalOnlyByFailure /\ LiveHasBeenSeen

-----------------------------------------------------------------------------
\* A step of one request leaves the others alone.
LEMMA OthersStay ==
  ASSUME TypeOK, NEW r \in Requests, NEW w, Step(r, w)
  PROVE  /\ req' = [q \in Requests |-> IF q = r THEN w ELSE req[q]]
         /\ \A q \in Requests \ {r} : req'[q] = req[q]
         /\ req'[r] = w
  <1>1. DOMAIN req = Requests
    BY DEF TypeOK
  <1> QED BY <1>1 DEF Step

LEMMA GoToIsAStep ==
  ASSUME TypeOK, NEW r \in Requests, NEW pc, GoTo(r, pc), req[r] \in Pings
  PROVE  Step(r, [pc |-> pc, v |-> req[r].v]) /\ req[r].v \in Vehicles
  <1>1. [req[r] EXCEPT !.pc = pc] = [pc |-> pc, v |-> req[r].v]
    BY DEF Pings
  <1> QED BY <1>1 DEF GoTo, Pings

LEMMA PingStepIsAPing ==
  ASSUME TypeOK, NEW r \in Requests, req[r].pc \in PingSteps
  PROVE  req[r] \in Pings /\ req[r].v \in Vehicles
  BY SMT DEF TypeOK, Pings, Searches, Idle, PingSteps

-----------------------------------------------------------------------------
LEMMA InitIInv == Init => IInv
  BY LiveAssumption, SMT DEF Init, IInv, TypeOK, PingsRegistered, ThrottleMeansSeen,
     ImmortalOnlyByFailure, LiveHasBeenSeen, Immortal, Idle, PingSteps

\* The steps of a ping go on to another step of the same ping, or end it.
LEMMA GeoAddKeeps == ASSUME IInv, NEW r \in Requests, GeoAdd(r) PROVE IInv'
  <1> DEFINE v == req[r].v
             w == [pc |-> "hset", v |-> v]
  <1>1. req[r] \in Pings /\ v \in Vehicles /\ v \in registered
    BY PingStepIsAPing, SMT DEF IInv, GeoAdd, PingSteps, PingsRegistered
  <1>2. Step(r, w)
    BY <1>1, GoToIsAStep DEF GeoAdd, IInv
  <1>3. /\ req' = [q \in Requests |-> IF q = r THEN w ELSE req[q]]
        /\ \A q \in Requests \ {r} : req'[q] = req[q]
        /\ req'[r] = w
    BY <1>2, OthersStay DEF IInv
  <1>4. w \in Pings /\ w.v = v /\ w.pc = "hset"
    BY <1>1 DEF Pings, PingSteps
  <1> HIDE DEF v, w
  <1>5. TypeOK'
    BY <1>1, <1>3, <1>4, LiveAssumption, SMT DEF IInv, TypeOK, GeoAdd, v
  <1>6. PingsRegistered'
    BY <1>1, <1>3, <1>4, SMT DEF IInv, PingsRegistered, GeoAdd
  <1>7. ThrottleMeansSeen'
    BY <1>1, <1>3, <1>4, SMT DEF IInv, ThrottleMeansSeen, Writing, GeoAdd
  <1>8. ImmortalOnlyByFailure'
    BY <1>1, <1>3, <1>4, LiveAssumption, SMT
    DEF IInv, TypeOK, ImmortalOnlyByFailure, Immortal, Expiring, GeoAdd, v
  <1>9. LiveHasBeenSeen'
    BY <1>1, <1>3, <1>4, SMT DEF IInv, LiveHasBeenSeen, Pinging, PingSteps, GeoAdd, v
  <1> QED BY <1>5, <1>6, <1>7, <1>8, <1>9 DEF IInv

LEMMA SetHashKeeps == ASSUME IInv, NEW r \in Requests, SetHash(r) PROVE IInv'
  <1> DEFINE v == req[r].v
             w == [pc |-> "expire", v |-> v]
  <1>1. req[r] \in Pings /\ v \in Vehicles /\ v \in registered
    BY PingStepIsAPing, SMT DEF IInv, SetHash, PingSteps, PingsRegistered
  <1>2. Step(r, w)
    BY <1>1, GoToIsAStep DEF SetHash, IInv
  <1>3. /\ req' = [q \in Requests |-> IF q = r THEN w ELSE req[q]]
        /\ \A q \in Requests \ {r} : req'[q] = req[q]
        /\ req'[r] = w
    BY <1>2, OthersStay DEF IInv
  <1>4. w \in Pings /\ w.v = v /\ w.pc = "expire"
    BY <1>1 DEF Pings, PingSteps
  <1> HIDE DEF v, w
  <1>5. TypeOK'
    BY <1>1, <1>3, <1>4, LiveAssumption, SMT DEF IInv, TypeOK, SetHash, v
  <1>6. PingsRegistered'
    BY <1>1, <1>3, <1>4, SMT DEF IInv, PingsRegistered, SetHash
  <1>7. ThrottleMeansSeen'
    BY <1>1, <1>3, <1>4, SMT DEF IInv, ThrottleMeansSeen, Writing, SetHash
  <1>8. ImmortalOnlyByFailure'
    BY <1>1, <1>3, <1>4, LiveAssumption, SMT
    DEF IInv, TypeOK, ImmortalOnlyByFailure, Immortal, Expiring, SetHash, v
  <1>9. LiveHasBeenSeen'
    BY <1>1, <1>3, <1>4, SMT DEF IInv, LiveHasBeenSeen, Pinging, PingSteps, SetHash, v
  <1> QED BY <1>5, <1>6, <1>7, <1>8, <1>9 DEF IInv

LEMMA ExpireHashKeeps == ASSUME IInv, NEW r \in Requests, ExpireHash(r) PROVE IInv'
  <1> DEFINE v == req[r].v
             w == [pc |-> "throttle", v |-> v]
  <1>1. req[r] \in Pings /\ v \in Vehicles /\ v \in registered
    BY PingStepIsAPing, SMT DEF IInv, ExpireHash, PingSteps, PingsRegistered
  <1>2. Step(r, w)
    BY <1>1, GoToIsAStep DEF ExpireHash, IInv
  <1>3. /\ req' = [q \in Requests |-> IF q = r THEN w ELSE req[q]]
        /\ \A q \in Requests \ {r} : req'[q] = req[q]
        /\ req'[r] = w
    BY <1>2, OthersStay DEF IInv
  <1>4. w \in Pings /\ w.v = v /\ w.pc = "throttle"
    BY <1>1 DEF Pings, PingSteps
  <1> HIDE DEF v, w
  <1>5. TypeOK'
    BY <1>1, <1>3, <1>4, LiveAssumption, SMT DEF IInv, TypeOK, ExpireHash, v
  <1>6. PingsRegistered'
    BY <1>1, <1>3, <1>4, SMT DEF IInv, PingsRegistered, ExpireHash
  <1>7. ThrottleMeansSeen'
    BY <1>1, <1>3, <1>4, SMT DEF IInv, ThrottleMeansSeen, Writing, ExpireHash
  <1>8. ImmortalOnlyByFailure'
    BY <1>1, <1>3, <1>4, LiveAssumption, SMT
    DEF IInv, TypeOK, ImmortalOnlyByFailure, Immortal, Expiring, ExpireHash, v
  <1>9. LiveHasBeenSeen'
    BY <1>1, <1>3, <1>4, SMT DEF IInv, LiveHasBeenSeen, Pinging, PingSteps, ExpireHash, v
  <1> QED BY <1>5, <1>6, <1>7, <1>8, <1>9 DEF IInv

LEMMA ThrottleKeeps == ASSUME IInv, NEW r \in Requests, Throttle(r) PROVE IInv'
  <1> DEFINE v == req[r].v
             w == IF seenTtl[v] = 0 THEN [pc |-> "last_seen", v |-> v] ELSE Idle
  <1>1. req[r] \in Pings /\ v \in Vehicles /\ v \in registered
    BY PingStepIsAPing, SMT DEF IInv, Throttle, PingSteps, PingsRegistered
  <1>2. Step(r, w)
    <2>1. CASE seenTtl[v] = 0
      BY <1>1, <2>1, GoToIsAStep DEF Throttle, IInv
    <2>2. CASE seenTtl[v] # 0
      BY <2>2 DEF Throttle
    <2> QED BY <2>1, <2>2
  <1>3. /\ req' = [q \in Requests |-> IF q = r THEN w ELSE req[q]]
        /\ \A q \in Requests \ {r} : req'[q] = req[q]
        /\ req'[r] = w
    BY <1>2, OthersStay DEF IInv
  <1>4. /\ w \in Pings \union {Idle}
        /\ seenTtl[v] = 0 => w.v = v /\ w.pc = "last_seen"
        /\ seenTtl[v] # 0 => w.pc = "idle"
    BY <1>1 DEF Pings, PingSteps, Idle
  <1>5. seenTtl' = IF seenTtl[v] = 0 THEN [seenTtl EXCEPT ![v] = LastSeenThrottle]
                                    ELSE seenTtl
    BY DEF Throttle
  <1>6. /\ UNCHANGED <<registered, seen, geo, live, liveTtl, failures>>
        /\ req[r].pc = "throttle"
    BY DEF Throttle
  <1> HIDE DEF w, v
  <1>7. TypeOK'
    BY <1>1, <1>3, <1>4, <1>5, <1>6, LiveAssumption, SMT DEF IInv, TypeOK
  <1>8. PingsRegistered'
    BY <1>1, <1>3, <1>4, <1>6, SMT DEF IInv, PingsRegistered, PingSteps
  <1>9. ThrottleMeansSeen'
    BY <1>1, <1>3, <1>4, <1>5, <1>6, SMT DEF IInv, TypeOK, ThrottleMeansSeen, Writing
  <1>10. ImmortalOnlyByFailure'
    BY <1>3, <1>6, SMT DEF IInv, ImmortalOnlyByFailure, Immortal, Expiring
  <1>11. LiveHasBeenSeen'
    BY <1>1, <1>3, <1>4, <1>6, SMT
    DEF IInv, LiveHasBeenSeen, ThrottleMeansSeen, Writing, Pinging, PingSteps, TypeOK, v
  <1> QED BY <1>7, <1>8, <1>9, <1>10, <1>11 DEF IInv

LEMMA WriteLastSeenKeeps == ASSUME IInv, NEW r \in Requests, WriteLastSeen(r) PROVE IInv'
  <1> DEFINE v == req[r].v
  <1>1. req[r] \in Pings /\ v \in Vehicles /\ v \in registered
    BY PingStepIsAPing, SMT DEF IInv, WriteLastSeen, PingSteps, PingsRegistered
  <1>2. /\ req' = [q \in Requests |-> IF q = r THEN Idle ELSE req[q]]
        /\ \A q \in Requests \ {r} : req'[q] = req[q]
        /\ req'[r] = Idle
    BY OthersStay DEF IInv, WriteLastSeen
  <1>3. /\ UNCHANGED <<registered, geo, live, liveTtl, seenTtl, failures>>
        /\ req[r].pc = "last_seen" /\ seen' = seen \union {v}
    BY DEF WriteLastSeen
  <1>4. Idle.pc = "idle"
    BY DEF Idle
  <1>5. TypeOK'
    BY <1>1, <1>2, <1>3, SMT DEF IInv, TypeOK
  <1>6. PingsRegistered'
    BY <1>1, <1>2, <1>3, <1>4, SMT DEF IInv, PingsRegistered, PingSteps
  <1>7. ThrottleMeansSeen'
    BY <1>1, <1>2, <1>3, SMT DEF IInv, ThrottleMeansSeen, Writing
  <1>8. ImmortalOnlyByFailure'
    BY <1>2, <1>3, SMT DEF IInv, ImmortalOnlyByFailure, Immortal, Expiring
  <1>9. LiveHasBeenSeen'
    BY <1>2, <1>3, SMT DEF IInv, LiveHasBeenSeen, Pinging
  <1> QED BY <1>5, <1>6, <1>7, <1>8, <1>9 DEF IInv

-----------------------------------------------------------------------------
\* A step that begins a ping, or is about a search, touches no live position and
\* no throttle.
LEMMA OtherStepsKeep ==
  ASSUME IInv, NEW r \in Requests, NEW w \in Pings \union Searches \union {Idle}, Step(r, w),
         req[r].pc \notin PingSteps,
         w.pc \in PingSteps => w.v \in registered,
         geo' \subseteq geo,
         UNCHANGED <<registered, seen, live, liveTtl, seenTtl, failures>>
  PROVE  IInv'
  <1>1. /\ req' = [q \in Requests |-> IF q = r THEN w ELSE req[q]]
        /\ \A q \in Requests \ {r} : req'[q] = req[q]
        /\ req'[r] = w
    BY OthersStay DEF IInv
  <1>2. TypeOK'
    BY <1>1, SMT DEF IInv, TypeOK
  <1>3. PingsRegistered'
    BY <1>1, SMT DEF IInv, PingsRegistered
  <1>4. ThrottleMeansSeen'
    BY <1>1, SMT DEF IInv, ThrottleMeansSeen, Writing, PingSteps
  <1>5. ImmortalOnlyByFailure'
    BY <1>1, SMT DEF IInv, ImmortalOnlyByFailure, Immortal, Expiring, PingSteps
  <1>6. LiveHasBeenSeen'
    BY <1>1, SMT DEF IInv, LiveHasBeenSeen, Pinging
  <1> QED BY <1>2, <1>3, <1>4, <1>5, <1>6 DEF IInv

LEMMA PingKeeps ==
  ASSUME IInv, NEW r \in Requests, NEW v \in Vehicles, Ping(r, v) PROVE IInv'
  <1> DEFINE w == [pc |-> "geoadd", v |-> v]
  <1>1. w \in Pings /\ w.v = v /\ req[r].pc \notin PingSteps
    BY DEF Pings, PingSteps, Ping, Idle
  <1> QED BY <1>1, OtherStepsKeep DEF Ping

LEMMA SearchKeeps == ASSUME IInv, NEW r \in Requests, Search(r) PROVE IInv'
  <1>1. PICK hits \in SUBSET geo : Step(r, [pc |-> "search", hits |-> hits])
    BY DEF Search
  <1> DEFINE w == [pc |-> "search", hits |-> hits]
  <1>2. hits \in SUBSET Vehicles
    BY SMT DEF IInv, TypeOK
  <1>3. w \in Searches /\ w.pc \notin PingSteps /\ req[r].pc \notin PingSteps
    BY <1>2 DEF Searches, PingSteps, Search, Idle
  <1> QED BY <1>1, <1>3, OtherStepsKeep DEF Search

LEMMA SearchingHasHits ==
  ASSUME TypeOK, NEW r \in Requests, req[r].pc \in {"search", "zrem"}
  PROVE  /\ req[r].hits \in SUBSET Vehicles
         /\ req[r].pc = "zrem" => req[r].v \in Vehicles
         /\ req[r].pc \notin PingSteps
  BY SMT DEF TypeOK, Pings, Searches, Idle, PingSteps

LEMMA LookUpKeeps == ASSUME IInv, NEW r \in Requests, LookUp(r) PROVE IInv'
  <1> DEFINE hits == req[r].hits
  <1>1. hits \in SUBSET Vehicles /\ req[r].pc \notin PingSteps
    BY SearchingHasHits DEF IInv, LookUp
  <1>2. CASE Step(r, Idle)
    <2>1. Idle.pc \notin PingSteps
      BY DEF Idle, PingSteps
    <2> QED BY <1>1, <1>2, <2>1, OtherStepsKeep DEF LookUp
  <1>3. CASE \E v \in hits :
               Step(r, IF v \in live
                         THEN [pc |-> "search", hits |-> hits \ {v}]
                         ELSE [pc |-> "zrem", v |-> v, hits |-> hits \ {v}])
    <2>1. PICK v \in hits :
            Step(r, IF v \in live
                      THEN [pc |-> "search", hits |-> hits \ {v}]
                      ELSE [pc |-> "zrem", v |-> v, hits |-> hits \ {v}])
      BY <1>3
    <2> DEFINE w == IF v \in live
                      THEN [pc |-> "search", hits |-> hits \ {v}]
                      ELSE [pc |-> "zrem", v |-> v, hits |-> hits \ {v}]
    <2>2. w \in Searches /\ w.pc \notin PingSteps
      BY <1>1 DEF Searches, PingSteps
    <2> QED BY <1>1, <2>1, <2>2, OtherStepsKeep DEF LookUp
  <1> QED BY <1>2, <1>3 DEF LookUp

LEMMA RemoveKeeps == ASSUME IInv, NEW r \in Requests, Remove(r) PROVE IInv'
  <1> DEFINE w == [pc |-> "search", hits |-> req[r].hits]
  <1>1. req[r].hits \in SUBSET Vehicles /\ req[r].pc \notin PingSteps
    BY SearchingHasHits DEF IInv, Remove
  <1>2. w \in Searches /\ w.pc \notin PingSteps
    BY <1>1 DEF Searches, PingSteps
  <1> QED BY <1>1, <1>2, OtherStepsKeep DEF Remove

LEMMA FailKeeps == ASSUME IInv, NEW r \in Requests, Fail(r) PROVE IInv'
  <1>1. /\ req' = [q \in Requests |-> IF q = r THEN Idle ELSE req[q]]
        /\ \A q \in Requests \ {r} : req'[q] = req[q]
        /\ req'[r] = Idle
    BY OthersStay DEF IInv, Fail
  <1>2. failures' > 0 /\ failures' \in 0..MaxFailures
    BY LiveAssumption, SMT DEF IInv, TypeOK, Fail
  <1>3. TypeOK'
    BY <1>1, <1>2, SMT DEF IInv, TypeOK, Fail
  <1>4. PingsRegistered'
    BY <1>1, SMT DEF IInv, PingsRegistered, Fail, Idle, PingSteps
  <1>5. ThrottleMeansSeen' /\ ImmortalOnlyByFailure' /\ LiveHasBeenSeen'
    BY <1>2 DEF ThrottleMeansSeen, ImmortalOnlyByFailure, LiveHasBeenSeen
  <1> QED BY <1>3, <1>4, <1>5 DEF IInv

LEMMA RegisterKeeps == ASSUME IInv, NEW v \in Vehicles, Register(v) PROVE IInv'
  <1>1. TypeOK'
    BY SMT DEF IInv, TypeOK, Register
  <1>2. PingsRegistered'
    BY SMT DEF IInv, PingsRegistered, Register
  <1>3. ThrottleMeansSeen' /\ ImmortalOnlyByFailure' /\ LiveHasBeenSeen'
    BY DEF IInv, Register, ThrottleMeansSeen, Writing, ImmortalOnlyByFailure, Immortal,
       Expiring, LiveHasBeenSeen, Pinging
  <1> QED BY <1>1, <1>2, <1>3 DEF IInv

LEMMA TickKeeps == ASSUME IInv, Tick PROVE IInv'
  <1>1. \A v \in Vehicles : /\ liveTtl'[v] = Less(liveTtl[v])
                            /\ seenTtl'[v] = Less(seenTtl[v])
    BY DEF Tick
  <1>2. live' \subseteq live /\ UNCHANGED <<registered, seen, geo, req, failures>>
    BY DEF Tick
  <1>3. TypeOK'
    <2>1. \A n \in 0..LiveTtl : Less(n) \in 0..LiveTtl
      BY LiveAssumption, SMT DEF Less
    <2>2. \A n \in 0..LastSeenThrottle : Less(n) \in 0..LastSeenThrottle
      BY LiveAssumption, SMT DEF Less
    <2>3. /\ liveTtl' \in [Vehicles -> 0..LiveTtl]
          /\ seenTtl' \in [Vehicles -> 0..LastSeenThrottle]
      BY <2>1, <2>2, SMT DEF IInv, TypeOK, Tick
    <2> QED BY <1>2, <2>3, SMT DEF IInv, TypeOK
  <1>4. PingsRegistered'
    BY <1>2, SMT DEF IInv, PingsRegistered
  <1>5. ThrottleMeansSeen'
    BY <1>1, <1>2, SMT DEF IInv, TypeOK, ThrottleMeansSeen, Writing, Less
  <1>6. ImmortalOnlyByFailure'
    <2> SUFFICES ASSUME NEW v \in Vehicles, Immortal(v)'
                 PROVE  Expiring(v) \/ failures > 0
      BY <1>2 DEF ImmortalOnlyByFailure, Expiring
    <2>1. v \in live /\ liveTtl[v] # 1 /\ Less(liveTtl[v]) = 0
      BY <1>1 DEF Tick, Immortal
    <2>2. liveTtl[v] = 0
      BY <2>1, SMT DEF IInv, TypeOK, Less
    <2> QED BY <2>1, <2>2 DEF IInv, ImmortalOnlyByFailure, Immortal
  <1>7. LiveHasBeenSeen'
    BY <1>2, SMT DEF IInv, LiveHasBeenSeen, Pinging
  <1> QED BY <1>3, <1>4, <1>5, <1>6, <1>7 DEF IInv

-----------------------------------------------------------------------------
LEMMA StepKeepsIInv == IInv /\ [Next]_vars => IInv'
  <1> SUFFICES ASSUME IInv, [Next]_vars PROVE IInv'
    OBVIOUS
  <1>1. CASE \E v \in Vehicles : Register(v)
    BY <1>1, RegisterKeeps
  <1>2. CASE \E r \in Requests, v \in Vehicles : Ping(r, v)
    BY <1>2, PingKeeps
  <1>3. CASE \E r \in Requests : Search(r) \/ Advance(r) \/ Fail(r)
    BY <1>3, SearchKeeps, FailKeeps, GeoAddKeeps, SetHashKeeps, ExpireHashKeeps,
       ThrottleKeeps, WriteLastSeenKeeps, LookUpKeeps, RemoveKeeps DEF Advance
  <1>4. CASE Tick
    BY <1>4, TickKeeps
  <1>5. CASE UNCHANGED vars
    BY <1>5 DEF vars, IInv, TypeOK, PingsRegistered, ThrottleMeansSeen, Writing,
       ImmortalOnlyByFailure, Immortal, Expiring, LiveHasBeenSeen, Pinging
  <1> QED BY <1>1, <1>2, <1>3, <1>4, <1>5 DEF Next

LEMMA AlwaysIInv == Spec => []IInv
  BY InitIInv, StepKeepsIInv, PTL DEF Spec

\* Every variable keeps its type; only registered vehicles are in Redis.
THEOREM TypeCorrect == Spec => []TypeOK
  <1>1. IInv => TypeOK
    BY DEF IInv
  <1> QED BY <1>1, AlwaysIInv, PTL

\* A live vehicle whose hash has no time to live is in the hands of a ping, or a
\* request ended half way.
THEOREM NoGhosts == Spec => []ImmortalOnlyByFailure
  <1>1. IInv => ImmortalOnlyByFailure
    BY DEF IInv
  <1> QED BY <1>1, AlwaysIInv, PTL

\* The throttle of last_seen never swallows the first write.
THEOREM FirstPingIsSeen == Spec => []LiveHasBeenSeen
  <1>1. IInv => LiveHasBeenSeen
    BY DEF IInv
  <1> QED BY <1>1, AlwaysIInv, PTL
==============================================================================
