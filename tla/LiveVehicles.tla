---------------------------- MODULE LiveVehicles ----------------------------
(***************************************************************************)
(* vehicle_service: the registry in PostgreSQL and the live vehicles in    *)
(* Redis, written by pings and tidied by the requests that search them.    *)
(*                                                                         *)
(* Every Redis command and database write is an await: requests interleave *)
(* between any two.  Keys expire; time passes in ticks, of which any       *)
(* number may pass between two steps of a request.  What a ping reports is *)
(* left out (RoadStates has it).                                           *)
(***************************************************************************)
EXTENDS Integers

CONSTANTS
  Vehicles,
  Requests,           \* the requests that may run at once
  LiveTtl,            \* settings.VEHICLE_LIVE_TTL_S
  LastSeenThrottle,   \* settings.VEHICLE_LAST_SEEN_THROTTLE_S
  MaxFailures         \* how many requests may end half way

ASSUME LiveAssumption ==
  /\ LiveTtl \in Nat \ {0} /\ LastSeenThrottle \in Nat \ {0}
  /\ MaxFailures \in Nat

VARIABLES
  registered,  \* table vehicles: the rows
  seen,        \*                 the rows whose last_seen is set
  geo,         \* vehicles:live:geo
  live,        \* the vehicles that have a hash vehicle:live:{v}
  liveTtl,     \* ticks left to the hash, 0: it is absent or never expires
  seenTtl,     \* ticks left to vehicle:lastseen_throttle:{v}, 0: it is absent
  req,         \* what each request is doing
  failures     \* requests that ended half way

vars == <<registered, seen, geo, live, liveTtl, seenTtl, req, failures>>

\* A running request: a ping of a vehicle, or a search with the members of the
\* geo set it has still to look up.
PingSteps == {"geoadd", "hset", "expire", "throttle", "last_seen"}
Pings == [pc : PingSteps, v : Vehicles]
Searches == [pc : {"search"}, hits : SUBSET Vehicles] \union
            [pc : {"zrem"}, v : Vehicles, hits : SUBSET Vehicles]
Idle == [pc |-> "idle"]

TypeOK ==
  /\ registered \in SUBSET Vehicles
  /\ seen \in SUBSET registered
  /\ geo \in SUBSET registered
  /\ live \in SUBSET registered
  /\ liveTtl \in [Vehicles -> 0..LiveTtl]
  /\ seenTtl \in [Vehicles -> 0..LastSeenThrottle]
  /\ req \in [Requests -> Pings \union Searches \union {Idle}]
  /\ failures \in 0..MaxFailures

Step(r, w) == req' = [req EXCEPT ![r] = w]
GoTo(r, pc) == Step(r, [req[r] EXCEPT !.pc = pc])

-----------------------------------------------------------------------------
\* register_vehicle: a new row, or another vehicle_type for the row there is.
Register(v) ==
  /\ registered' = registered \union {v}
  /\ UNCHANGED <<seen, geo, live, liveTtl, seenTtl, req, failures>>

\* ping_vehicle: a vehicle that is not registered is refused.
Ping(r, v) ==
  /\ req[r] = Idle
  /\ v \in registered
  /\ Step(r, [pc |-> "geoadd", v |-> v])
  /\ UNCHANGED <<registered, seen, geo, live, liveTtl, seenTtl, failures>>

\* Mutant of GeoAdd: a vehicle that is live is taken to be listed.
GeoAddOnce(r) ==
  /\ req[r].pc = "geoadd"
  /\ geo' = IF req[r].v \in live THEN geo ELSE geo \union {req[r].v}
  /\ GoTo(r, "hset")
  /\ UNCHANGED <<registered, seen, live, liveTtl, seenTtl, failures>>

\* record_ping: the member of the geo set ...
GeoAdd(r) ==
  /\ req[r].pc = "geoadd"
  /\ geo' = geo \union {req[r].v}
  /\ GoTo(r, "hset")
  /\ UNCHANGED <<registered, seen, live, liveTtl, seenTtl, failures>>

\* ... the hash, which keeps the time to live it has ...
SetHash(r) ==
  /\ req[r].pc = "hset"
  /\ live' = live \union {req[r].v}
  /\ GoTo(r, "expire")
  /\ UNCHANGED <<registered, seen, geo, liveTtl, seenTtl, failures>>

\* Mutant of ExpireHash: the time to live is set where last_seen is, under the
\* throttle.
ExpireHashThrottled(r) ==
  /\ req[r].pc = "expire"
  /\ liveTtl' = IF req[r].v \in live /\ seenTtl[req[r].v] = 0
                  THEN [liveTtl EXCEPT ![req[r].v] = LiveTtl] ELSE liveTtl
  /\ GoTo(r, "throttle")
  /\ UNCHANGED <<registered, seen, geo, live, seenTtl, failures>>

\* ... its time to live (EXPIRE does nothing to a key that is gone) ...
ExpireHash(r) ==
  /\ req[r].pc = "expire"
  /\ liveTtl' = IF req[r].v \in live THEN [liveTtl EXCEPT ![req[r].v] = LiveTtl]
                                     ELSE liveTtl
  /\ GoTo(r, "throttle")
  /\ UNCHANGED <<registered, seen, geo, live, seenTtl, failures>>

\* Mutant of Throttle: set nx, with its answer read the other way round.
ThrottleInverted(r) ==
  /\ req[r].pc = "throttle"
  /\ LET v == req[r].v IN
       IF seenTtl[v] # 0
         THEN UNCHANGED seenTtl /\ GoTo(r, "last_seen")
         ELSE seenTtl' = [seenTtl EXCEPT ![v] = LastSeenThrottle] /\ Step(r, Idle)
  /\ UNCHANGED <<registered, seen, geo, live, liveTtl, failures>>

\* ... and last_seen, if no ping wrote it lately.  _update_pipeline follows
\* (RoadStates).
Throttle(r) ==
  /\ req[r].pc = "throttle"
  /\ LET v == req[r].v IN
       IF seenTtl[v] = 0
         THEN seenTtl' = [seenTtl EXCEPT ![v] = LastSeenThrottle] /\ GoTo(r, "last_seen")
         ELSE UNCHANGED seenTtl /\ Step(r, Idle)
  /\ UNCHANGED <<registered, seen, geo, live, liveTtl, failures>>

WriteLastSeen(r) ==
  /\ req[r].pc = "last_seen"
  /\ seen' = seen \union {req[r].v}
  /\ Step(r, Idle)
  /\ UNCHANGED <<registered, geo, live, liveTtl, seenTtl, failures>>

-----------------------------------------------------------------------------
\* query_all_live takes all members of the geo set, query_nearby those within
\* the radius ...
Search(r) ==
  /\ req[r] = Idle
  /\ \E hits \in SUBSET geo : Step(r, [pc |-> "search", hits |-> hits])
  /\ UNCHANGED <<registered, seen, geo, live, liveTtl, seenTtl, failures>>

\* ... and both look them up one by one ...
LookUp(r) ==
  /\ req[r].pc = "search"
  /\ LET hits == req[r].hits IN
       \/ hits = {} /\ Step(r, Idle)
       \/ \E v \in hits :
            Step(r, IF v \in live
                      THEN [pc |-> "search", hits |-> hits \ {v}]
                      ELSE [pc |-> "zrem", v |-> v, hits |-> hits \ {v}])
  /\ UNCHANGED <<registered, seen, geo, live, liveTtl, seenTtl, failures>>

\* Mutant of Remove: the stale member is skipped and stays.
RemoveNothing(r) ==
  /\ req[r].pc = "zrem"
  /\ Step(r, [pc |-> "search", hits |-> req[r].hits])
  /\ UNCHANGED <<registered, seen, geo, live, liveTtl, seenTtl, failures>>

\* ... and remove those that had no hash.
Remove(r) ==
  /\ req[r].pc = "zrem"
  /\ geo' = geo \ {req[r].v}
  /\ Step(r, [pc |-> "search", hits |-> req[r].hits])
  /\ UNCHANGED <<registered, seen, live, liveTtl, seenTtl, failures>>

-----------------------------------------------------------------------------
\* A request ends half way: Redis or PostgreSQL raises, the client or the
\* process goes away.
Fail(r) ==
  /\ req[r] # Idle
  /\ failures < MaxFailures
  /\ failures' = failures + 1
  /\ Step(r, Idle)
  /\ UNCHANGED <<registered, seen, geo, live, liveTtl, seenTtl>>

Less(n) == IF n = 0 THEN 0 ELSE n - 1

Tick ==
  /\ live' = {v \in live : liveTtl[v] # 1}
  /\ liveTtl' = [v \in Vehicles |-> Less(liveTtl[v])]
  /\ seenTtl' = [v \in Vehicles |-> Less(seenTtl[v])]
  /\ UNCHANGED <<registered, seen, geo, req, failures>>

Init ==
  /\ registered = {} /\ seen = {}
  /\ geo = {} /\ live = {}
  /\ liveTtl = [v \in Vehicles |-> 0]
  /\ seenTtl = [v \in Vehicles |-> 0]
  /\ req = [r \in Requests |-> Idle]
  /\ failures = 0

Advance(r) ==
  \/ GeoAdd(r) \/ SetHash(r) \/ ExpireHash(r) \/ Throttle(r) \/ WriteLastSeen(r)
  \/ LookUp(r) \/ Remove(r)

Next ==
  \/ \E v \in Vehicles : Register(v)
  \/ \E r \in Requests, v \in Vehicles : Ping(r, v)
  \/ \E r \in Requests : Search(r) \/ Advance(r) \/ Fail(r)
  \/ Tick

Spec == Init /\ [][Next]_vars

\* Commands and commits end, time passes.  Nothing obliges a client to call.
FairSpec == Spec /\ (\A r \in Requests : WF_vars(Advance(r))) /\ WF_vars(Tick)

-----------------------------------------------------------------------------
(* Properties *)

Pinging(v) == \E r \in Requests : req[r].pc \in PingSteps /\ req[r].v = v
Expiring(v) == \E r \in Requests : req[r].pc = "expire" /\ req[r].v = v

\* The hash stays for ever, whether or not the vehicle pings again.
Immortal(v) == v \in live /\ liveTtl[v] = 0

\* A hash without a time to live is one that a ping is about to give one, unless
\* a request ended half way: vehicle_service.py:7-10 wants a vehicle that stops
\* pinging to disappear with no job to clean up.
ImmortalOnlyByFailure ==
  \A v \in Vehicles : Immortal(v) => Expiring(v) \/ failures > 0

\* A live vehicle has its last_seen written, or a ping is about to, unless a
\* request ended half way: the throttle never swallows the first write.
LiveHasBeenSeen ==
  \A v \in live : v \in seen \/ Pinging(v) \/ failures > 0

\* A vehicle that stops pinging disappears, also from the geo set, whose members
\* do not expire, if searches go on finding it there.
SearchFinds(v) == \E r \in Requests : req[r].pc = "search" /\ v \in req[r].hits
GoneVehiclesVanish ==
  \A v \in Vehicles :
    (<>[]~Pinging(v) /\ []<>(v \in geo => SearchFinds(v)))
      => <>[](Immortal(v) \/ v \notin live \union geo)

\* A live vehicle that a search removed from the geo set, because it had found no
\* hash a moment before, is listed again by its next ping; until then "all
\* currently-live vehicles" (vehicle_service.py:112) lacks it.
ListedAgain ==
  \A v \in Vehicles :
    (v \in live \ geo) ~> (v \in geo \/ v \notin live \/ Immortal(v))
==============================================================================
