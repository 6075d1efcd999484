----------------------------- MODULE LiveRoutes -----------------------------
(***************************************************************************)
(* The live road route of one ride, which both apps poll, and the quotes   *)
(* that use the same routing provider: RideRouteService, LiveRouteService  *)
(* (one call for a ride at a time, its answer kept while it is fresh) over *)
(* ResilientRouteEstimator (cache, straight-line fallback and breaker) over *)
(* GoogleRoutesEstimator.  Positions are points of a line.                 *)
(***************************************************************************)
EXTENDS Integers, FiniteSets, Sequences, TtlCache

CONSTANTS
  Polls,           \* GET /rides/:id/route in flight
  Quotes,          \* bookings that need a route from the pickup to the destination
  Pickup, Destination,
  RefreshMs, RefreshMeters,       \* ROUTES_LIVE_REFRESH_SECONDS and _METERS
  CacheTtl, CacheMaxEntries,      \* of the estimator
  FailureThreshold, Cooldown,     \* of its breaker
  MaxPolls, MaxMoves, MaxFailures, MaxTime   \* bounds

VARIABLES
  trip,       \* [status, at]: the ride, and its driver's last known position
  routes,     \* LiveRouteService's cache: none or one entry [stage, origin, provider, computedAt]
  inFlight,   \* the call it waits for: [pc, stage, origin]
  calls,      \* calls of the provider: [from, to, waiting], waiting: "live" or quotes
  cache,      \* the estimator's cache, entries keyed <<from, to>>
  breaker,    \* [failures, skipUntil]
  poll,       \* poll[p]: [pc, stage, at, since, route, shared]
  quote,      \* quote[q]: [pc, provider]
  now,
  failedAt,   \* when the provider last failed
  count       \* [polls, moves, failures]

routeVars == <<trip, routes, inFlight, calls, cache, breaker, poll, quote, now, failedAt, count>>

RETENTION_FACTOR == 4
None == "none"
STAGE_BY_STATUS == [DRIVER_ACCEPTED |-> "APPROACH", RIDE_STARTED |-> "TRIP"]
Target(stage) == IF stage = "APPROACH" THEN Pickup ELSE Destination
Idle == [pc |-> "idle", stage |-> None, origin |-> 0]
NoPoll == [pc |-> "idle", stage |-> None, at |-> 0, since |-> 0, route |-> {}, shared |-> FALSE]
Meters(a, b) == IF a < b THEN b - a ELSE a - b

Init ==
  /\ trip = [status |-> "DRIVER_ACCEPTED", at |-> 0]
  /\ routes = {} /\ inFlight = Idle /\ calls = {} /\ cache = <<>>
  /\ breaker = [failures |-> 0, skipUntil |-> 0]
  /\ poll = [p \in Polls |-> NoPoll]
  /\ quote = [q \in Quotes |-> [pc |-> "idle", provider |-> None]]
  /\ now = 0 /\ failedAt = -Cooldown - RefreshMs /\ count = [polls |-> 0, moves |-> 0, failures |-> 0]

-----------------------------------------------------------------------------
\* The ride goes on, the driver drives, time passes.
Move ==
  /\ count.moves < MaxMoves
  /\ \E at \in {trip.at - 1, trip.at + 1} \cap 0..Destination : trip' = [trip EXCEPT !.at = at]
  /\ count' = [count EXCEPT !.moves = @ + 1]
  /\ UNCHANGED <<routes, inFlight, calls, cache, breaker, poll, quote, now, failedAt>>
Progress(status) ==
  /\ <<trip.status, status>> \in
       {<<"DRIVER_ACCEPTED", "DRIVER_ARRIVED">>, <<"DRIVER_ARRIVED", "RIDE_STARTED">>,
        <<"RIDE_STARTED", "COMPLETED">>}
  /\ status = "DRIVER_ARRIVED" => trip.at = Pickup
  /\ trip' = [trip EXCEPT !.status = status]
  /\ UNCHANGED <<routes, inFlight, calls, cache, breaker, poll, quote, now, failedAt, count>>
Tick ==
  /\ now < MaxTime /\ now' = now + 1
  /\ UNCHANGED <<trip, routes, inFlight, calls, cache, breaker, poll, quote, failedAt, count>>

-----------------------------------------------------------------------------
\* estimate: nothing is asked of the provider while the breaker is open; a cached route is an answer,
\* and a call for the same two points is shared.
isDegraded == now < breaker.skipUntil
Answered == [breaker EXCEPT !.failures = 0]
Calling(from, to) == {c \in calls : c.from = from /\ c.to = to}
Ask(from, to, who) ==
  LET same == Calling(from, to) IN
  calls' = (calls \ same) \cup
           {[from |-> from, to |-> to, waiting |-> {who} \cup UNION {c.waiting : c \in same}]}

-----------------------------------------------------------------------------
\* forUser: the ride is read, then the driver's position; no leg, no route.
ReadRide(p) ==
  /\ poll[p].pc = "idle" /\ count.polls < MaxPolls
  /\ trip.status \in DOMAIN STAGE_BY_STATUS
  /\ poll' = [poll EXCEPT ![p] = [NoPoll EXCEPT !.pc = "read", !.stage = STAGE_BY_STATUS[trip.status],
                                               !.at = trip.at, !.since = now]]
  /\ count' = [count EXCEPT !.polls = @ + 1]
  /\ UNCHANGED <<trip, routes, inFlight, calls, cache, breaker, quote, now, failedAt>>

\* (A stage of a ride has one destination, so that the code's comparison of it is left out.)
isFresh(r, p) ==
  /\ r.stage = poll[p].stage
  /\ now - r.computedAt < RefreshMs
  /\ Meters(r.origin, poll[p].at) < RefreshMeters
Retained == {r \in routes : r.computedAt + RefreshMs * RETENTION_FACTOR > now}
Serve(p, r, shared) ==
  [poll EXCEPT ![p] = [@ EXCEPT !.pc = "answered", !.route = {r}, !.shared = shared]]
LiveRoute(stage, origin, provider) ==
  [stage |-> stage, origin |-> origin, provider |-> provider, computedAt |-> now]

\* forRide: a fresh route is served; a call in flight for the ride is shared; or one is made.
ServeCached(p) ==
  /\ poll[p].pc = "read"
  /\ \E r \in Retained : isFresh(r, p) /\ poll' = Serve(p, r, FALSE)
  /\ UNCHANGED <<trip, routes, inFlight, calls, cache, breaker, quote, now, failedAt, count>>
NeedsRoute(p) == poll[p].pc = "read" /\ ~\E r \in Retained : isFresh(r, p)
Join(p) ==
  /\ NeedsRoute(p) /\ inFlight.pc = "calling"
  /\ poll' = [poll EXCEPT ![p] = [@ EXCEPT !.pc = "waiting", !.shared = TRUE]]
  /\ UNCHANGED <<trip, routes, inFlight, calls, cache, breaker, quote, now, failedAt, count>>
Load(p) ==
  LET from == poll[p].at  to == Target(poll[p].stage)  key == <<from, to>> IN
  /\ NeedsRoute(p) /\ inFlight.pc = "idle"
  /\ IF isDegraded \/ Hit(cache, key, now)
     THEN LET live == LiveRoute(poll[p].stage, from, IF isDegraded THEN "HAVERSINE" ELSE "GOOGLE_ROUTES") IN
          /\ routes' = {live} /\ poll' = Serve(p, live, FALSE)
          /\ breaker' = (IF isDegraded THEN breaker ELSE Answered)
          /\ cache' = (IF isDegraded THEN cache ELSE Touched(cache, key, now))
          /\ UNCHANGED <<inFlight, calls>>
     ELSE /\ Ask(from, to, "live")
          /\ inFlight' = [pc |-> "calling", stage |-> poll[p].stage, origin |-> from]
          /\ poll' = [poll EXCEPT ![p].pc = "waiting"]
          /\ UNCHANGED <<routes, cache, breaker>>
  /\ UNCHANGED <<trip, quote, now, failedAt, count>>
Done(p) ==
  /\ poll[p].pc = "answered" /\ poll' = [poll EXCEPT ![p] = NoPoll]
  /\ UNCHANGED <<trip, routes, inFlight, calls, cache, breaker, quote, now, failedAt, count>>

\* A booking asks for its route.
Quote(q) ==
  LET key == <<Pickup, Destination>> IN
  /\ quote[q].pc = "idle"
  /\ IF isDegraded \/ Hit(cache, key, now)
     THEN /\ quote' = [quote EXCEPT ![q] = [pc |-> "answered",
                                            provider |-> IF isDegraded THEN "HAVERSINE" ELSE "GOOGLE_ROUTES"]]
          /\ breaker' = (IF isDegraded THEN breaker ELSE Answered)
          /\ cache' = (IF isDegraded THEN cache ELSE Touched(cache, key, now))
          /\ UNCHANGED calls
     ELSE /\ Ask(Pickup, Destination, q)
          /\ quote' = [quote EXCEPT ![q].pc = "waiting"]
          /\ UNCHANGED <<breaker, cache>>
  /\ UNCHANGED <<trip, routes, inFlight, poll, now, failedAt, count>>

-----------------------------------------------------------------------------
\* The answer of a call: whoever waits for it gets it.
Settled(c, provider) ==
  LET live == LiveRoute(inFlight.stage, inFlight.origin, provider) IN
  /\ calls' = calls \ {c}
  /\ quote' = [q \in Quotes |-> IF q \in c.waiting THEN [pc |-> "answered", provider |-> provider]
                                ELSE quote[q]]
  /\ IF "live" \in c.waiting
     THEN /\ routes' = {live} /\ inFlight' = Idle
          /\ poll' = [p \in Polls |-> IF poll[p].pc = "waiting"
                        THEN [poll[p] EXCEPT !.pc = "answered", !.route = {live}] ELSE poll[p]]
     ELSE UNCHANGED <<routes, inFlight, poll>>

ProviderAnswers(c) ==
  /\ Settled(c, "GOOGLE_ROUTES")
  /\ cache' = Stored(cache, <<c.from, c.to>>, "GOOGLE_ROUTES", now + CacheTtl, CacheMaxEntries)
  /\ breaker' = Answered
  /\ UNCHANGED <<trip, now, failedAt, count>>

\* A failure answers with the straight line, which is not cached.  recordFailure runs for each who
\* waited: enough failures in a row, or one a retry cannot mend, open the breaker.
Failure == {"transient", "config", "noRoute"}
recordFailure(kind, waiting) ==
  LET total == breaker.failures + Cardinality(waiting)
      opens == kind = "config" \/ total >= FailureThreshold IN
  CASE kind = "noRoute" -> breaker
    [] kind # "noRoute" /\ opens ->
         [failures |-> IF kind = "config" THEN 0 ELSE total % FailureThreshold,
          skipUntil |-> now + Cooldown]
    [] OTHER -> [breaker EXCEPT !.failures = total]
ProviderFails(c) ==
  /\ count.failures < MaxFailures
  /\ \E kind \in Failure : breaker' = recordFailure(kind, c.waiting)
  /\ Settled(c, "HAVERSINE")
  /\ failedAt' = now
  /\ count' = [count EXCEPT !.failures = @ + 1]
  /\ UNCHANGED <<trip, cache, now>>

Next ==
  \/ Move \/ Tick \/ \E s \in {"DRIVER_ARRIVED", "RIDE_STARTED", "COMPLETED"} : Progress(s)
  \/ \E p \in Polls : ReadRide(p) \/ ServeCached(p) \/ Join(p) \/ Load(p) \/ Done(p)
  \/ \E q \in Quotes : Quote(q)
  \/ \E c \in calls : ProviderAnswers(c) \/ ProviderFails(c)

Spec == Init /\ [][Next]_routeVars

-----------------------------------------------------------------------------
\* Type invariant: one route is kept for the ride, and the estimator's cache is bounded.
TypeOK ==
  /\ Cardinality(routes) <= 1 /\ Len(cache) <= CacheMaxEntries
  /\ breaker.failures \in 0..(FailureThreshold - 1) /\ trip.at \in 0..Destination
  /\ \A p \in Polls : poll[p].pc \in {"idle", "read", "waiting", "answered"}

\* A route is served for the leg the ride was on when it was asked for, from near where the driver
\* was, and not older than a refresh; only a poll that shares another's call may get the route of
\* the leg just left or of a place just left, and that one was computed while it waited.
ServedRoute(p, r) ==
  IF poll[p].shared THEN r.computedAt >= poll[p].since
  ELSE /\ r.stage = poll[p].stage
       /\ Meters(r.origin, poll[p].at) < RefreshMeters
       /\ r.computedAt > poll[p].since - RefreshMs
RoutesAreFresh == \A p \in Polls : poll[p].pc = "answered" => \A r \in poll[p].route : ServedRoute(p, r)

\* The straight line ends with the trouble: whoever is served one is served within a cooldown and a
\* refresh of a failure of the provider, however its routes are shared and kept.
StraightLineEnds ==
  /\ \A r \in routes : r.provider = "HAVERSINE" => r.computedAt - failedAt < Cooldown
  /\ \A e \in ToSet(cache) : e.value # "HAVERSINE"
  /\ \A p \in Polls : poll[p].pc = "answered" => \A r \in poll[p].route :
       r.provider = "HAVERSINE" => poll[p].since - failedAt < Cooldown + RefreshMs

\* The ride costs one call at a time, and every poll that waits has a call it waits for.
OneCallAtATime ==
  /\ Cardinality({c \in calls : "live" \in c.waiting}) = (IF inFlight.pc = "calling" THEN 1 ELSE 0)
  /\ (\E p \in Polls : poll[p].pc = "waiting") => inFlight.pc = "calling"
  /\ \A q \in Quotes : quote[q].pc = "waiting" => \E c \in calls : q \in c.waiting

\* While the breaker is open no one waits for the provider who was not waiting before (isDegraded).
OutageCostsNoLatencyStep ==
  now < breaker.skipUntil => UNION {c.waiting : c \in calls'} \subseteq UNION {c.waiting : c \in calls}
OutageCostsNoLatency == [][OutageCostsNoLatencyStep]_routeVars
=============================================================================
