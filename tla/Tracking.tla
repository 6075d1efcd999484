------------------------------ MODULE Tracking ------------------------------
(***************************************************************************)
(* The positions a driver's phone sends during one ride: fixes handled     *)
(* side by side, the live position of the process, the stored one, the     *)
(* checkpoints, and the trail the trip is billed on (DriverLocationService,*)
(* DriverLiveLocationStore, measureTrip).                                  *)
(*                                                                         *)
(* Positions lie on a line and the driver moves at most one of them a      *)
(* tick.  A fix names the tick it was taken in and arrives when it may;    *)
(* the checkpoint of a transition is written in the tick of it.            *)
(***************************************************************************)
EXTENDS Integers, Sequences, FiniteSets, SequencesExt

CONSTANTS
  Fixes,        \* fixes in flight
  Positions, Pickup,   \* the line, and where the rider waits
  MinInterval, MaxFixAge, StaleAfter, PersistInterval, PersistDistance, CheckpointInterval,
  MaxGap,       \* tripMeterMaxGapSeconds
  MaxFixes, MaxRestarts, MaxTime   \* bounds

VARIABLES
  now,
  path,      \* path[t + 1]: where the driver was in tick t
  driver,    \* [online, busy, pos, at]: the profile; pos and at -1 before the first write
  trip,      \* [status, startedAt, endAt, arriving, pending]
  store,     \* [pos, recorded, received, accepted, checkpoint], -1: none
  ingest,    \* ingest[f]: [pc, pos, recorded, at, due, close]
  points,    \* the checkpoints, in the order they were written: [kind, pos, recorded, at, boot]
  measured,  \* [done, ordered, distance, reliable, until]
  told,      \* the arriving signals sent
  tally      \* [fixes, boot]

trackingVars == <<now, path, driver, trip, store, ingest, points, measured, told, tally>>

Moments == -1..MaxTime
LiveLocation == [pos : Positions, recorded : 0..MaxTime, received : 0..MaxTime]
DriverLocationCheckpoint ==
  [kind : {"ARRIVING", "STARTED", "TRIP", "COMPLETED"}, pos : Positions, recorded : 0..MaxTime,
   at : 0..MaxTime, boot : 0..MaxRestarts]
DriverProfile == [online : BOOLEAN, busy : BOOLEAN, pos : Positions \cup {-1}, at : Moments]

NoFix == [pos |-> -1, recorded |-> -1, received |-> -1]
EmptyStore == [live |-> NoFix, accepted |-> -1, checkpoint |-> -1]
NoIngest == [pc |-> "idle", pos |-> -1, recorded |-> 0, at |-> 0, due |-> FALSE, close |-> FALSE]
NotMeasured == [done |-> FALSE, ordered |-> <<>>, distance |-> 0, reliable |-> FALSE, until |-> -1]

Init ==
  /\ now = 0
  /\ \E p \in Positions : path = <<p>>
  /\ driver = [online |-> TRUE, busy |-> TRUE, pos |-> -1, at |-> -1]
  /\ trip = [status |-> "DRIVER_ACCEPTED", startedAt |-> -1, endAt |-> -1, arriving |-> FALSE,
             pending |-> {}]
  /\ store = EmptyStore
  /\ ingest = [f \in Fixes |-> NoIngest]
  /\ points = <<>> /\ measured = NotMeasured /\ told = 0
  /\ tally = [fixes |-> 0, boot |-> 0]

Abs(n) == IF n < 0 THEN -n ELSE n
\* latest, with the freshness window.
Live == IF store.live # NoFix /\ now - store.live.received <= StaleAfter THEN store.live ELSE NoFix

Tick ==
  /\ now < MaxTime /\ now' = now + 1 /\ trip.pending = {}
  /\ \E p \in Positions : Abs(p - path[now + 1]) <= 1 /\ path' = Append(path, p)
  /\ UNCHANGED <<driver, trip, store, ingest, points, measured, told, tally>>

-----------------------------------------------------------------------------
(* ingest *)

Going(f, pc) == ingest' = [ingest EXCEPT ![f].pc = pc]
Ended(f) == ingest' = [ingest EXCEPT ![f] = NoIngest]

\* A fix of tick t arrives by the socket, which is limited, or by REST, which is not.
Receive(f, t, limited) ==
  /\ ingest[f].pc = "idle" /\ tally.fixes < MaxFixes /\ t \in 0..now
  /\ now - t <= MaxFixAge
  /\ limited => store.accepted = -1 \/ now - store.accepted >= MinInterval
  /\ store' = IF limited THEN [store EXCEPT !.accepted = now] ELSE store
  /\ ingest' = [ingest EXCEPT ![f] = [NoIngest EXCEPT !.pc = "driver", !.pos = path[t + 1],
                                                      !.recorded = t, !.at = now]]
  /\ tally' = [tally EXCEPT !.fixes = @ + 1]
  /\ UNCHANGED <<now, path, driver, trip, points, measured, told>>

PersistDue(f) ==
  \/ driver.at = -1
  \/ ingest[f].at - driver.at >= PersistInterval
  \/ Abs(driver.pos - ingest[f].pos) >= PersistDistance
ReadDriver(f) ==
  /\ ingest[f].pc = "driver"
  /\ IF ~driver.online THEN Ended(f) /\ UNCHANGED store
     ELSE /\ store' = [store EXCEPT !.live = [pos |-> ingest[f].pos, recorded |-> ingest[f].recorded,
                                              received |-> ingest[f].at]]
          /\ ingest' = [ingest EXCEPT ![f].pc = IF PersistDue(f) THEN "persist" ELSE "ride",
                                      ![f].due = driver.busy]
  /\ UNCHANGED <<now, path, driver, trip, points, measured, told, tally>>
Storable == driver.online
Persist(f) ==
  /\ ingest[f].pc = "persist"
  /\ driver' = IF Storable THEN [driver EXCEPT !.pos = ingest[f].pos, !.at = ingest[f].at] ELSE driver
  /\ Going(f, "ride")
  /\ UNCHANGED <<now, path, trip, store, points, measured, told, tally>>

\* The ride is read; a driver near the pickup claims the arriving signal, and a sample of the trail is
\* taken when its clock, which advances at once, says so.
CheckpointDue(f) == store.checkpoint = -1 \/ ingest[f].at - store.checkpoint >= CheckpointInterval
Sampled(f) ==
  IF CheckpointDue(f)
  THEN store' = [store EXCEPT !.checkpoint = ingest[f].at] /\ Going(f, "sample")
  ELSE UNCHANGED store /\ Ended(f)
ReadRide(f) ==
  /\ ingest[f].pc = "ride"
  /\ IF ~ingest[f].due \/ trip.status \notin {"DRIVER_ACCEPTED", "DRIVER_ARRIVED", "RIDE_STARTED"}
     THEN Ended(f) /\ UNCHANGED store
     ELSE IF trip.status = "DRIVER_ACCEPTED" /\ ~trip.arriving /\ ingest[f].pos = Pickup
     THEN Going(f, "claim") /\ UNCHANGED store
     ELSE IF trip.status \in {"DRIVER_ACCEPTED", "RIDE_STARTED"} THEN Sampled(f)
     ELSE Ended(f) /\ UNCHANGED store
  /\ UNCHANGED <<now, path, driver, trip, points, measured, told, tally>>
Claimable == trip.status = "DRIVER_ACCEPTED" /\ ~trip.arriving
ClaimArriving(f) ==
  /\ ingest[f].pc = "claim"
  /\ IF Claimable
     THEN trip' = [trip EXCEPT !.arriving = TRUE] /\ Going(f, "arriving") /\ UNCHANGED store
     ELSE Sampled(f) /\ UNCHANGED trip
  /\ UNCHANGED <<now, path, driver, points, measured, told, tally>>
Checkpoint(kind, p, recorded) ==
  points' = Append(points, [kind |-> kind, pos |-> p, recorded |-> recorded, at |-> now,
                            boot |-> tally.boot])
WriteArriving(f) ==
  /\ ingest[f].pc = "arriving"
  /\ Checkpoint("ARRIVING", ingest[f].pos, ingest[f].recorded)
  /\ told' = told + 1
  /\ Sampled(f)
  /\ UNCHANGED <<now, path, driver, trip, measured, tally>>
WriteSample(f) ==
  /\ ingest[f].pc = "sample"
  /\ points' = Append(points, [kind |-> "TRIP", pos |-> ingest[f].pos,
                               recorded |-> ingest[f].recorded, at |-> ingest[f].at,
                               boot |-> tally.boot])
  /\ Ended(f)
  /\ UNCHANGED <<now, path, driver, trip, store, measured, told, tally>>

-----------------------------------------------------------------------------
(* The ride, whose handlers leave a checkpoint behind *)

Arrive ==
  /\ trip.status = "DRIVER_ACCEPTED" /\ trip' = [trip EXCEPT !.status = "DRIVER_ARRIVED"]
  /\ UNCHANGED <<now, path, driver, store, ingest, points, measured, told, tally>>
Start ==
  /\ trip.status = "DRIVER_ARRIVED"
  /\ trip' = [trip EXCEPT !.status = "RIDE_STARTED", !.startedAt = now, !.pending = {"STARTED"}]
  /\ UNCHANGED <<now, path, driver, store, ingest, points, measured, told, tally>>
RequestEnd ==
  /\ trip.status = "RIDE_STARTED" /\ trip.endAt = -1
  /\ trip' = [trip EXCEPT !.endAt = now]
  /\ UNCHANGED <<now, path, driver, store, ingest, points, measured, told, tally>>
\* recordCheckpoint: the live fix, or the stored position, or nothing.
RecordCheckpoint(kind) ==
  /\ kind \in trip.pending /\ trip' = [trip EXCEPT !.pending = @ \ {kind}]
  /\ IF Live # NoFix THEN Checkpoint(kind, Live.pos, Live.recorded)
     ELSE IF driver.at # -1 THEN Checkpoint(kind, driver.pos, driver.at)
     ELSE UNCHANGED points
  /\ store' = IF kind = "COMPLETED" THEN [store EXCEPT !.checkpoint = -1] ELSE store
  /\ UNCHANGED <<now, path, driver, ingest, measured, told, tally>>

\* tripTrail and measureTrip.
Until == IF trip.endAt = -1 THEN MaxTime ELSE trip.endAt
Before(p, q) == p.recorded < q.recorded
InTime(recorded) == recorded <= Until
Rows ==
  SortSeq(SelectSeq(points, LAMBDA p :
              p.kind = "STARTED" \/ (p.kind = "TRIP" /\ p.recorded \in trip.startedAt..Until)),
          Before)
TripTrail ==
  LET rows == [i \in 1..Len(Rows) |-> [pos |-> Rows[i].pos, recorded |-> Rows[i].recorded]]
      last == [pos |-> Live.pos, recorded |-> Live.recorded] IN
  IF Live # NoFix /\ InTime(Live.recorded) /\ (rows = <<>> \/ Live.recorded > rows[Len(rows)].recorded)
  THEN Append(rows, last) ELSE rows
\* A leg of more than a position a tick is a jump of the receiver; the next one is measured from the
\* last good point.
MeasureTrip(trail) ==
  LET Leg(acc, p) ==
        LET seconds == p.recorded - acc.last.recorded
            leg == Abs(p.pos - acc.last.pos)
            gap == IF seconds > acc.gap THEN seconds ELSE acc.gap IN
        IF seconds > 0 /\ leg > seconds
        THEN [acc EXCEPT !.glitches = @ + 1, !.gap = gap]
        ELSE [acc EXCEPT !.distance = @ + leg, !.last = p, !.gap = gap]
      start == [distance |-> 0, gap |-> 0, glitches |-> 0, last |-> trail[1]]
      sum == FoldLeft(Leg, start, Tail(trail)) IN
  IF Len(trail) < 2 THEN [distance |-> 0, reliable |-> FALSE]
  ELSE [distance |-> sum.distance,
        reliable |-> sum.gap <= MaxGap /\ sum.glitches * 4 <= Len(trail) - 1]
Finish ==
  /\ trip.status = "RIDE_STARTED"
  /\ LET m == MeasureTrip(TripTrail) IN
     measured' = [done |-> TRUE, ordered |-> TripTrail, distance |-> m.distance,
                  reliable |-> m.reliable, until |-> Until]
  /\ trip' = [trip EXCEPT !.status = "COMPLETED", !.pending = @ \cup {"COMPLETED"}]
  /\ driver' = [driver EXCEPT !.busy = FALSE]
  /\ UNCHANGED <<now, path, store, ingest, points, told, tally>>

GoOffline ==
  /\ driver.online /\ ~driver.busy
  /\ driver' = [driver EXCEPT !.online = FALSE] /\ store' = EmptyStore
  /\ UNCHANGED <<now, path, trip, ingest, points, measured, told, tally>>
\* The process starts again: its live positions, its handlers and their checkpoints are gone.
Restart ==
  /\ tally.boot < MaxRestarts /\ tally' = [tally EXCEPT !.boot = @ + 1]
  /\ store' = EmptyStore /\ ingest' = [f \in Fixes |-> NoIngest]
  /\ trip' = [trip EXCEPT !.pending = {}]
  /\ UNCHANGED <<now, path, driver, points, measured, told>>

Next ==
  \/ Tick \/ Arrive \/ Start \/ RequestEnd \/ Finish \/ GoOffline \/ Restart
  \/ \E kind \in trip.pending : RecordCheckpoint(kind)
  \/ \E f \in Fixes :
       \/ \E t \in 0..MaxTime, limited \in BOOLEAN : Receive(f, t, limited)
       \/ ReadDriver(f) \/ Persist(f) \/ ReadRide(f)
       \/ ClaimArriving(f) \/ WriteArriving(f) \/ WriteSample(f)

Spec == Init /\ [][Next]_trackingVars

-----------------------------------------------------------------------------
\* Type invariant; a fix is recorded at every tick of the path.
TypeOK ==
  /\ now \in 0..MaxTime /\ path \in Seq(Positions) /\ Len(path) = now + 1
  /\ driver \in DriverProfile
  /\ trip.startedAt \in Moments /\ trip.endAt \in Moments /\ trip.pending \subseteq {"STARTED", "COMPLETED"}
  /\ store.live \in LiveLocation \cup {NoFix} /\ store.checkpoint \in Moments
  /\ \A f \in Fixes : ingest[f].pc \in
       {"idle", "driver", "persist", "ride", "claim", "arriving", "sample"}
  /\ points \in Seq(DriverLocationCheckpoint)

\* The rider is told once that the driver is arriving, by whichever fix comes first, also when the
\* process starts again in between.
ArrivingOnce == told <= 1

\* The trail of a ride under way is thin: two samples of one process lie an interval apart, however
\* many fixes are handled side by side.
TrailIsThin ==
  trip.status # "COMPLETED" => \A i, j \in 1..Len(points) :
    i # j /\ {points[i].kind, points[j].kind} = {"TRIP"} /\ points[i].boot = points[j].boot =>
      Abs(points[i].at - points[j].at) >= CheckpointInterval

\* Time after the driver asked to end the trip is not billed: no point of the measured trail is later.
NothingAfterTheEnd ==
  measured.done => \A i \in 1..Len(measured.ordered) : measured.ordered[i].recorded <= measured.until

\* The rider never pays for more than the driver drove, in whatever order the fixes arrived.
Travelled(t) == FoldLeft(LAMBDA sum, i : sum + Abs(path[i + 1] - path[i]), 0, [i \in 1..t |-> i])
MeasuredIsTravelled ==
  measured.reliable => measured.distance <= Travelled(now)

\* The stored position of a driver who is offline stands: a fix that was in flight does not move it.
OfflinePositionStandsStep ==
  ~driver.online => driver'.pos = driver.pos /\ driver'.at = driver.at
OfflinePositionStands == [][OfflinePositionStandsStep]_trackingVars
=============================================================================
