---------------------------- MODULE RideDispatch ----------------------------
(***************************************************************************)
(* Matching and assignment: the ride documents and the driver documents in *)
(* MongoDB, and the requests, timers and sweeps that race on them.         *)
(*                                                                         *)
(* Every database operation is one atomic step (per-document atomicity is  *)
(* all the code relies on); a handler that awaits between two operations   *)
(* is a call with a program counter that keeps what it read.  Any number   *)
(* of API instances is the same as any number of calls.                    *)
(***************************************************************************)
EXTENDS Naturals, FiniteSets

CONSTANTS
  Rides,                \* ids of ride documents, booked or still to be booked
  Drivers,              \* ids of driver profiles
  CustomerOf,           \* CustomerOf[r]: the customer who books r
  Calls,                \* slots for handlers in flight
  NoRide, NoDriver,     \* an absent reference
  CandidatesPerAttempt, \* CANDIDATES_PER_ATTEMPT
  MaxCancelRetries,     \* MAX_CANCEL_RETRIES
  MaxFailures           \* bound: calls that die half-way (crash, database error)

ASSUME ReferencesDistinct == NoRide \notin Rides /\ NoDriver \notin Drivers
ASSUME LimitsAreNaturals ==
  /\ CandidatesPerAttempt \in Nat
  /\ MaxCancelRetries \in Nat \ {0}
  /\ MaxFailures \in Nat

VARIABLES
  status,       \* status[r], "NONE" before the booking is inserted
  driverOf,     \* driverId of the ride
  rejected,     \* rejectedDriverIds
  offer,        \* assignmentExpiresAt: "none", "live" or "lapsed"
  search,       \* searchExpiresAt: "open" or "lapsed"
  approved,     \* driverStatus = APPROVED (FALSE: SUSPENDED)
  online,       \* isOnline
  available,    \* isAvailable
  current,      \* currentRideId
  totalRides,   \* totalRides
  call,         \* call[p]: the handler running in slot p and its locals
  failures

rideVars   == <<status, driverOf, rejected, offer, search>>
driverVars == <<approved, online, available, current, totalRides>>
vars       == <<rideVars, driverVars, call, failures>>

-----------------------------------------------------------------------------
(* The ride state machine.                                                 *)

RideStatus == {"SEARCHING", "DRIVER_ASSIGNED", "DRIVER_ACCEPTED",
               "DRIVER_ARRIVED", "RIDE_STARTED", "COMPLETED", "CANCELLED",
               "NO_DRIVER_AVAILABLE"}
TERMINAL_RIDE_STATUSES == {"COMPLETED", "CANCELLED", "NO_DRIVER_AVAILABLE"}
DRIVER_ENGAGED_STATUSES == {"DRIVER_ACCEPTED", "DRIVER_ARRIVED", "RIDE_STARTED"}
CUSTOMER_CANCELLABLE_STATUSES ==
  {"SEARCHING", "DRIVER_ASSIGNED", "DRIVER_ACCEPTED", "DRIVER_ARRIVED"}
DRIVER_CANCELLABLE_STATUSES == {"DRIVER_ACCEPTED", "DRIVER_ARRIVED"}

CanTransition(from, to) ==
  \/ from = "SEARCHING"
     /\ to \in {"DRIVER_ASSIGNED", "CANCELLED", "NO_DRIVER_AVAILABLE"}
  \/ from = "DRIVER_ASSIGNED"
     /\ to \in {"DRIVER_ACCEPTED", "SEARCHING", "CANCELLED"}
  \/ from = "DRIVER_ACCEPTED" /\ to \in {"DRIVER_ARRIVED", "CANCELLED"}
  \/ from = "DRIVER_ARRIVED" /\ to \in {"RIDE_STARTED", "CANCELLED"}
  \/ from = "RIDE_STARTED" /\ to = "COMPLETED"

\* The isActive flag of the document (apply keeps it equal to ~isTerminal).
Active(r) == status[r] \in RideStatus \ TERMINAL_RIDE_STATUSES

ApplyById(r, from, to) == status' = [status EXCEPT ![r] = to]

\* The write of RideTransitionService.apply once its filter has matched.
Apply(r, from, to) ==
  /\ CanTransition(from, to)
  /\ status[r] = from
  /\ status' = [status EXCEPT ![r] = to]

-----------------------------------------------------------------------------
(* Calls.                                                                  *)

Pc == {"idle", "insert", "dispatch", "find", "reserve", "assign", "expire",
       "timeout", "reject", "explain", "accept", "release", "releaseOffline",
       "cancelRead", "cancel", "finish", "goOnline", "offlineRide", "leave",
       "offline", "healCheck", "heal"}

CallType ==
  [pc      : Pc,
   ride    : Rides \cup {NoRide},
   driver  : Drivers \cup {NoDriver},
   seen    : SUBSET Drivers,             \* rejected ids read, then candidates
   from    : RideStatus \cup {"NONE"},   \* status a cancellation read
   actor   : {"CUSTOMER", "DRIVER", "ADMIN"},
   tries   : 0..MaxCancelRetries,
   after   : {"done", "redispatch", "credit"}, \* what release is part of
   leaving : Drivers \cup {NoDriver}]    \* whose goOffline this is part of

Idle == [pc |-> "idle", ride |-> NoRide, driver |-> NoDriver, seen |-> {},
         from |-> "NONE", actor |-> "CUSTOMER", tries |-> 0,
         after |-> "done", leaving |-> NoDriver]

Running(p, label) == call[p].pc = label
Become(p, c) == call' = [call EXCEPT ![p] = c]
Goto(p, label) == Become(p, [call[p] EXCEPT !.pc = label])

\* The end of a handler; a dispatch made by goOffline returns to goOffline.
Return(p) ==
  Become(p, IF call[p].leaving = NoDriver
              THEN Idle
              ELSE [Idle EXCEPT !.pc = "offline", !.driver = call[p].leaving])

Release(p, d, after) ==
  Become(p, [call[p] EXCEPT !.pc = "release", !.driver = d, !.after = after])

-----------------------------------------------------------------------------
Init ==
  /\ status     = [r \in Rides |-> "NONE"]
  /\ driverOf   = [r \in Rides |-> NoDriver]
  /\ rejected   = [r \in Rides |-> {}]
  /\ offer      = [r \in Rides |-> "none"]
  /\ search     = [r \in Rides |-> "open"]
  /\ approved   = [d \in Drivers |-> TRUE]
  /\ online     = [d \in Drivers |-> FALSE]
  /\ available  = [d \in Drivers |-> FALSE]
  /\ current    = [d \in Drivers |-> NoRide]
  /\ totalRides = [d \in Drivers |-> 0]
  /\ call       = [p \in Calls |-> Idle]
  /\ failures   = 0

(***************************************************************************)
(* Booking: assertNoActiveRide reads, insertRide writes under the partial  *)
(* unique index on the customer, then the first dispatch runs inline.      *)
(***************************************************************************)
CustomerBusy(r) == \E s \in Rides : CustomerOf[s] = CustomerOf[r] /\ Active(s)

\* The partial unique index uniq_active_ride_per_customer rejects the write.
InsertWithoutIndex(r) == status[r] = "NONE"
InsertAdmitted(r) == status[r] = "NONE" /\ ~CustomerBusy(r)

Book(p, r) ==
  /\ Running(p, "idle")
  /\ status[r] = "NONE"
  /\ ~CustomerBusy(r)
  /\ Become(p, [Idle EXCEPT !.pc = "insert", !.ride = r])
  /\ UNCHANGED <<rideVars, driverVars, failures>>

InsertRide(p) ==
  LET r == call[p].ride IN
  /\ Running(p, "insert")
  /\ IF InsertAdmitted(r)
       THEN /\ status' = [status EXCEPT ![r] = "SEARCHING"]
            /\ Goto(p, "dispatch")
       ELSE Return(p) /\ UNCHANGED status
  /\ UNCHANGED <<driverOf, rejected, offer, search, driverVars, failures>>

(***************************************************************************)
(* dispatch(): read the ride, read the candidates, reserve one, assign.    *)
(***************************************************************************)
ReadForDispatch(p, c) ==
  /\ \/ status[c.ride] # "SEARCHING" /\ Return(p)
     \/ /\ status[c.ride] = "SEARCHING" /\ search[c.ride] = "lapsed"
        /\ Become(p, [c EXCEPT !.pc = "expire"])
     \/ /\ status[c.ride] = "SEARCHING" /\ search[c.ride] = "open"
        /\ Become(p, [c EXCEPT !.pc = "find", !.seen = rejected[c.ride]])
  /\ UNCHANGED <<rideVars, driverVars, failures>>

\* The booking's own dispatch and the one that ends endAssignment.
Dispatch(p) == Running(p, "dispatch") /\ ReadForDispatch(p, call[p])

\* A sweep or a kick lists the open searches and dispatches each of them.
DispatchOpenSearch(p, r) ==
  /\ Running(p, "idle")
  /\ status[r] = "SEARCHING" /\ search[r] = "open"
  /\ ReadForDispatch(p, [Idle EXCEPT !.ride = r])

EligibleWhileHeld(d) == approved[d] /\ online[d] /\ available[d]
Eligible(d) == approved[d] /\ online[d] /\ available[d] /\ current[d] = NoRide

\* Which eligible drivers are near, fresh and of the right vehicle type is
\* the environment's choice; the limit and the exclusions are not.
FindCandidates(p) ==
  /\ Running(p, "find")
  /\ \E near \in SUBSET {d \in Drivers \ call[p].seen : Eligible(d)} :
       /\ Cardinality(near) <= CandidatesPerAttempt
       /\ IF near = {}
            THEN Return(p)
            ELSE Become(p, [call[p] EXCEPT !.pc = "reserve", !.seen = near])
  /\ UNCHANGED <<rideVars, driverVars, failures>>

\* MatchingService.reserve for the nearest candidate left (any of them).
Reserve(p, d) ==
  LET rest == call[p].seen \ {d} IN
  /\ Running(p, "reserve")
  /\ d \in call[p].seen
  /\ IF Eligible(d)
       THEN /\ available' = [available EXCEPT ![d] = FALSE]
            /\ current' = [current EXCEPT ![d] = call[p].ride]
            /\ Become(p, [call[p] EXCEPT !.pc = "assign", !.driver = d])
       ELSE /\ IF rest = {} THEN Return(p)
                            ELSE Become(p, [call[p] EXCEPT !.seen = rest])
            /\ UNCHANGED <<available, current>>
  /\ UNCHANGED <<rideVars, approved, online, totalRides, failures>>

\* The partial unique index uniq_active_ride_per_driver rejects the write.
DriverIndexHolds(r, d) ==
  ~ \E s \in Rides \ {r} : Active(s) /\ driverOf[s] = d

Assign(p) ==
  LET r == call[p].ride
      d == call[p].driver
  IN
  /\ Running(p, "assign")
  /\ IF status[r] = "SEARCHING" /\ DriverIndexHolds(r, d)
       THEN /\ Apply(r, "SEARCHING", "DRIVER_ASSIGNED")
            /\ driverOf' = [driverOf EXCEPT ![r] = d]
            /\ offer' = [offer EXCEPT ![r] = "live"]
            /\ Return(p)
       ELSE /\ Release(p, d, "done")
            /\ UNCHANGED <<status, driverOf, offer>>
  /\ UNCHANGED <<rejected, search, driverVars, failures>>

\* The read of the vehicle or the write fails: the driver is given back before
\* the error ends the handler.
AssignError(p) ==
  /\ Running(p, "assign")
  /\ failures < MaxFailures
  /\ failures' = failures + 1
  /\ Become(p, [call[p] EXCEPT !.pc = "release", !.after = "done", !.leaving = NoDriver])
  /\ UNCHANGED <<rideVars, driverVars>>

ExpireSearch(p) ==
  LET r == call[p].ride IN
  /\ Running(p, "expire")
  /\ IF status[r] = "SEARCHING" /\ search[r] = "lapsed"
       THEN Apply(r, "SEARCHING", "NO_DRIVER_AVAILABLE")
       ELSE UNCHANGED status
  /\ Return(p)
  /\ UNCHANGED <<driverOf, rejected, offer, search, driverVars, failures>>

(***************************************************************************)
(* MatchingService.release: two conditional updates, one for a driver who  *)
(* is online and, when that one matched nothing, one for any other.        *)
(***************************************************************************)
CreditAnyRelease(d, p) == totalRides' = [totalRides EXCEPT ![d] = @ + 1]
Credit(d, p) ==
  totalRides' = IF call[p].after = "credit"
                  THEN [totalRides EXCEPT ![d] = @ + 1] ELSE totalRides

AfterRelease(p) ==
  IF call[p].after = "redispatch" THEN Goto(p, "dispatch") ELSE Return(p)

ReleaseOnline(p) ==
  LET d == call[p].driver IN
  /\ Running(p, "release")
  /\ IF current[d] = call[p].ride /\ online[d]
       THEN /\ available' = [available EXCEPT ![d] = TRUE]
            /\ current' = [current EXCEPT ![d] = NoRide]
            /\ Credit(d, p)
            /\ AfterRelease(p)
       ELSE /\ Goto(p, "releaseOffline")
            /\ UNCHANGED <<available, current, totalRides>>
  /\ UNCHANGED <<rideVars, approved, online, failures>>

ReleaseOnlineOnly(p) ==
  /\ Running(p, "releaseOffline")
  /\ AfterRelease(p)
  /\ UNCHANGED <<rideVars, driverVars, failures>>

ReleaseOffline(p) ==
  LET d == call[p].driver IN
  /\ Running(p, "releaseOffline")
  /\ IF current[d] = call[p].ride
       THEN /\ available' = [available EXCEPT ![d] = FALSE]
            /\ current' = [current EXCEPT ![d] = NoRide]
            /\ Credit(d, p)
       ELSE UNCHANGED <<available, current, totalRides>>
  /\ AfterRelease(p)
  /\ UNCHANGED <<rideVars, approved, online, failures>>

(***************************************************************************)
(* endAssignment: DRIVER_ASSIGNED -> SEARCHING for one driver, then the    *)
(* release, then the next dispatch.  A timeout also checks the deadline.   *)
(***************************************************************************)
EndAssignment(p, overdue) ==
  LET r == call[p].ride
      d == call[p].driver
  IN
  /\ driverOf[r] = d
  /\ overdue => offer[r] = "lapsed"
  /\ Apply(r, "DRIVER_ASSIGNED", "SEARCHING")
  /\ driverOf' = [driverOf EXCEPT ![r] = NoDriver]
  /\ offer' = [offer EXCEPT ![r] = "none"]
  /\ rejected' = [rejected EXCEPT ![r] = @ \cup {d}]
  /\ Release(p, d, "redispatch")
  /\ UNCHANGED <<search, driverVars, failures>>

AssignmentOf(p) ==
  /\ status[call[p].ride] = "DRIVER_ASSIGNED"
  /\ driverOf[call[p].ride] = call[p].driver

SettleSearchesOnly(p, r) ==
  /\ Running(p, "idle")
  /\ status[r] = "SEARCHING" /\ search[r] = "lapsed"
  /\ Become(p, [Idle EXCEPT !.pc = "expire", !.ride = r])
  /\ UNCHANGED <<rideVars, driverVars, failures>>

\* settle(ride): applied by polls, deadline timers and the sweep to a ride
\* they have just read, when one of its deadlines has passed.
Settle(p, r) ==
  /\ Running(p, "idle")
  /\ \/ /\ status[r] = "SEARCHING" /\ search[r] = "lapsed"
        /\ Become(p, [Idle EXCEPT !.pc = "expire", !.ride = r])
     \/ /\ status[r] = "DRIVER_ASSIGNED" /\ offer[r] = "lapsed"
        /\ Become(p, [Idle EXCEPT !.pc = "timeout", !.ride = r,
                                  !.driver = driverOf[r]])
  /\ UNCHANGED <<rideVars, driverVars, failures>>

Timeout(p) ==
  /\ Running(p, "timeout")
  /\ \/ EndAssignment(p, TRUE)
     \/ /\ ~(AssignmentOf(p) /\ offer[call[p].ride] = "lapsed")
        /\ Return(p)
        /\ UNCHANGED <<rideVars, driverVars, failures>>

(***************************************************************************)
(* The driver answers an offer.  The app shows the rides that were offered *)
(* to this driver, the stale ones included.                                *)
(***************************************************************************)
WasOffered(r, d) == driverOf[r] = d \/ d \in rejected[r]

TapAccept(p, r, d) ==
  /\ Running(p, "idle")
  /\ approved[d] /\ online[d] /\ WasOffered(r, d)
  /\ Become(p, [Idle EXCEPT !.pc = "accept", !.ride = r, !.driver = d])
  /\ UNCHANGED <<rideVars, driverVars, failures>>

Accept(p) ==
  LET r == call[p].ride IN
  /\ Running(p, "accept")
  /\ IF AssignmentOf(p) /\ offer[r] = "live"
       THEN /\ Apply(r, "DRIVER_ASSIGNED", "DRIVER_ACCEPTED")
            /\ offer' = [offer EXCEPT ![r] = "none"]
            /\ Return(p)
       ELSE Goto(p, "explain") /\ UNCHANGED <<status, offer>>
  /\ UNCHANGED <<driverOf, rejected, search, driverVars, failures>>

TapReject(p, r, d) ==
  /\ Running(p, "idle")
  /\ approved[d] /\ WasOffered(r, d)
  /\ Become(p, [Idle EXCEPT !.pc = "reject", !.ride = r, !.driver = d])
  /\ UNCHANGED <<rideVars, driverVars, failures>>

Reject(p) ==
  /\ Running(p, "reject")
  /\ \/ EndAssignment(p, FALSE)
     \/ /\ ~AssignmentOf(p)
        /\ Goto(p, "explain")
        /\ UNCHANGED <<rideVars, driverVars, failures>>

\* explainOfferFailure settles a ride that is still this driver's and lapsed.
ExplainOfferFailure(p) ==
  /\ Running(p, "explain")
  /\ IF AssignmentOf(p) /\ offer[call[p].ride] = "lapsed"
       THEN Goto(p, "timeout") ELSE Return(p)
  /\ UNCHANGED <<rideVars, driverVars, failures>>

(***************************************************************************)
(* The trip.  One conditional write each; what the OTPs guard is the       *)
(* subject of another module.                                              *)
(***************************************************************************)
DriverMoves(r, from, to) ==
  /\ \E d \in Drivers : driverOf[r] = d /\ approved[d]
  /\ Apply(r, from, to)
  /\ UNCHANGED <<driverOf, rejected, offer, search, driverVars, call, failures>>

Arrived(r) == DriverMoves(r, "DRIVER_ACCEPTED", "DRIVER_ARRIVED")
Start(r)   == DriverMoves(r, "DRIVER_ARRIVED", "RIDE_STARTED")

\* complete, completeWithoutOtp, completeAsAdmin and a circuit's end all read
\* the started ride and later complete it for the driver they read.
FinishRead(p, r) ==
  /\ Running(p, "idle")
  /\ status[r] = "RIDE_STARTED"
  /\ Become(p, [Idle EXCEPT !.pc = "finish", !.ride = r, !.driver = driverOf[r]])
  /\ UNCHANGED <<rideVars, driverVars, failures>>

Finish(p) ==
  LET r == call[p].ride IN
  /\ Running(p, "finish")
  /\ IF status[r] = "RIDE_STARTED" /\ driverOf[r] = call[p].driver
       THEN Apply(r, "RIDE_STARTED", "COMPLETED")
            /\ Release(p, call[p].driver, "credit")
       ELSE Return(p) /\ UNCHANGED status
  /\ UNCHANGED <<driverOf, rejected, offer, search, driverVars, failures>>

(***************************************************************************)
(* Cancellation: read the ride, then compare-and-set on the status read;   *)
(* the driver freed is the one the ride had when it was read.              *)
(***************************************************************************)
Cancellable(actor) == IF actor = "DRIVER" THEN DRIVER_CANCELLABLE_STATUSES
                                          ELSE CUSTOMER_CANCELLABLE_STATUSES

\* An admin's cancel does not retry; the loop is the customer's and driver's.
ReadForCancel(p, c) ==
  /\ IF status[c.ride] \in Cancellable(c.actor)
       THEN Become(p, [c EXCEPT !.pc = "cancel", !.from = status[c.ride],
                                !.driver = driverOf[c.ride]])
       ELSE Return(p)
  /\ UNCHANGED <<rideVars, driverVars, failures>>

TapCancel(p, r, actor) ==
  /\ Running(p, "idle")
  /\ status[r] \in Cancellable(actor)
  /\ actor = "DRIVER" => \E d \in Drivers : driverOf[r] = d /\ approved[d]
  /\ ReadForCancel(p, [Idle EXCEPT !.ride = r, !.actor = actor,
                         !.tries = IF actor = "ADMIN" THEN 1 ELSE MaxCancelRetries])

CancelReread(p) == Running(p, "cancelRead") /\ ReadForCancel(p, call[p])

RetriesUnbounded(c) == c.tries >= 0
RetriesLeft(c) == c.tries > 1

Cancel(p) ==
  LET c == call[p] IN
  /\ Running(p, "cancel")
  /\ IF status[c.ride] = c.from /\ (c.actor = "DRIVER" => driverOf[c.ride] = c.driver)
       THEN /\ Apply(c.ride, c.from, "CANCELLED")
            /\ offer' = [offer EXCEPT ![c.ride] = "none"]
            /\ IF c.driver # NoDriver THEN Release(p, c.driver, "done") ELSE Return(p)
       ELSE /\ IF RetriesLeft(c)
                 THEN Become(p, [c EXCEPT !.pc = "cancelRead", !.tries = @ - 1])
                 ELSE Return(p)
            /\ UNCHANGED <<status, offer>>
  /\ UNCHANGED <<driverOf, rejected, search, driverVars, failures>>

(***************************************************************************)
(* Duty: both handlers act on the driver document they read first.         *)
(***************************************************************************)
TapOnline(p, d) ==
  /\ Running(p, "idle")
  /\ approved[d]
  /\ Become(p, [Idle EXCEPT !.pc = "goOnline", !.driver = d, !.ride = current[d]])
  /\ UNCHANGED <<rideVars, driverVars, failures>>

GoOnline(p) ==
  LET d == call[p].driver IN
  /\ Running(p, "goOnline")
  /\ online' = [online EXCEPT ![d] = TRUE]
  /\ available' = [available EXCEPT ![d] = call[p].ride = NoRide]
  /\ Return(p)
  /\ UNCHANGED <<rideVars, approved, current, totalRides, failures>>

TapOffline(p, d) ==
  /\ Running(p, "idle")
  /\ approved[d]
  /\ Become(p, [Idle EXCEPT !.pc = IF current[d] = NoRide THEN "offline" ELSE "offlineRide",
                            !.driver = d, !.ride = current[d]])
  /\ UNCHANGED <<rideVars, driverVars, failures>>

\* An engaged driver is refused; an unanswered offer goes to the next driver.
OfflineReadRide(p) ==
  LET r == call[p].ride IN
  /\ Running(p, "offlineRide")
  /\ \/ status[r] \in DRIVER_ENGAGED_STATUSES /\ Return(p)
     \/ /\ status[r] = "DRIVER_ASSIGNED"
        /\ Become(p, [call[p] EXCEPT !.pc = "leave", !.leaving = call[p].driver])
     \/ /\ status[r] \notin DRIVER_ENGAGED_STATUSES \cup {"DRIVER_ASSIGNED"}
        /\ Goto(p, "offline")
  /\ UNCHANGED <<rideVars, driverVars, failures>>

LeaveOffer(p) ==
  /\ Running(p, "leave")
  /\ \/ EndAssignment(p, FALSE)
     \/ /\ ~AssignmentOf(p)
        /\ Return(p)
        /\ UNCHANGED <<rideVars, driverVars, failures>>

GoOffline(p) ==
  LET d == call[p].driver IN
  /\ Running(p, "offline")
  /\ online' = [online EXCEPT ![d] = FALSE]
  /\ available' = [available EXCEPT ![d] = FALSE]
  /\ Become(p, IF current[d] = NoRide THEN Idle
               ELSE [Idle EXCEPT !.pc = "healCheck", !.driver = d, !.ride = current[d]])
  /\ UNCHANGED <<rideVars, approved, current, totalRides, failures>>

HealAlways(p) ==
  /\ Running(p, "healCheck")
  /\ Goto(p, "heal")
  /\ UNCHANGED <<rideVars, driverVars, failures>>

HealCheck(p) ==
  /\ Running(p, "healCheck")
  /\ IF Active(call[p].ride) THEN Return(p) ELSE Goto(p, "heal")
  /\ UNCHANGED <<rideVars, driverVars, failures>>

Heal(p) ==
  LET d == call[p].driver IN
  /\ Running(p, "heal")
  /\ current' = IF current[d] = call[p].ride
                  THEN [current EXCEPT ![d] = NoRide] ELSE current
  /\ Return(p)
  /\ UNCHANGED <<rideVars, approved, online, available, totalRides, failures>>

SuspendAnyDriver(d) ==
  /\ approved[d]
  /\ approved' = [approved EXCEPT ![d] = FALSE]
  /\ online' = [online EXCEPT ![d] = FALSE]
  /\ available' = [available EXCEPT ![d] = FALSE]
  /\ UNCHANGED <<rideVars, current, totalRides, call, failures>>

\* DriversService.suspend and reinstate: one conditional update each.
Suspend(d) ==
  /\ approved[d] /\ current[d] = NoRide
  /\ approved' = [approved EXCEPT ![d] = FALSE]
  /\ online' = [online EXCEPT ![d] = FALSE]
  /\ available' = [available EXCEPT ![d] = FALSE]
  /\ UNCHANGED <<rideVars, current, totalRides, call, failures>>

Reinstate(d) ==
  /\ ~approved[d]
  /\ approved' = [approved EXCEPT ![d] = TRUE]
  /\ UNCHANGED <<rideVars, online, available, current, totalRides, call, failures>>

-----------------------------------------------------------------------------
(* Time and failure.                                                       *)

OfferLapses(r) ==
  /\ offer[r] = "live"
  /\ offer' = [offer EXCEPT ![r] = "lapsed"]
  /\ UNCHANGED <<status, driverOf, rejected, search, driverVars, call, failures>>

SearchLapses(r) ==
  /\ status[r] \in {"SEARCHING", "DRIVER_ASSIGNED"}
  /\ search[r] = "open"
  /\ search' = [search EXCEPT ![r] = "lapsed"]
  /\ UNCHANGED <<status, driverOf, rejected, offer, driverVars, call, failures>>

\* The process dies or the database fails the call between two operations.
Fail(p) ==
  /\ ~Running(p, "idle")
  /\ failures < MaxFailures
  /\ failures' = failures + 1
  /\ Become(p, Idle)
  /\ UNCHANGED <<rideVars, driverVars>>

-----------------------------------------------------------------------------
\* The steps a call in flight takes on its own, once it has been started.
CallStep(p) ==
  \/ InsertRide(p) \/ Dispatch(p) \/ FindCandidates(p)
  \/ \E d \in Drivers : Reserve(p, d)
  \/ Assign(p) \/ ExpireSearch(p) \/ ReleaseOnline(p) \/ ReleaseOffline(p)
  \/ Timeout(p) \/ Accept(p) \/ Reject(p) \/ ExplainOfferFailure(p)
  \/ Finish(p) \/ CancelReread(p) \/ Cancel(p)
  \/ GoOnline(p) \/ OfflineReadRide(p) \/ LeaveOffer(p) \/ GoOffline(p)
  \/ HealCheck(p) \/ Heal(p)

\* Requests of customers, drivers and admins.
Request(p) ==
  \/ \E r \in Rides : Book(p, r) \/ FinishRead(p, r)
  \/ \E r \in Rides, d \in Drivers : TapAccept(p, r, d) \/ TapReject(p, r, d)
  \/ \E r \in Rides, actor \in {"CUSTOMER", "DRIVER", "ADMIN"} : TapCancel(p, r, actor)
  \/ \E d \in Drivers : TapOnline(p, d) \/ TapOffline(p, d)

\* Timers, the sweep and the polls that settle what they read.
Background(p) == \E r \in Rides : Settle(p, r) \/ DispatchOpenSearch(p, r)

Next ==
  \/ \E p \in Calls : CallStep(p) \/ Request(p) \/ Background(p) \/ AssignError(p) \/ Fail(p)
  \/ \E r \in Rides : Arrived(r) \/ Start(r) \/ OfferLapses(r) \/ SearchLapses(r)
  \/ \E d \in Drivers : Suspend(d) \/ Reinstate(d)

Spec == Init /\ [][Next]_vars

(***************************************************************************)
(* Fairness.  A call in flight is never abandoned by the event loop; time  *)
(* passes; and the sweep, which runs every few seconds and takes overdue   *)
(* assignments and searches before anything else, comes back to a ride for *)
(* as long as one of its deadlines is overdue.  Nothing is assumed of      *)
(* customers, drivers or admins.                                           *)
(***************************************************************************)
Fairness ==
  /\ \A p \in Calls : WF_vars(CallStep(p))
  /\ \A r \in Rides : /\ WF_vars(OfferLapses(r))
                       /\ WF_vars(SearchLapses(r))
                       /\ SF_vars(\E p \in Calls : Settle(p, r))

FairSpec == Spec /\ Fairness

-----------------------------------------------------------------------------
(* Properties.                                                             *)

TypeOK ==
  /\ status \in [Rides -> RideStatus \cup {"NONE"}]
  /\ driverOf \in [Rides -> Drivers \cup {NoDriver}]
  /\ rejected \in [Rides -> SUBSET Drivers]
  /\ offer \in [Rides -> {"none", "live", "lapsed"}]
  /\ search \in [Rides -> {"open", "lapsed"}]
  /\ approved \in [Drivers -> BOOLEAN]
  /\ online \in [Drivers -> BOOLEAN]
  /\ available \in [Drivers -> BOOLEAN]
  /\ current \in [Drivers -> Rides \cup {NoRide}]
  /\ totalRides \in [Drivers -> Nat]
  /\ call \in [Calls -> CallType]
  /\ failures \in 0..MaxFailures

\* The driver of an open ride is reserved for exactly that ride, whatever
\* dispatches, releases, answers, cancellations and duty changes are half-way
\* (MatchingService.reserve and release keep it; nothing else may free them).
AssignedDriverIsReserved ==
  \A r \in Rides, d \in Drivers :
    Active(r) /\ driverOf[r] = d => current[d] = r

\* The duplicate-key branch of dispatch is dead: "the reservation guard should
\* make this unreachable" (ride-dispatch.service.ts).
DriverIndexNeverFires ==
  \A p \in Calls :
    Running(p, "assign") /\ Active(call[p].ride) =>
      DriverIndexHolds(call[p].ride, call[p].driver)

\* A suspension can never catch a driver with a ride, not even one that an
\* offer in flight is about to give them (suspend checks currentRideId only).
SuspendedDriverHasNoRide ==
  \A d \in Drivers : ~approved[d] =>
    /\ \A r \in Rides : Active(r) => driverOf[r] # d
    /\ \A p \in Calls : Running(p, "assign") /\ Active(call[p].ride) =>
         call[p].driver # d

\* Two bookings of one customer in flight never both become rides.
OneOpenRidePerCustomer ==
  \A r, s \in Rides :
    r # s /\ CustomerOf[r] = CustomerOf[s] => ~(Active(r) /\ Active(s))

\* A completed trip is added to the driver's totalRides at most once, and only
\* by the call that completed it: two completions, a completion racing a
\* cancellation, or a release tried twice never count a trip a second time
\* (release guards the $inc with currentRideId).
Completed(d) == {r \in Rides : status[r] = "COMPLETED" /\ driverOf[r] = d}
CreditPending(r, d) ==
  \E p \in Calls :
    /\ call[p].ride = r /\ call[p].driver = d /\ call[p].after = "credit"
    /\ call[p].pc \in {"release", "releaseOffline"}
TripsAreCreditedOnce ==
  \A d \in Drivers :
    totalRides[d] <= Cardinality({r \in Completed(d) : ~CreditPending(r, d)})

\* While a ride is open, a reservation for it is either the ride's own driver
\* or held by a call that will assign or release it: an open ride never
\* strands a driver, unless a call died (its sweep and the driver's own
\* "go offline" only repair rides that are over).
Claiming == {"assign", "release", "releaseOffline"}
Holds(p, r, d) ==
  call[p].ride = r /\ call[p].driver = d /\ call[p].pc \in Claiming
OpenRideStrandsNobody ==
  failures = 0 =>
    \A r \in Rides, d \in Drivers :
      current[d] = r /\ Active(r) =>
        driverOf[r] = d \/ \E p \in Calls : Holds(p, r, d)

(***************************************************************************)
(* Why AssignedDriverIsReserved holds: the inductive invariant.            *)
(***************************************************************************)
\* What the labels of a call say of its locals.
LabelOK(c) ==
  /\ c.pc \notin {"idle", "goOnline", "offline"} => c.ride \in Rides
  /\ c.pc \in {"idle", "insert", "dispatch", "find", "reserve", "expire",
               "cancelRead", "cancel"} \/ c.driver \in Drivers
Labels == \A p \in Calls : LabelOK(call[p])

\* A ride that is offered or being driven has a driver.
OfferedRideHasDriver ==
  \A r \in Rides :
    status[r] \in {"DRIVER_ASSIGNED"} \cup DRIVER_ENGAGED_STATUSES =>
      driverOf[r] \in Drivers

\* Nothing refers to a ride that is not booked, its own booking excepted.
UnbookedIsUnknown ==
  \A r \in Rides : status[r] = "NONE" =>
    /\ driverOf[r] = NoDriver /\ rejected[r] = {}
    /\ \A d \in Drivers : current[d] # r
    /\ \A p \in Calls : call[p].ride = r => Running(p, "insert")

\* A call that is about to assign or release a driver of an open ride owns
\* the reservation: the driver points at the ride, is not its driver, and no
\* other call will assign or release them.
ClaimsAreOwned ==
  \A p \in Calls, r \in Rides, d \in Drivers :
    Holds(p, r, d) /\ Active(r) =>
      /\ current[d] = r
      /\ driverOf[r] # d
      /\ \A q \in Calls : Holds(q, r, d) => q = p

\* A pointer is healed only once its ride is over for good.
HealedRideIsOver ==
  \A p \in Calls :
    Running(p, "heal") => status[call[p].ride] \in TERMINAL_RIDE_STATUSES

\* A suspended driver points at no ride.
SuspendedIsFree == \A d \in Drivers : ~approved[d] => current[d] = NoRide

IInv == /\ TypeOK
        /\ Labels
        /\ OfferedRideHasDriver
        /\ UnbookedIsUnknown
        /\ AssignedDriverIsReserved
        /\ ClaimsAreOwned
        /\ HealedRideIsOver
        /\ SuspendedIsFree

\* The calls, interleaved and failing, implement the atomic ride API.
Lifecycle == INSTANCE RideLifecycle
ImplementsLifecycle == Lifecycle!Spec

\* A ride that is being matched is eventually accepted, cancelled or expired,
\* whoever answers and whatever dies: no ride searches for ever.
Unmatched(r) == status[r] \in {"SEARCHING", "DRIVER_ASSIGNED"}
MatchingEnds == \A r \in Rides : Unmatched(r) ~> ~Unmatched(r)

(***************************************************************************)
(* A statement of the repository that the code does not keep.              *)
(***************************************************************************)
Quiet == failures = 0 /\ \A p \in Calls : Running(p, "idle")

\* "normal flows always release through MatchingService"
\* (driver-availability.service.ts:284): with nothing in flight and nothing
\* having failed, a reservation belongs to the open ride of that driver.
NormalFlowsReleaseDriver ==
  Quiet => \A d \in Drivers : current[d] # NoRide =>
             Active(current[d]) /\ driverOf[current[d]] = d
=============================================================================
