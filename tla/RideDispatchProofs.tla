------------------------- MODULE RideDispatchProofs -------------------------
(***************************************************************************)
(* Theorems about RideDispatch, for any number of rides, drivers, calls    *)
(* and failures.                                                           *)
(***************************************************************************)
EXTENDS RideDispatch, TLAPS, FiniteSetTheorems

USE ReferencesDistinct, LimitsAreNaturals

-----------------------------------------------------------------------------
(* Type correctness.                                                       *)

LEMMA InitTypeOK == Init => TypeOK
  BY DEF Init, TypeOK, CallType, Idle, Pc, RideStatus

\* The building blocks of the handlers produce calls of the right type.
LEMMA BecomeType ==
  ASSUME TypeOK, NEW p \in Calls, NEW c \in CallType, Become(p, c)
  PROVE  call' \in [Calls -> CallType]
  BY DEF TypeOK, Become

LEMMA IdleType == Idle \in CallType
  BY DEF Idle, CallType, Pc

LEMMA GotoType ==
  ASSUME TypeOK, NEW p \in Calls, NEW label \in Pc, Goto(p, label)
  PROVE  call' \in [Calls -> CallType]
  <1>1. [call[p] EXCEPT !.pc = label] \in CallType
    BY DEF TypeOK, CallType
  <1> QED BY <1>1, BecomeType DEF Goto

LEMMA ReturnType ==
  ASSUME TypeOK, NEW p \in Calls, Return(p)
  PROVE  call' \in [Calls -> CallType]
  <1>1. [Idle EXCEPT !.pc = "offline", !.driver = call[p].leaving] \in CallType
    BY IdleType DEF TypeOK, CallType, Pc
  <1> QED BY <1>1, IdleType, BecomeType DEF Return

LEMMA ReleaseType ==
  ASSUME TypeOK, NEW p \in Calls, NEW d \in Drivers \cup {NoDriver},
         NEW after \in {"done", "redispatch", "credit"}, Release(p, d, after)
  PROVE  call' \in [Calls -> CallType]
  <1>1. call[p] \in CallType
    BY DEF TypeOK
  <1>2. [call[p] EXCEPT !.pc = "release", !.driver = d, !.after = after] \in CallType
    BY <1>1 DEF CallType, Pc
  <1> QED BY <1>2, BecomeType DEF Release


LEMMA ApplyType ==
  ASSUME TypeOK, NEW r, NEW from, NEW to \in RideStatus, Apply(r, from, to)
  PROVE  status' \in [Rides -> RideStatus \cup {"NONE"}]
  BY DEF TypeOK, Apply

\* Booking and dispatch.
LEMMA BookingType ==
  ASSUME TypeOK, NEW p \in Calls, (\E r \in Rides : Book(p, r)) \/ InsertRide(p)
  PROVE  TypeOK'
  <1>1. ASSUME NEW r \in Rides, Book(p, r) PROVE TypeOK'
    <2>1. [Idle EXCEPT !.pc = "insert", !.ride = r] \in CallType
      BY IdleType DEF CallType, Pc
    <2> QED BY <1>1, <2>1, BecomeType DEF Book, TypeOK, rideVars, driverVars
  <1>2. CASE InsertRide(p)
    <2>1. call' \in [Calls -> CallType]
      BY <1>2, GotoType, ReturnType DEF InsertRide, Pc
    <2> QED BY <1>2, <2>1 DEF InsertRide, TypeOK, RideStatus, driverVars
  <1> QED BY <1>1, <1>2

LEMMA ReadForDispatchType ==
  ASSUME TypeOK, NEW p \in Calls, NEW c \in CallType, c.ride \in Rides,
         ReadForDispatch(p, c)
  PROVE  TypeOK'
  <1>1. [c EXCEPT !.pc = "expire"] \in CallType
    BY DEF CallType, Pc
  <1>2. [c EXCEPT !.pc = "find", !.seen = rejected[c.ride]] \in CallType
    BY DEF CallType, Pc, TypeOK
  <1>3. call' \in [Calls -> CallType]
    BY <1>1, <1>2, ReturnType, BecomeType DEF ReadForDispatch
  <1> QED BY <1>3 DEF ReadForDispatch, TypeOK, rideVars, driverVars

\* The conjuncts of TypeOK an action leaves to its call.
Frame == <<rideVars, driverVars, failures>>

LEMMA CallFrameType ==
  ASSUME TypeOK, call' \in [Calls -> CallType], UNCHANGED Frame
  PROVE  TypeOK'
  BY DEF TypeOK, Frame, rideVars, driverVars

LEMMA DispatchType ==
  ASSUME TypeOK, Labels, NEW p \in Calls,
         \/ Dispatch(p) \/ (\E r \in Rides : DispatchOpenSearch(p, r))
         \/ FindCandidates(p) \/ (\E d \in Drivers : Reserve(p, d))
         \/ Assign(p) \/ ExpireSearch(p)
  PROVE  TypeOK'
  <1> USE DEF Running
  <1>0. call[p] \in CallType
    BY DEF TypeOK
  <1>1. CASE Dispatch(p)
    <2>1. call[p].ride \in Rides
      BY <1>1 DEF Dispatch, Labels, LabelOK
    <2> QED BY <1>0, <1>1, <2>1, ReadForDispatchType DEF Dispatch
  <1>2. ASSUME NEW r \in Rides, DispatchOpenSearch(p, r) PROVE TypeOK'
    <2>1. [Idle EXCEPT !.ride = r] \in CallType
      BY IdleType DEF CallType
    <2>2. [Idle EXCEPT !.ride = r].ride = r
      BY DEF Idle
    <2> QED BY <1>2, <2>1, <2>2, ReadForDispatchType DEF DispatchOpenSearch
  <1>3. CASE FindCandidates(p)
    <2>1. ASSUME NEW near \in SUBSET Drivers
          PROVE  [call[p] EXCEPT !.pc = "reserve", !.seen = near] \in CallType
      BY <1>0 DEF CallType, Pc
    <2>2. call' \in [Calls -> CallType]
      BY <1>3, <2>1, BecomeType, ReturnType DEF FindCandidates
    <2> QED BY <1>3, <2>2, CallFrameType DEF FindCandidates, Frame
  <1>4. ASSUME NEW d \in Drivers, Reserve(p, d) PROVE TypeOK'
    <2>1. [call[p] EXCEPT !.pc = "assign", !.driver = d] \in CallType
      BY <1>0 DEF CallType, Pc
    <2>2. [call[p] EXCEPT !.seen = call[p].seen \ {d}] \in CallType
      BY <1>0 DEF CallType
    <2>3. call' \in [Calls -> CallType]
      BY <1>4, <2>1, <2>2, BecomeType, ReturnType DEF Reserve
    <2>4. call[p].ride \in Rides
      BY <1>4 DEF Reserve, Labels, LabelOK
    <2> QED BY <1>4, <2>3, <2>4 DEF Reserve, TypeOK, rideVars
  <1>5. CASE Assign(p)
    <2>1. call[p].driver \in Drivers
      BY <1>5 DEF Assign, Labels, LabelOK
    <2>2. call' \in [Calls -> CallType]
      BY <1>5, <2>1, ReleaseType, ReturnType DEF Assign
    <2>3. status' \in [Rides -> RideStatus \cup {"NONE"}]
      BY <1>5, ApplyType DEF Assign, RideStatus, TypeOK
    <2> QED BY <1>5, <2>1, <2>2, <2>3 DEF Assign, TypeOK, driverVars
  <1>6. CASE ExpireSearch(p)
    <2>1. call' \in [Calls -> CallType]
      BY <1>6, ReturnType DEF ExpireSearch
    <2>2. status' \in [Rides -> RideStatus \cup {"NONE"}]
      BY <1>6, ApplyType DEF ExpireSearch, RideStatus, TypeOK
    <2> QED BY <1>6, <2>1, <2>2 DEF ExpireSearch, TypeOK, driverVars
  <1> QED BY <1>1, <1>2, <1>3, <1>4, <1>5, <1>6

LEMMA ReleasesType ==
  ASSUME TypeOK, Labels, NEW p \in Calls, ReleaseOnline(p) \/ ReleaseOffline(p)
  PROVE  TypeOK'
  <1>1. ASSUME AfterRelease(p) PROVE call' \in [Calls -> CallType]
    BY <1>1, GotoType, ReturnType DEF AfterRelease, Pc
  <1>2. call[p].driver \in Drivers
    BY DEF ReleaseOnline, ReleaseOffline, Running, Labels, LabelOK
  <1>3. ASSUME Credit(call[p].driver, p) PROVE totalRides' \in [Drivers -> Nat]
    BY <1>2, <1>3 DEF Credit, TypeOK
  <1>4. CASE ReleaseOnline(p)
    <2>1. call' \in [Calls -> CallType]
      BY <1>1, <1>4, GotoType DEF ReleaseOnline, Pc
    <2>2. totalRides' \in [Drivers -> Nat]
      BY <1>3, <1>4 DEF ReleaseOnline, TypeOK
    <2> QED BY <1>4, <2>1, <2>2 DEF ReleaseOnline, TypeOK, rideVars
  <1>5. CASE ReleaseOffline(p)
    <2>1. totalRides' \in [Drivers -> Nat]
      BY <1>3, <1>5 DEF ReleaseOffline, TypeOK
    <2> QED BY <1>1, <1>5, <2>1 DEF ReleaseOffline, TypeOK, rideVars
  <1> QED BY <1>4, <1>5

\* A withdrawal only ever names the driver of an offered ride.
LEMMA EndAssignmentType ==
  ASSUME TypeOK, OfferedRideHasDriver, NEW p \in Calls, call[p].ride \in Rides,
         NEW overdue, EndAssignment(p, overdue)
  PROVE  TypeOK'
  <1>1. call[p].driver \in Drivers
    BY DEF EndAssignment, Apply, OfferedRideHasDriver
  <1>2. call' \in [Calls -> CallType]
    BY <1>1, ReleaseType DEF EndAssignment
  <1>3. status' \in [Rides -> RideStatus \cup {"NONE"}]
    BY ApplyType DEF EndAssignment, RideStatus
  <1>4. /\ driverOf' \in [Rides -> Drivers \cup {NoDriver}]
        /\ offer' \in [Rides -> {"none", "live", "lapsed"}]
    BY DEF EndAssignment, TypeOK
  <1>5. rejected' \in [Rides -> SUBSET Drivers]
    BY <1>1 DEF EndAssignment, TypeOK
  <1> QED BY <1>2, <1>3, <1>4, <1>5 DEF EndAssignment, TypeOK, driverVars

\* Deadlines and answers.
LEMMA OfferType ==
  ASSUME TypeOK, Labels, OfferedRideHasDriver, NEW p \in Calls,
         \/ \E r \in Rides : Settle(p, r)
         \/ \E r \in Rides, d \in Drivers : TapAccept(p, r, d) \/ TapReject(p, r, d)
         \/ Timeout(p) \/ Accept(p) \/ Reject(p) \/ ExplainOfferFailure(p)
  PROVE  TypeOK'
  <1> USE DEF Running
  <1>1. ASSUME NEW r \in Rides, Settle(p, r) PROVE TypeOK'
    <2>1. /\ [Idle EXCEPT !.pc = "expire", !.ride = r] \in CallType
          /\ [Idle EXCEPT !.pc = "timeout", !.ride = r, !.driver = driverOf[r]] \in CallType
      BY IdleType DEF CallType, Pc, TypeOK
    <2> QED BY <1>1, <2>1, BecomeType, CallFrameType DEF Settle, Frame
  <1>2. ASSUME NEW r \in Rides, NEW d \in Drivers, TapAccept(p, r, d) \/ TapReject(p, r, d)
        PROVE  TypeOK'
    <2>1. /\ [Idle EXCEPT !.pc = "accept", !.ride = r, !.driver = d] \in CallType
          /\ [Idle EXCEPT !.pc = "reject", !.ride = r, !.driver = d] \in CallType
      BY IdleType DEF CallType, Pc
    <2> QED BY <1>2, <2>1, BecomeType, CallFrameType DEF TapAccept, TapReject, Frame
  <1>3. CASE Timeout(p) \/ Reject(p)
    <2>1. call[p].ride \in Rides
      BY <1>3 DEF Timeout, Reject, Labels, LabelOK
    <2>2. CASE EndAssignment(p, TRUE) \/ EndAssignment(p, FALSE)
      BY <2>1, <2>2, EndAssignmentType
    <2>3. CASE (Return(p) \/ Goto(p, "explain")) /\ UNCHANGED Frame
      BY <2>3, ReturnType, GotoType, CallFrameType DEF Pc
    <2> QED BY <1>3, <2>2, <2>3 DEF Timeout, Reject, Frame
  <1>4. CASE Accept(p)
    <2>1. call' \in [Calls -> CallType]
      BY <1>4, ReturnType, GotoType DEF Accept, Pc
    <2>2. status' \in [Rides -> RideStatus \cup {"NONE"}]
      BY <1>4, ApplyType DEF Accept, RideStatus, TypeOK
    <2> QED BY <1>4, <2>1, <2>2 DEF Accept, TypeOK, driverVars
  <1>5. CASE ExplainOfferFailure(p)
    BY <1>5, GotoType, ReturnType, CallFrameType DEF ExplainOfferFailure, Pc, Frame
  <1> QED BY <1>1, <1>2, <1>3, <1>4, <1>5

\* The trip and the cancellation.
LEMMA TripType ==
  ASSUME TypeOK, NEW r \in Rides, Arrived(r) \/ Start(r)
  PROVE  TypeOK'
  <1>1. status' \in [Rides -> RideStatus \cup {"NONE"}]
    BY ApplyType DEF Arrived, Start, DriverMoves, RideStatus
  <1> QED BY <1>1 DEF Arrived, Start, DriverMoves, TypeOK, driverVars

LEMMA FinishType ==
  ASSUME TypeOK, NEW p \in Calls, (\E r \in Rides : FinishRead(p, r)) \/ Finish(p)
  PROVE  TypeOK'
  <1>1. ASSUME NEW r \in Rides, FinishRead(p, r) PROVE TypeOK'
    <2>1. [Idle EXCEPT !.pc = "finish", !.ride = r, !.driver = driverOf[r]] \in CallType
      BY IdleType DEF CallType, Pc, TypeOK
    <2> QED BY <1>1, <2>1, BecomeType, CallFrameType DEF FinishRead, Frame
  <1>2. CASE Finish(p)
    <2>1. call[p].driver \in Drivers \cup {NoDriver}
      BY DEF TypeOK, CallType
    <2>2. call' \in [Calls -> CallType]
      BY <1>2, <2>1, ReleaseType, ReturnType DEF Finish
    <2>3. status' \in [Rides -> RideStatus \cup {"NONE"}]
      BY <1>2, ApplyType DEF Finish, RideStatus, TypeOK
    <2> QED BY <1>2, <2>2, <2>3 DEF Finish, TypeOK, driverVars
  <1> QED BY <1>1, <1>2

LEMMA ReadForCancelType ==
  ASSUME TypeOK, NEW p \in Calls, NEW c \in CallType, c.ride \in Rides,
         ReadForCancel(p, c)
  PROVE  TypeOK'
  <1>1. [c EXCEPT !.pc = "cancel", !.from = status[c.ride],
                  !.driver = driverOf[c.ride]] \in CallType
    <2>1. /\ status[c.ride] \in RideStatus \cup {"NONE"}
          /\ driverOf[c.ride] \in Drivers \cup {NoDriver}
      BY DEF TypeOK
    <2> QED BY <2>1 DEF CallType, Pc
  <1> QED BY <1>1, BecomeType, ReturnType, CallFrameType DEF ReadForCancel, Frame

LEMMA CancelType ==
  ASSUME TypeOK, Labels, NEW p \in Calls,
         \/ \E r \in Rides, actor \in {"CUSTOMER", "DRIVER", "ADMIN"} : TapCancel(p, r, actor)
         \/ CancelReread(p) \/ Cancel(p)
  PROVE  TypeOK'
  <1>0. call[p] \in CallType
    BY DEF TypeOK
  <1>1. ASSUME NEW r \in Rides, NEW actor \in {"CUSTOMER", "DRIVER", "ADMIN"},
               TapCancel(p, r, actor)
        PROVE  TypeOK'
    <2> DEFINE n == IF actor = "ADMIN" THEN 1 ELSE MaxCancelRetries
               c == [Idle EXCEPT !.ride = r, !.actor = actor, !.tries = n]
    <2>1. n \in 0..MaxCancelRetries
      OBVIOUS
    <2>2. c \in CallType
      BY <2>1, IdleType DEF CallType
    <2>3. c.ride = r
      BY DEF Idle
    <2> HIDE DEF c
    <2>4. ReadForCancel(p, c)
      BY <1>1 DEF TapCancel, c
    <2> QED BY <2>2, <2>3, <2>4, ReadForCancelType
  <1>2. CASE CancelReread(p)
    BY <1>0, <1>2, ReadForCancelType DEF CancelReread, Labels, LabelOK, Running
  <1>3. CASE Cancel(p)
    <2>1. ASSUME RetriesLeft(call[p])
          PROVE  [call[p] EXCEPT !.pc = "cancelRead", !.tries = @ - 1] \in CallType
      <3>1. call[p].tries - 1 \in 0..MaxCancelRetries
        BY <1>0, <2>1 DEF RetriesLeft, CallType
      <3> QED BY <1>0, <3>1 DEF CallType, Pc
    <2>2. ASSUME call[p].driver # NoDriver PROVE call[p].driver \in Drivers
      BY <1>0, <2>2 DEF CallType
    <2>3. call' \in [Calls -> CallType]
      BY <1>3, <2>1, <2>2, BecomeType, ReleaseType, ReturnType DEF Cancel
    <2>4. status' \in [Rides -> RideStatus \cup {"NONE"}]
      BY <1>3, ApplyType DEF Cancel, RideStatus, TypeOK
    <2> QED BY <1>3, <2>3, <2>4 DEF Cancel, TypeOK, driverVars
  <1> QED BY <1>1, <1>2, <1>3

\* Duty, suspension, time and failure.
LEMMA DutyType ==
  ASSUME TypeOK, Labels, OfferedRideHasDriver, NEW p \in Calls,
         \/ \E d \in Drivers : TapOnline(p, d) \/ TapOffline(p, d)
         \/ GoOnline(p) \/ OfflineReadRide(p) \/ LeaveOffer(p)
         \/ GoOffline(p) \/ HealCheck(p) \/ Heal(p)
  PROVE  TypeOK'
  <1> USE DEF Running
  <1>0. call[p] \in CallType
    BY DEF TypeOK
  <1>1. ASSUME NEW d \in Drivers, TapOnline(p, d) \/ TapOffline(p, d) PROVE TypeOK'
    <2>1. ASSUME NEW label \in Pc
          PROVE  [Idle EXCEPT !.pc = label, !.driver = d, !.ride = current[d]] \in CallType
      BY IdleType DEF CallType, TypeOK
    <2>2. call' \in [Calls -> CallType]
      BY <1>1, <2>1, BecomeType DEF TapOnline, TapOffline, Pc
    <2> QED BY <1>1, <2>2, CallFrameType DEF TapOnline, TapOffline, Frame
  <1>2. CASE GoOnline(p)
    <2>1. call' \in [Calls -> CallType]
      BY <1>2, ReturnType DEF GoOnline
    <2> QED BY <1>2, <2>1 DEF GoOnline, TypeOK, rideVars
  <1>3. CASE OfflineReadRide(p)
    <2>1. [call[p] EXCEPT !.pc = "leave", !.leaving = call[p].driver] \in CallType
      BY <1>0 DEF CallType, Pc
    <2>2. call' \in [Calls -> CallType]
      BY <1>3, <2>1, BecomeType, ReturnType, GotoType DEF OfflineReadRide, Pc
    <2> QED BY <1>3, <2>2, CallFrameType DEF OfflineReadRide, Frame
  <1>4. CASE LeaveOffer(p)
    <2>1. CASE EndAssignment(p, FALSE)
      BY <1>4, <2>1, EndAssignmentType DEF LeaveOffer, Labels, LabelOK
    <2>2. CASE Return(p) /\ UNCHANGED Frame
      BY <2>2, ReturnType, CallFrameType
    <2> QED BY <1>4, <2>1, <2>2 DEF LeaveOffer, Frame
  <1>5. CASE GoOffline(p)
    <2>1. call[p].driver \in Drivers
      BY <1>5 DEF GoOffline, Labels, LabelOK
    <2>2. [Idle EXCEPT !.pc = "healCheck", !.driver = call[p].driver,
                       !.ride = current[call[p].driver]] \in CallType
      BY <2>1, IdleType DEF CallType, Pc, TypeOK
    <2>3. call' \in [Calls -> CallType]
      BY <1>5, <2>2, IdleType, BecomeType DEF GoOffline
    <2> QED BY <1>5, <2>3 DEF GoOffline, TypeOK, rideVars
  <1>6. CASE HealCheck(p)
    BY <1>6, ReturnType, GotoType, CallFrameType DEF HealCheck, Frame, Pc
  <1>7. CASE Heal(p)
    <2>1. call' \in [Calls -> CallType]
      BY <1>7, ReturnType DEF Heal
    <2> QED BY <1>7, <2>1 DEF Heal, TypeOK, rideVars
  <1> QED BY <1>1, <1>2, <1>3, <1>4, <1>5, <1>6, <1>7

LEMMA EnvironmentType ==
  ASSUME TypeOK,
         \/ \E d \in Drivers : Suspend(d) \/ Reinstate(d)
         \/ \E r \in Rides : OfferLapses(r) \/ SearchLapses(r)
         \/ \E p \in Calls : AssignError(p) \/ Fail(p)
  PROVE  TypeOK'
  <1>1. ASSUME NEW d \in Drivers, Suspend(d) \/ Reinstate(d) PROVE TypeOK'
    BY <1>1 DEF Suspend, Reinstate, TypeOK, rideVars
  <1>2. ASSUME NEW r \in Rides, OfferLapses(r) \/ SearchLapses(r) PROVE TypeOK'
    BY <1>2 DEF OfferLapses, SearchLapses, TypeOK, driverVars
  <1>3. ASSUME NEW p \in Calls, AssignError(p) \/ Fail(p) PROVE TypeOK'
    <2>1. [call[p] EXCEPT !.pc = "release", !.after = "done", !.leaving = NoDriver] \in CallType
      <3>1. call[p] \in CallType
        BY DEF TypeOK
      <3> QED BY <3>1 DEF CallType, Pc
    <2>2. call' \in [Calls -> CallType]
      BY <1>3, <2>1, IdleType, BecomeType DEF AssignError, Fail
    <2>3. failures' = failures + 1 /\ failures < MaxFailures /\ failures \in 0..MaxFailures
      BY <1>3 DEF AssignError, Fail, TypeOK
    <2>4. failures' \in 0..MaxFailures
      BY <2>3
    <2>5. UNCHANGED <<rideVars, driverVars>>
      BY <1>3 DEF AssignError, Fail
    <2> QED BY <2>2, <2>4, <2>5 DEF TypeOK, rideVars, driverVars
  <1> QED BY <1>1, <1>2, <1>3

LEMMA StutterType == TypeOK /\ UNCHANGED vars => TypeOK'
  BY DEF TypeOK, vars, rideVars, driverVars

LEMMA TypeStep ==
  TypeOK /\ Labels /\ OfferedRideHasDriver /\ [Next]_vars => TypeOK'
  <1> SUFFICES ASSUME TypeOK, Labels, OfferedRideHasDriver, [Next]_vars
               PROVE  TypeOK'
    OBVIOUS
  <1>1. ASSUME NEW p \in Calls, CallStep(p) PROVE TypeOK'
    BY <1>1, BookingType, DispatchType, ReleasesType, OfferType, FinishType,
       CancelType, DutyType DEF CallStep
  <1>2. ASSUME NEW p \in Calls, Request(p) PROVE TypeOK'
    BY <1>2, BookingType, OfferType, FinishType, CancelType, DutyType DEF Request
  <1>3. ASSUME NEW p \in Calls, Background(p) PROVE TypeOK'
    BY <1>3, DispatchType, OfferType DEF Background
  <1> QED BY <1>1, <1>2, <1>3, TripType, EnvironmentType, StutterType DEF Next

-----------------------------------------------------------------------------
(* The invariant is inductive.                                             *)

THEOREM InitIInv == Init => IInv
  <1> SUFFICES ASSUME Init PROVE IInv
    OBVIOUS
  <1>1. TypeOK
    BY InitTypeOK
  <1>2. /\ Labels
        /\ OfferedRideHasDriver
        /\ UnbookedIsUnknown
        /\ HealedRideIsOver
        /\ SuspendedIsFree
    BY DEF Init, Idle, Labels, LabelOK, OfferedRideHasDriver, UnbookedIsUnknown,
           HealedRideIsOver, SuspendedIsFree, Running, DRIVER_ENGAGED_STATUSES
  <1>3. AssignedDriverIsReserved /\ ClaimsAreOwned
    BY DEF Init, AssignedDriverIsReserved, ClaimsAreOwned, Active, RideStatus
  <1> QED BY <1>1, <1>2, <1>3 DEF IInv

\* A ride that only moves on: it was open, and if it is now with a driver it
\* has one.
OnDuty == {"DRIVER_ASSIGNED"} \cup DRIVER_ENGAGED_STATUSES
MovesOn(r) ==
  \/ status'[r] = status[r]
  \/ /\ Active(r)
     /\ status'[r] \in RideStatus
     /\ status'[r] \in OnDuty => driverOf[r] \in Drivers

\* Most steps change one call and let rides move on.  Such a step keeps the
\* invariant when the new call is labelled correctly and claims nobody it did
\* not claim before.
LEMMA QuietStep ==
  ASSUME IInv, TypeOK', NEW p \in Calls, NEW c \in CallType, Become(p, c),
         UNCHANGED <<driverOf, rejected, current, approved>>,
         \A r \in Rides : MovesOn(r),
         LabelOK(c),
         c.pc # "insert" /\ c.ride \in Rides => status[c.ride] # "NONE",
         c.pc = "heal" => status[c.ride] \in TERMINAL_RIDE_STATUSES,
         c.pc \in Claiming =>
           \/ status'[c.ride] \in TERMINAL_RIDE_STATUSES
           \/ Holds(p, c.ride, c.driver)
  PROVE  IInv'
  <1> USE DEF Running, Become
  <1>1. Labels'
    BY DEF IInv, Labels, LabelOK, TypeOK
  <1>2. OfferedRideHasDriver'
    BY DEF IInv, OfferedRideHasDriver, MovesOn, OnDuty
  <1>3. UnbookedIsUnknown'
    BY DEF IInv, UnbookedIsUnknown, MovesOn, Active, TypeOK, RideStatus
  <1>4. \A r \in Rides : Active(r)' => Active(r)
    BY DEF MovesOn, Active
  <1>5. AssignedDriverIsReserved'
    BY <1>4 DEF IInv, AssignedDriverIsReserved
  <1>6. ASSUME NEW q \in Calls, NEW r \in Rides, NEW d \in Drivers,
               Holds(q, r, d)', Active(r)'
        PROVE  Holds(q, r, d)
    BY <1>6 DEF Holds, IInv, TypeOK, Active
  <1>7. ClaimsAreOwned'
    <2> SUFFICES ASSUME NEW q \in Calls, NEW r \in Rides, NEW d \in Drivers,
                        Holds(q, r, d)', Active(r)'
                 PROVE  /\ current'[d] = r
                        /\ driverOf'[r] # d
                        /\ \A q2 \in Calls : Holds(q2, r, d)' => q2 = q
      BY DEF ClaimsAreOwned
    <2> QED BY <1>4, <1>6 DEF IInv, ClaimsAreOwned
  <1>8. HealedRideIsOver'
    BY DEF IInv, HealedRideIsOver, TypeOK, Labels, LabelOK, MovesOn, Active
  <1>9. SuspendedIsFree'
    BY DEF IInv, SuspendedIsFree
  <1> QED BY <1>1, <1>2, <1>3, <1>5, <1>7, <1>8, <1>9 DEF IInv

\* What Return leaves in the slot of the call.
LEMMA ReturnCall ==
  ASSUME TypeOK, NEW p \in Calls, Return(p)
  PROVE  \E c \in CallType : /\ Become(p, c) /\ LabelOK(c)
                             /\ c.pc \in {"idle", "offline"} /\ c.ride = NoRide
  <1>1. CASE call[p].leaving = NoDriver
    BY <1>1, IdleType DEF Return, Idle, LabelOK
  <1>2. CASE call[p].leaving # NoDriver
    <2> DEFINE off == [Idle EXCEPT !.pc = "offline", !.driver = call[p].leaving]
    <2>1. call[p].leaving \in Drivers
      BY <1>2 DEF TypeOK, CallType
    <2>2. /\ off \in CallType /\ off.pc = "offline"
          /\ off.ride = NoRide /\ off.driver = call[p].leaving
      BY <2>1, IdleType DEF CallType, Pc, Idle
    <2>3. Become(p, off)
      BY <1>2 DEF Return
    <2> HIDE DEF off
    <2> QED BY <2>1, <2>2, <2>3 DEF LabelOK
  <1> QED BY <1>1, <1>2

\* Three frequent ends of a handler's step.
LEMMA QuietReturn ==
  ASSUME IInv, TypeOK', NEW p \in Calls, Return(p),
         UNCHANGED <<driverOf, rejected, current, approved>>, \A r \in Rides : MovesOn(r)
  PROVE  IInv'
  <1>1. PICK c \in CallType : /\ Become(p, c) /\ LabelOK(c)
                              /\ c.pc \in {"idle", "offline"} /\ c.ride = NoRide
    BY ReturnCall DEF IInv
  <1> QED BY <1>1, QuietStep DEF Claiming

LEMMA QuietGoto ==
  ASSUME IInv, TypeOK', NEW p \in Calls, NEW label \in Pc \ {"heal", "insert"},
         Goto(p, label), call[p].ride \in Rides, call[p].driver \in Drivers,
         call[p].pc # "insert",
         label \in Claiming => call[p].pc \in Claiming,
         UNCHANGED <<driverOf, rejected, current, approved>>, \A r \in Rides : MovesOn(r)
  PROVE  IInv'
  <1> DEFINE c == [call[p] EXCEPT !.pc = label]
  <1>1. call[p] \in CallType
    BY DEF IInv, TypeOK
  <1>2. /\ c \in CallType
        /\ c.pc = label /\ c.ride = call[p].ride /\ c.driver = call[p].driver
    BY <1>1 DEF CallType
  <1>3. Become(p, c)
    BY DEF Goto
  <1>4. status[call[p].ride] # "NONE"
    BY DEF IInv, UnbookedIsUnknown, Running
  <1> HIDE DEF c
  <1>5. LabelOK(c)
    BY <1>2 DEF LabelOK
  <1>6. c.pc \in Claiming => Holds(p, c.ride, c.driver)
    BY <1>2 DEF Holds
  <1> QED BY <1>2, <1>3, <1>4, <1>5, <1>6, QuietStep

\* A release by a handler that has just ended the ride claims nobody.
LEMMA QuietRelease ==
  ASSUME IInv, TypeOK', NEW p \in Calls, NEW d \in Drivers,
         NEW after \in {"done", "redispatch", "credit"}, Release(p, d, after),
         call[p].ride \in Rides, call[p].pc # "insert",
         \/ status'[call[p].ride] \in TERMINAL_RIDE_STATUSES
         \/ Holds(p, call[p].ride, d),
         UNCHANGED <<driverOf, rejected, current, approved>>, \A r \in Rides : MovesOn(r)
  PROVE  IInv'
  <1> DEFINE c == [call[p] EXCEPT !.pc = "release", !.driver = d, !.after = after]
  <1>1. call[p] \in CallType
    BY DEF IInv, TypeOK
  <1>2. /\ c \in CallType
        /\ c.pc = "release" /\ c.ride = call[p].ride /\ c.driver = d
    BY <1>1 DEF CallType, Pc
  <1>3. Become(p, c)
    BY DEF Release
  <1>4. status[call[p].ride] # "NONE"
    BY DEF IInv, UnbookedIsUnknown, Running
  <1> HIDE DEF c
  <1>5. LabelOK(c)
    BY <1>2 DEF LabelOK
  <1> QED BY <1>2, <1>3, <1>4, <1>5, QuietStep

\* A step that changes nothing but its call lets every ride move on.
LEMMA FrameQuiet ==
  ASSUME UNCHANGED Frame
  PROVE  /\ UNCHANGED <<driverOf, rejected, current, approved>>
         /\ \A r \in Rides : MovesOn(r)
  BY DEF Frame, rideVars, driverVars, MovesOn

\* A request or a timer starts a handler that claims nobody.
LEMMA StartedCall ==
  ASSUME IInv, TypeOK', NEW p \in Calls, NEW c \in CallType, Become(p, c),
         UNCHANGED Frame, LabelOK(c), c.pc \notin Claiming \cup {"heal"},
         c.pc # "insert" /\ c.ride \in Rides => status[c.ride] # "NONE"
  PROVE  IInv'
  BY FrameQuiet, QuietStep

LEMMA BookingStarts ==
  ASSUME IInv, TypeOK', NEW p \in Calls, NEW r \in Rides, Book(p, r)
  PROVE  IInv'
  <1> DEFINE c == [Idle EXCEPT !.pc = "insert", !.ride = r]
  <1>1. c \in CallType /\ c.pc = "insert"
    BY IdleType DEF CallType, Pc
  <1>2. LabelOK(c)
    BY DEF LabelOK, Idle
  <1>3. Become(p, c) /\ UNCHANGED Frame
    BY DEF Book, Frame
  <1> HIDE DEF c
  <1> QED BY <1>1, <1>2, <1>3, StartedCall DEF Claiming

LEMMA AnswerStarts ==
  ASSUME IInv, TypeOK', NEW p \in Calls, NEW r \in Rides, NEW d \in Drivers,
         NEW label \in {"accept", "reject", "timeout", "finish"},
         Become(p, [Idle EXCEPT !.pc = label, !.ride = r, !.driver = d]),
         UNCHANGED Frame, status[r] # "NONE"
  PROVE  IInv'
  <1> DEFINE c == [Idle EXCEPT !.pc = label, !.ride = r, !.driver = d]
  <1>1. c \in CallType /\ c.pc = label /\ c.ride = r
    BY IdleType DEF CallType, Pc
  <1>2. LabelOK(c)
    BY DEF LabelOK, Idle
  <1> HIDE DEF c
  <1>3. Become(p, c)
    BY DEF c
  <1> QED BY <1>1, <1>2, <1>3, StartedCall DEF Claiming

LEMMA OfferedIsBooked ==
  ASSUME IInv, NEW r \in Rides, NEW d \in Drivers, WasOffered(r, d)
  PROVE  status[r] # "NONE"
  BY DEF IInv, UnbookedIsUnknown, WasOffered

LEMMA SettleStep ==
  ASSUME IInv, TypeOK', NEW p \in Calls, NEW r \in Rides, Settle(p, r)
  PROVE  IInv'
  <1>1. UNCHANGED Frame /\ status[r] # "NONE"
    BY DEF Settle, Frame
  <1>2. CASE Become(p, [Idle EXCEPT !.pc = "timeout", !.ride = r, !.driver = driverOf[r]])
             /\ status[r] = "DRIVER_ASSIGNED"
    <2>1. driverOf[r] \in Drivers
      BY <1>2 DEF IInv, OfferedRideHasDriver
    <2> QED BY <1>1, <1>2, <2>1, AnswerStarts
  <1>3. CASE Become(p, [Idle EXCEPT !.pc = "expire", !.ride = r])
    <2> DEFINE c == [Idle EXCEPT !.pc = "expire", !.ride = r]
    <2>1. c \in CallType /\ c.pc = "expire" /\ c.ride = r
      BY IdleType DEF CallType, Pc
    <2>2. LabelOK(c)
      BY DEF LabelOK, Idle
    <2> HIDE DEF c
    <2>3. Become(p, c)
      BY <1>3 DEF c
    <2> QED BY <1>1, <2>1, <2>2, <2>3, StartedCall DEF Claiming
  <1> QED BY <1>2, <1>3 DEF Settle

LEMMA FinishStep ==
  ASSUME IInv, TypeOK', NEW p \in Calls,
         (\E r \in Rides : FinishRead(p, r)) \/ Finish(p)
  PROVE  IInv'
  <1>1. ASSUME NEW r \in Rides, FinishRead(p, r) PROVE IInv'
    <2>1. driverOf[r] \in Drivers
      BY <1>1 DEF FinishRead, IInv, OfferedRideHasDriver, DRIVER_ENGAGED_STATUSES
    <2> QED BY <1>1, <2>1, AnswerStarts DEF FinishRead, Frame
  <1>2. CASE Finish(p)
    <2>1. /\ call[p].ride \in Rides /\ call[p].driver \in Drivers
          /\ call[p].pc = "finish"
      BY <1>2 DEF Finish, Running, IInv, Labels, LabelOK
    <2>2. UNCHANGED <<driverOf, rejected, current, approved>>
      BY <1>2 DEF Finish, driverVars
    <2>3. CASE Return(p) /\ UNCHANGED status
      BY <2>2, <2>3, QuietReturn DEF MovesOn
    <2>4. CASE /\ Apply(call[p].ride, "RIDE_STARTED", "COMPLETED")
               /\ Release(p, call[p].driver, "credit")
      <3>1. \A r \in Rides : MovesOn(r)
        BY <2>1, <2>4 DEF Apply, MovesOn, Active, RideStatus, OnDuty, IInv, TypeOK,
              TERMINAL_RIDE_STATUSES, DRIVER_ENGAGED_STATUSES
      <3>2. status'[call[p].ride] \in TERMINAL_RIDE_STATUSES
        BY <2>1, <2>4 DEF Apply, IInv, TypeOK, TERMINAL_RIDE_STATUSES
      <3> QED BY <2>1, <2>2, <2>4, <3>1, <3>2, QuietRelease
    <2> QED BY <1>2, <2>3, <2>4 DEF Finish
  <1> QED BY <1>1, <1>2

\* Every write of apply out of an active status lets the ride move on.
LEMMA ApplyMovesOn ==
  ASSUME TypeOK, NEW r \in Rides, NEW from \in RideStatus \ TERMINAL_RIDE_STATUSES,
         NEW to \in RideStatus, Apply(r, from, to),
         to \in OnDuty => driverOf[r] \in Drivers
  PROVE  (\A s \in Rides : MovesOn(s)) /\ status'[r] = to
  BY DEF Apply, MovesOn, Active, TypeOK

LEMMA AnswerStep ==
  ASSUME IInv, TypeOK', NEW p \in Calls,
         \/ \E r \in Rides, d \in Drivers : TapAccept(p, r, d) \/ TapReject(p, r, d)
         \/ Accept(p) \/ ExplainOfferFailure(p)
  PROVE  IInv'
  <1>1. ASSUME NEW r \in Rides, NEW d \in Drivers, TapAccept(p, r, d) \/ TapReject(p, r, d)
        PROVE  IInv'
    BY <1>1, OfferedIsBooked, AnswerStarts DEF TapAccept, TapReject, Frame
  <1>2. ASSUME Accept(p) \/ ExplainOfferFailure(p)
        PROVE  /\ call[p].ride \in Rides /\ call[p].driver \in Drivers
               /\ call[p].pc \in {"accept", "explain"}
    BY <1>2 DEF Accept, ExplainOfferFailure, Running, IInv, Labels, LabelOK
  <1>3. CASE Accept(p)
    <2>1. UNCHANGED <<driverOf, rejected, current, approved>>
      BY <1>3 DEF Accept, driverVars
    <2>2. CASE Apply(call[p].ride, "DRIVER_ASSIGNED", "DRIVER_ACCEPTED") /\ Return(p)
      <3>1. driverOf[call[p].ride] \in Drivers
        BY <1>2, <1>3, <2>2 DEF IInv, OfferedRideHasDriver, Apply
      <3>2. \A r \in Rides : MovesOn(r)
        BY <1>2, <1>3, <2>2, <3>1, ApplyMovesOn DEF IInv, RideStatus, TERMINAL_RIDE_STATUSES
      <3> QED BY <2>1, <2>2, <3>2, QuietReturn
    <2>3. CASE Goto(p, "explain") /\ UNCHANGED status
      BY <1>2, <1>3, <2>1, <2>3, QuietGoto DEF MovesOn, Pc, Claiming
    <2> QED BY <1>3, <2>2, <2>3 DEF Accept
  <1>4. CASE ExplainOfferFailure(p)
    BY <1>2, <1>4, FrameQuiet, QuietGoto, QuietReturn
       DEF ExplainOfferFailure, Frame, Pc, Claiming
  <1> QED BY <1>1, <1>3, <1>4

\* A step that changes no call: rides move on, or duty and deadlines change.
LEMMA StillStep ==
  ASSUME IInv, TypeOK', UNCHANGED <<driverOf, rejected, current, call>>,
         \A r \in Rides : MovesOn(r), SuspendedIsFree'
  PROVE  IInv'
  <1>1. \A r \in Rides : Active(r)' => Active(r)
    BY DEF MovesOn, Active
  <1>2. Labels' /\ OfferedRideHasDriver'
    BY DEF IInv, Labels, OfferedRideHasDriver, MovesOn, OnDuty
  <1>3. UnbookedIsUnknown'
    BY DEF IInv, UnbookedIsUnknown, Running, MovesOn, RideStatus
  <1>4. AssignedDriverIsReserved'
    BY <1>1 DEF IInv, AssignedDriverIsReserved
  <1>5. ClaimsAreOwned'
    BY <1>1 DEF IInv, ClaimsAreOwned, Holds
  <1>6. HealedRideIsOver'
    BY DEF IInv, HealedRideIsOver, Running, Labels, LabelOK, MovesOn, Active
  <1> QED BY <1>2, <1>3, <1>4, <1>5, <1>6 DEF IInv

LEMMA TripStep ==
  ASSUME IInv, TypeOK', NEW r \in Rides, Arrived(r) \/ Start(r)
  PROVE  IInv'
  <1>1. /\ UNCHANGED <<driverOf, rejected, current, approved, call>>
        /\ driverOf[r] \in Drivers
    BY DEF Arrived, Start, DriverMoves, driverVars
  <1>2. \A s \in Rides : MovesOn(s)
    BY <1>1, ApplyMovesOn DEF Arrived, Start, DriverMoves, RideStatus,
       TERMINAL_RIDE_STATUSES, IInv
  <1>3. SuspendedIsFree'
    BY <1>1 DEF IInv, SuspendedIsFree
  <1> QED BY <1>1, <1>2, <1>3, StillStep

\* A booking opens a ride nobody refers to.
LEMMA InsertStep ==
  ASSUME IInv, TypeOK', NEW p \in Calls, InsertRide(p)
  PROVE  IInv'
  <1> DEFINE r == call[p].ride
             c == [call[p] EXCEPT !.pc = "dispatch"]
  <1>1. r \in Rides /\ call[p] \in CallType
    BY DEF InsertRide, Running, IInv, Labels, LabelOK, TypeOK
  <1>2. UNCHANGED <<driverOf, rejected, current, approved>>
    BY DEF InsertRide, driverVars
  <1>3. CASE Return(p) /\ UNCHANGED status
    BY <1>2, <1>3, QuietReturn DEF MovesOn
  <1>4. CASE /\ status[r] = "NONE"
             /\ status' = [status EXCEPT ![r] = "SEARCHING"]
             /\ Goto(p, "dispatch")
    <2>1. /\ c \in CallType /\ c.pc = "dispatch" /\ c.ride = r
          /\ call' = [call EXCEPT ![p] = c]
      BY <1>1, <1>4 DEF CallType, Pc, Goto, Become
    <2> HIDE DEF c
    <2>2. /\ driverOf[r] = NoDriver
          /\ \A q \in Calls \ {p} : call[q].ride = r => call[q].pc = "insert"
      BY <1>1, <1>4 DEF IInv, UnbookedIsUnknown, Running
    <2>3. \A q \in Calls, s \in Rides, d \in Drivers : Holds(q, s, d)' => Holds(q, s, d) /\ s # r
      BY <1>1, <2>1, <2>2 DEF Holds, Claiming, IInv, TypeOK
    <2>4. \A s \in Rides : Active(s)' => s = r \/ Active(s)
      BY <1>1, <1>4 DEF Active, IInv, TypeOK
    <2>5. Labels'
      BY <1>1, <2>1 DEF Labels, LabelOK, IInv, TypeOK
    <2>6. OfferedRideHasDriver'
      BY <1>1, <1>2, <1>4 DEF IInv, TypeOK, OfferedRideHasDriver, DRIVER_ENGAGED_STATUSES
    <2>7. UnbookedIsUnknown'
      BY <1>1, <1>2, <1>4, <2>1 DEF IInv, TypeOK, UnbookedIsUnknown, Running
    <2>8. AssignedDriverIsReserved'
      BY <1>1, <1>2, <2>2, <2>4 DEF IInv, AssignedDriverIsReserved
    <2>9. ClaimsAreOwned'
      BY <1>2, <2>3, <2>4 DEF IInv, ClaimsAreOwned
    <2>10. HealedRideIsOver'
      BY <1>1, <1>4, <2>1 DEF IInv, TypeOK, HealedRideIsOver, Running, Labels, LabelOK,
         TERMINAL_RIDE_STATUSES
    <2>11. SuspendedIsFree'
      BY <1>2 DEF IInv, SuspendedIsFree
    <2> QED BY <2>5, <2>6, <2>7, <2>8, <2>9, <2>10, <2>11 DEF IInv
  <1> QED BY <1>3, <1>4 DEF InsertRide, InsertAdmitted

\* Reading the ride and the candidates claims nobody.
LEMMA ReadForDispatchStep ==
  ASSUME IInv, TypeOK', NEW p \in Calls, NEW c \in CallType, c.ride \in Rides,
         ReadForDispatch(p, c)
  PROVE  IInv'
  <1> DEFINE e == [c EXCEPT !.pc = "expire"]
             f == [c EXCEPT !.pc = "find", !.seen = rejected[c.ride]]
  <1>0. UNCHANGED Frame
    BY DEF ReadForDispatch, Frame
  <1>1. e \in CallType /\ e.pc = "expire" /\ e.ride = c.ride
    BY DEF CallType, Pc
  <1>2. f \in CallType /\ f.pc = "find" /\ f.ride = c.ride
    BY DEF CallType, Pc, IInv, TypeOK
  <1>3. \/ Return(p)
        \/ (Become(p, e) \/ Become(p, f)) /\ status[c.ride] = "SEARCHING"
    BY DEF ReadForDispatch
  <1> HIDE DEF e, f
  <1>4. CASE Return(p)
    BY <1>0, <1>4, FrameQuiet, QuietReturn
  <1>5. CASE Become(p, e) /\ status[c.ride] = "SEARCHING"
    BY <1>0, <1>1, <1>5, StartedCall DEF LabelOK, Claiming
  <1>6. CASE Become(p, f) /\ status[c.ride] = "SEARCHING"
    BY <1>0, <1>2, <1>6, StartedCall DEF LabelOK, Claiming
  <1> QED BY <1>3, <1>4, <1>5, <1>6

LEMMA SearchStep ==
  ASSUME IInv, TypeOK', NEW p \in Calls,
         \/ Dispatch(p) \/ (\E r \in Rides : DispatchOpenSearch(p, r))
         \/ FindCandidates(p) \/ ExpireSearch(p)
  PROVE  IInv'
  <1>0. call[p] \in CallType
    BY DEF IInv, TypeOK
  <1>1. CASE Dispatch(p)
    BY <1>0, <1>1, ReadForDispatchStep DEF Dispatch, Running, IInv, Labels, LabelOK
  <1>2. ASSUME NEW r \in Rides, DispatchOpenSearch(p, r) PROVE IInv'
    <2>1. [Idle EXCEPT !.ride = r] \in CallType /\ [Idle EXCEPT !.ride = r].ride = r
      BY IdleType DEF CallType
    <2> QED BY <1>2, <2>1, ReadForDispatchStep DEF DispatchOpenSearch
  <1>3. CASE FindCandidates(p)
    <2>0. UNCHANGED Frame
      BY <1>3 DEF FindCandidates, Frame
    <2>1. ASSUME NEW near \in SUBSET Drivers,
                 Become(p, [call[p] EXCEPT !.pc = "reserve", !.seen = near])
          PROVE  IInv'
      <3> DEFINE c == [call[p] EXCEPT !.pc = "reserve", !.seen = near]
      <3>1. c \in CallType /\ c.pc = "reserve" /\ c.ride = call[p].ride
        BY <1>0 DEF CallType, Pc
      <3>2. call[p].ride \in Rides /\ status[call[p].ride] # "NONE"
        BY <1>3 DEF FindCandidates, Running, IInv, Labels, LabelOK, UnbookedIsUnknown
      <3> HIDE DEF c
      <3>3. Become(p, c)
        BY <2>1 DEF c
      <3> QED BY <2>0, <3>1, <3>2, <3>3, StartedCall DEF LabelOK, Claiming
    <2> QED BY <1>3, <2>0, <2>1, FrameQuiet, QuietReturn DEF FindCandidates
  <1>4. CASE ExpireSearch(p)
    <2>1. call[p].ride \in Rides
      BY <1>4 DEF ExpireSearch, Running, IInv, Labels, LabelOK
    <2>2. \A r \in Rides : MovesOn(r)
      BY <1>4, <2>1, ApplyMovesOn DEF ExpireSearch, MovesOn, IInv, RideStatus,
         TERMINAL_RIDE_STATUSES, OnDuty, DRIVER_ENGAGED_STATUSES
    <2> QED BY <1>4, <2>2, QuietReturn DEF ExpireSearch, driverVars
  <1> QED BY <1>1, <1>2, <1>3, <1>4

\* A reservation: the driver pointed at no ride, so nobody has or claims them.
LEMMA ReserveStep ==
  ASSUME IInv, TypeOK', NEW p \in Calls, NEW d \in Drivers, Reserve(p, d)
  PROVE  IInv'
  <1> DEFINE r == call[p].ride
             c == [call[p] EXCEPT !.pc = "assign", !.driver = d]
             k == [call[p] EXCEPT !.seen = call[p].seen \ {d}]
  <1>0. /\ call[p] \in CallType /\ call[p].pc = "reserve"
        /\ r \in Rides /\ status[r] # "NONE"
    BY DEF Reserve, Running, IInv, TypeOK, Labels, LabelOK, UnbookedIsUnknown
  <1>1. CASE (Return(p) \/ Become(p, k)) /\ UNCHANGED Frame
    <2>1. k \in CallType /\ k.pc = "reserve" /\ k.ride = r
      BY <1>0 DEF CallType
    <2> HIDE DEF k
    <2>2. CASE Become(p, k)
      BY <1>0, <1>1, <2>1, <2>2, StartedCall DEF LabelOK, Claiming
    <2> QED BY <1>1, <2>2, FrameQuiet, QuietReturn
  <1>2. CASE /\ Eligible(d)
             /\ current' = [current EXCEPT ![d] = r]
             /\ Become(p, c)
             /\ UNCHANGED <<rideVars, approved>>
    <2>1. /\ c \in CallType /\ c.pc = "assign" /\ c.ride = r /\ c.driver = d
          /\ call' = [call EXCEPT ![p] = c]
      BY <1>0, <1>2 DEF CallType, Pc, Become
    <2> HIDE DEF c
    <2>2. /\ approved[d] /\ current[d] = NoRide
          /\ current'[d] = r
          /\ \A d2 \in Drivers \ {d} : current'[d2] = current[d2]
          /\ UNCHANGED <<status, driverOf, rejected, approved>>
      BY <1>2 DEF Eligible, rideVars, IInv, TypeOK
    <2>3. \A s \in Rides : Active(s) => driverOf[s] # d
      BY <2>2 DEF IInv, AssignedDriverIsReserved
    <2>4. \A q \in Calls, s \in Rides : Active(s) => ~Holds(q, s, d)
      BY <2>2 DEF IInv, ClaimsAreOwned
    <2>5. \A q \in Calls, s \in Rides, d2 \in Drivers :
            Holds(q, s, d2)' => Holds(q, s, d2) \/ (q = p /\ s = r /\ d2 = d)
      BY <2>1 DEF Holds, IInv, TypeOK
    <2>6. \A s \in Rides : Active(s)' <=> Active(s)
      BY <2>2 DEF Active
    <2>7. Labels'
      BY <1>0, <2>1 DEF Labels, LabelOK, IInv, TypeOK
    <2>8. OfferedRideHasDriver'
      BY <2>2 DEF IInv, OfferedRideHasDriver
    <2>9. UnbookedIsUnknown'
      BY <1>0, <2>1, <2>2 DEF IInv, TypeOK, UnbookedIsUnknown, Running
    <2>10. AssignedDriverIsReserved'
      BY <2>2, <2>3, <2>6 DEF IInv, AssignedDriverIsReserved
    <2>11. ClaimsAreOwned'
      <3> SUFFICES ASSUME NEW q \in Calls, NEW s \in Rides, NEW d2 \in Drivers,
                          Holds(q, s, d2)', Active(s)'
                   PROVE  /\ current'[d2] = s
                          /\ driverOf'[s] # d2
                          /\ \A q2 \in Calls : Holds(q2, s, d2)' => q2 = q
        BY DEF ClaimsAreOwned
      <3>1. CASE d2 = d
        BY <2>2, <2>3, <2>4, <2>5, <2>6, <3>1
      <3>2. CASE d2 # d
        BY <2>2, <2>5, <2>6, <3>2 DEF IInv, ClaimsAreOwned
      <3> QED BY <3>1, <3>2
    <2>12. HealedRideIsOver'
      BY <2>1, <2>2 DEF IInv, TypeOK, HealedRideIsOver, Running
    <2>13. SuspendedIsFree'
      BY <2>2 DEF IInv, SuspendedIsFree
    <2> QED BY <2>7, <2>8, <2>9, <2>10, <2>11, <2>12, <2>13 DEF IInv
  <1> QED BY <1>1, <1>2 DEF Reserve, Frame, driverVars

\* The assignment turns the claim of the call into the driver of the ride.
LEMMA AssignStep ==
  ASSUME IInv, TypeOK', NEW p \in Calls, Assign(p)
  PROVE  IInv'
  <1> DEFINE r == call[p].ride
             d == call[p].driver
  <1>0. /\ call[p].pc = "assign" /\ r \in Rides /\ d \in Drivers
        /\ Holds(p, r, d) /\ status[r] # "NONE"
    BY DEF Assign, Running, IInv, Labels, LabelOK, UnbookedIsUnknown, Holds, Claiming
  <1>1. UNCHANGED <<rejected, current, approved>>
    BY DEF Assign, driverVars
  <1>2. CASE Release(p, d, "done") /\ UNCHANGED <<status, driverOf>>
    BY <1>0, <1>1, <1>2, QuietRelease DEF MovesOn
  <1>3. CASE /\ status[r] = "SEARCHING"
             /\ status' = [status EXCEPT ![r] = "DRIVER_ASSIGNED"]
             /\ driverOf' = [driverOf EXCEPT ![r] = d]
             /\ Return(p)
    <2>1. Active(r) /\ \A s \in Rides : Active(s)' <=> Active(s)
      BY <1>0, <1>3 DEF Active, IInv, TypeOK, RideStatus, TERMINAL_RIDE_STATUSES
    <2>2. current[d] = r /\ \A q \in Calls : Holds(q, r, d) => q = p
      BY <1>0, <2>1 DEF IInv, ClaimsAreOwned
    <2>3. PICK c \in CallType : /\ call' = [call EXCEPT ![p] = c] /\ LabelOK(c)
                                /\ c.pc \in {"idle", "offline"} /\ c.ride = NoRide
      BY <1>3, ReturnCall DEF Become, IInv
    <2>4. \A q \in Calls, s \in Rides, d2 \in Drivers :
            Holds(q, s, d2)' => Holds(q, s, d2) /\ q # p
      BY <2>3 DEF Holds, Claiming, IInv, TypeOK
    <2>5. Labels'
      BY <2>3 DEF Labels, LabelOK, IInv, TypeOK
    <2>6. OfferedRideHasDriver'
      BY <1>0, <1>3 DEF IInv, TypeOK, OfferedRideHasDriver
    <2>7. UnbookedIsUnknown'
      BY <1>0, <1>1, <1>3, <2>3 DEF IInv, TypeOK, UnbookedIsUnknown, Running
    <2>8. AssignedDriverIsReserved'
      BY <1>0, <1>1, <1>3, <2>1, <2>2 DEF IInv, TypeOK, AssignedDriverIsReserved
    <2>9. ClaimsAreOwned'
      <3> SUFFICES ASSUME NEW q \in Calls, NEW s \in Rides, NEW d2 \in Drivers,
                          Holds(q, s, d2)', Active(s)'
                   PROVE  /\ current'[d2] = s
                          /\ driverOf'[s] # d2
                          /\ \A q2 \in Calls : Holds(q2, s, d2)' => q2 = q
        BY DEF ClaimsAreOwned
      <3>1. /\ Holds(q, s, d2) /\ q # p
            /\ current[d2] = s /\ driverOf[s] # d2
            /\ \A q2 \in Calls : Holds(q2, s, d2) => q2 = q
        BY <2>1, <2>4 DEF IInv, ClaimsAreOwned
      <3>2. driverOf'[s] # d2
        BY <1>0, <1>3, <2>2, <3>1 DEF IInv, TypeOK
      <3> QED BY <1>1, <2>4, <3>1, <3>2
    <2>10. HealedRideIsOver'
      BY <1>0, <1>3, <2>3 DEF IInv, TypeOK, HealedRideIsOver, Running, Labels, LabelOK,
         TERMINAL_RIDE_STATUSES
    <2>11. SuspendedIsFree'
      BY <1>1 DEF IInv, SuspendedIsFree
    <2> QED BY <2>5, <2>6, <2>7, <2>8, <2>9, <2>10, <2>11 DEF IInv
  <1> QED BY <1>2, <1>3 DEF Assign, Apply

\* Freeing a driver whose pointer is on the ride of the call: whoever may do
\* so either claims them or knows that the ride is over, so no open ride
\* loses its driver and no other call loses its claim.
LEMMA FreeingStep ==
  ASSUME IInv, TypeOK', NEW p \in Calls, NEW c \in CallType, Become(p, c),
         NEW r \in Rides, NEW d \in Drivers,
         \/ Holds(p, r, d)
         \/ ~Active(r),
         current' = [current EXCEPT ![d] = NoRide],
         current[d] = r,
         UNCHANGED <<rideVars, approved>>,
         LabelOK(c), c.pc \notin Claiming \cup {"heal", "insert"},
         c.ride \in Rides => status[c.ride] # "NONE"
  PROVE  IInv'
  <1> USE DEF Running
  <1>1. /\ call' = [call EXCEPT ![p] = c]
        /\ UNCHANGED <<status, driverOf, rejected, approved>>
        /\ current'[d] = NoRide
        /\ \A d2 \in Drivers \ {d} : current'[d2] = current[d2]
    BY DEF Become, rideVars, IInv, TypeOK
  <1>2. \A s \in Rides : Active(s)' <=> Active(s)
    BY <1>1 DEF Active
  <1>3. \A q \in Calls, s \in Rides, d2 \in Drivers :
          Holds(q, s, d2)' => Holds(q, s, d2) /\ q # p
    BY <1>1 DEF Holds, IInv, TypeOK
  <1>4. Labels'
    BY <1>1 DEF Labels, IInv, TypeOK, LabelOK
  <1>5. OfferedRideHasDriver' /\ HealedRideIsOver' /\ SuspendedIsFree'
    BY <1>1 DEF IInv, TypeOK, OfferedRideHasDriver, HealedRideIsOver, SuspendedIsFree
  <1>6. UnbookedIsUnknown'
    BY <1>1 DEF IInv, TypeOK, UnbookedIsUnknown
  <1>7. AssignedDriverIsReserved'
    <2> SUFFICES ASSUME NEW s \in Rides, NEW d2 \in Drivers, Active(s), driverOf[s] = d2
                 PROVE  current'[d2] = s
      BY <1>1, <1>2 DEF AssignedDriverIsReserved
    <2>1. current[d2] = s
      BY DEF IInv, AssignedDriverIsReserved
    <2>2. d2 # d
      BY <2>1 DEF IInv, ClaimsAreOwned
    <2> QED BY <1>1, <2>1, <2>2
  <1>8. ClaimsAreOwned'
    <2> SUFFICES ASSUME NEW q \in Calls, NEW s \in Rides, NEW d2 \in Drivers,
                        Holds(q, s, d2)', Active(s)'
                 PROVE  /\ current'[d2] = s
                        /\ driverOf'[s] # d2
                        /\ \A q2 \in Calls : Holds(q2, s, d2)' => q2 = q
      BY DEF ClaimsAreOwned
    <2>1. /\ Holds(q, s, d2) /\ q # p
          /\ current[d2] = s /\ driverOf[s] # d2
          /\ \A q2 \in Calls : Holds(q2, s, d2) => q2 = q
      BY <1>2, <1>3 DEF IInv, ClaimsAreOwned
    <2>2. d2 # d
      BY <1>2, <2>1
    <2> QED BY <1>1, <1>3, <2>1, <2>2
  <1> QED BY <1>4, <1>5, <1>6, <1>7, <1>8 DEF IInv

LEMMA ReleaseStep ==
  ASSUME IInv, TypeOK', NEW p \in Calls, ReleaseOnline(p) \/ ReleaseOffline(p)
  PROVE  IInv'
  <1> DEFINE r == call[p].ride
             d == call[p].driver
             n == [call[p] EXCEPT !.pc = "dispatch"]
  <1>0. /\ call[p] \in CallType /\ call[p].pc \in {"release", "releaseOffline"}
        /\ r \in Rides /\ d \in Drivers /\ status[r] # "NONE" /\ Holds(p, r, d)
    BY DEF ReleaseOnline, ReleaseOffline, Running, IInv, TypeOK, Labels, LabelOK,
       UnbookedIsUnknown, Holds, Claiming
  <1>1. UNCHANGED <<rideVars, approved>>
    BY DEF ReleaseOnline, ReleaseOffline
  <1>2. /\ UNCHANGED <<driverOf, rejected>>
        /\ \A s \in Rides : MovesOn(s)
    BY <1>1 DEF rideVars, MovesOn
  <1>3. CASE Goto(p, "releaseOffline") /\ UNCHANGED current
    BY <1>0, <1>1, <1>2, <1>3, QuietGoto DEF Pc, Claiming
  <1>4. CASE AfterRelease(p) /\ UNCHANGED current
    BY <1>0, <1>1, <1>2, <1>4, QuietGoto, QuietReturn DEF AfterRelease, Pc, Claiming
  <1>5. CASE /\ AfterRelease(p) /\ current[d] = r
             /\ current' = [current EXCEPT ![d] = NoRide]
    <2>1. CASE Return(p)
      <3>1. PICK c \in CallType : /\ Become(p, c) /\ LabelOK(c)
                                  /\ c.pc \in {"idle", "offline"} /\ c.ride = NoRide
        BY <2>1, ReturnCall DEF IInv
      <3> QED BY <1>0, <1>1, <1>5, <3>1, FreeingStep DEF Claiming
    <2>2. CASE Goto(p, "dispatch")
      <3>1. n \in CallType /\ n.pc = "dispatch" /\ n.ride = r /\ LabelOK(n)
        BY <1>0 DEF CallType, Pc, LabelOK
      <3>2. Become(p, n)
        BY <2>2 DEF Goto
      <3> HIDE DEF n
      <3> QED BY <1>0, <1>1, <1>5, <3>1, <3>2, FreeingStep DEF Claiming
    <2> QED BY <1>5, <2>1, <2>2 DEF AfterRelease
  <1> QED BY <1>3, <1>4, <1>5 DEF ReleaseOnline, ReleaseOffline

\* A withdrawal turns the driver of the ride into the claim of the call.
LEMMA EndAssignmentStep ==
  ASSUME IInv, TypeOK', NEW p \in Calls, NEW overdue, EndAssignment(p, overdue),
         call[p].ride \in Rides, call[p].pc # "insert"
  PROVE  IInv'
  <1> DEFINE r == call[p].ride
             d == call[p].driver
             c == [call[p] EXCEPT !.pc = "release", !.driver = d, !.after = "redispatch"]
  <1> USE DEF Running
  <1>1. /\ status[r] = "DRIVER_ASSIGNED" /\ driverOf[r] = d
        /\ status' = [status EXCEPT ![r] = "SEARCHING"]
        /\ driverOf' = [driverOf EXCEPT ![r] = NoDriver]
        /\ UNCHANGED <<current, approved>>
        /\ \A s \in Rides \ {r} : rejected'[s] = rejected[s]
    BY DEF EndAssignment, Apply, driverVars, IInv, TypeOK
  <1>2. d \in Drivers /\ Active(r) /\ current[d] = r
    BY <1>1 DEF IInv, OfferedRideHasDriver, AssignedDriverIsReserved, Active,
       RideStatus, TERMINAL_RIDE_STATUSES
  <1>3. \A q \in Calls : ~Holds(q, r, d)
    BY <1>1, <1>2 DEF IInv, ClaimsAreOwned
  <1>4. /\ c \in CallType /\ c.pc = "release" /\ c.ride = r /\ c.driver = d
        /\ call' = [call EXCEPT ![p] = c]
    <2>1. call[p] \in CallType
      BY DEF IInv, TypeOK
    <2> QED BY <1>2, <2>1 DEF CallType, Pc, EndAssignment, Release, Become
  <1> HIDE DEF c
  <1>5. \A q \in Calls, s \in Rides, d2 \in Drivers :
          Holds(q, s, d2)' => Holds(q, s, d2) \/ (q = p /\ s = r /\ d2 = d)
    BY <1>4 DEF Holds, IInv, TypeOK
  <1>6. \A s \in Rides : Active(s)' <=> Active(s)
    BY <1>1, <1>2 DEF Active, IInv, TypeOK, RideStatus, TERMINAL_RIDE_STATUSES
  <1>7. Labels'
    BY <1>2, <1>4 DEF Labels, LabelOK, IInv, TypeOK
  <1>8. OfferedRideHasDriver'
    BY <1>1 DEF IInv, TypeOK, OfferedRideHasDriver, DRIVER_ENGAGED_STATUSES
  <1>9. UnbookedIsUnknown'
    <2> SUFFICES ASSUME NEW s \in Rides, status'[s] = "NONE"
                 PROVE  /\ driverOf'[s] = NoDriver /\ rejected'[s] = {}
                        /\ \A d2 \in Drivers : current'[d2] # s
                        /\ \A q \in Calls : call'[q].ride = s => call'[q].pc = "insert"
      BY DEF UnbookedIsUnknown
    <2>1. s # r /\ status[s] = "NONE"
      BY <1>1 DEF IInv, TypeOK
    <2> QED BY <1>1, <1>4, <2>1 DEF IInv, TypeOK, UnbookedIsUnknown
  <1>10. AssignedDriverIsReserved'
    BY <1>1, <1>6 DEF IInv, TypeOK, AssignedDriverIsReserved
  <1>11. ClaimsAreOwned'
    <2> SUFFICES ASSUME NEW q \in Calls, NEW s \in Rides, NEW d2 \in Drivers,
                        Holds(q, s, d2)', Active(s)'
                 PROVE  /\ current'[d2] = s
                        /\ driverOf'[s] # d2
                        /\ \A q2 \in Calls : Holds(q2, s, d2)' => q2 = q
      BY DEF ClaimsAreOwned
    <2>1. CASE s = r /\ d2 = d
      BY <1>1, <1>2, <1>3, <1>5, <2>1 DEF IInv, TypeOK
    <2>2. CASE ~(s = r /\ d2 = d)
      BY <1>1, <1>5, <1>6, <2>2 DEF IInv, TypeOK, ClaimsAreOwned
    <2> QED BY <2>1, <2>2
  <1>12. HealedRideIsOver'
    BY <1>1, <1>4 DEF IInv, TypeOK, HealedRideIsOver, Labels, LabelOK, TERMINAL_RIDE_STATUSES
  <1>13. SuspendedIsFree'
    BY <1>1 DEF IInv, SuspendedIsFree
  <1> QED BY <1>7, <1>8, <1>9, <1>10, <1>11, <1>12, <1>13 DEF IInv

LEMMA WithdrawalStep ==
  ASSUME IInv, TypeOK', NEW p \in Calls, Timeout(p) \/ Reject(p) \/ LeaveOffer(p)
  PROVE  IInv'
  <1>1. /\ call[p].ride \in Rides /\ call[p].driver \in Drivers
        /\ call[p].pc \in {"timeout", "reject", "leave"}
    BY DEF Timeout, Reject, LeaveOffer, Running, IInv, Labels, LabelOK
  <1>2. CASE EndAssignment(p, TRUE) \/ EndAssignment(p, FALSE)
    BY <1>1, <1>2, EndAssignmentStep
  <1>3. CASE (Return(p) \/ Goto(p, "explain")) /\ UNCHANGED Frame
    BY <1>1, <1>3, FrameQuiet, QuietReturn, QuietGoto DEF Pc, Claiming
  <1> QED BY <1>2, <1>3 DEF Timeout, Reject, LeaveOffer, Frame

\* A cancellation releases a driver of a ride that is already over.
LEMMA ReadForCancelStep ==
  ASSUME IInv, TypeOK', NEW p \in Calls, NEW c \in CallType, c.ride \in Rides,
         ReadForCancel(p, c)
  PROVE  IInv'
  <1> DEFINE k == [c EXCEPT !.pc = "cancel", !.from = status[c.ride],
                            !.driver = driverOf[c.ride]]
  <1>0. UNCHANGED Frame
    BY DEF ReadForCancel, Frame
  <1>1. CASE Return(p)
    BY <1>0, <1>1, FrameQuiet, QuietReturn
  <1>2. CASE Become(p, k) /\ status[c.ride] \in Cancellable(c.actor)
    <2>1. k \in CallType /\ k.pc = "cancel" /\ k.ride = c.ride
      <3>1. /\ status[c.ride] \in RideStatus \cup {"NONE"}
            /\ driverOf[c.ride] \in Drivers \cup {NoDriver}
        BY DEF IInv, TypeOK
      <3> QED BY <3>1 DEF CallType, Pc
    <2>2. status[c.ride] # "NONE"
      BY <1>2 DEF Cancellable, CUSTOMER_CANCELLABLE_STATUSES, DRIVER_CANCELLABLE_STATUSES
    <2> HIDE DEF k
    <2> QED BY <1>0, <1>2, <2>1, <2>2, StartedCall DEF LabelOK, Claiming
  <1> QED BY <1>1, <1>2 DEF ReadForCancel

LEMMA CancelStep ==
  ASSUME IInv, TypeOK', NEW p \in Calls,
         \/ \E r \in Rides, actor \in {"CUSTOMER", "DRIVER", "ADMIN"} : TapCancel(p, r, actor)
         \/ CancelReread(p) \/ Cancel(p)
  PROVE  IInv'
  <1>0. call[p] \in CallType
    BY DEF IInv, TypeOK
  <1>1. ASSUME NEW r \in Rides, NEW actor \in {"CUSTOMER", "DRIVER", "ADMIN"},
               TapCancel(p, r, actor)
        PROVE  IInv'
    <2> DEFINE n == IF actor = "ADMIN" THEN 1 ELSE MaxCancelRetries
               c == [Idle EXCEPT !.ride = r, !.actor = actor, !.tries = n]
    <2>1. n \in 0..MaxCancelRetries
      OBVIOUS
    <2>2. c \in CallType /\ c.ride = r
      BY <2>1, IdleType DEF CallType
    <2> HIDE DEF c
    <2>3. ReadForCancel(p, c)
      BY <1>1 DEF TapCancel, c
    <2> QED BY <2>2, <2>3, ReadForCancelStep
  <1>2. CASE CancelReread(p)
    BY <1>0, <1>2, ReadForCancelStep DEF CancelReread, Running, IInv, Labels, LabelOK
  <1>3. CASE Cancel(p)
    <2> DEFINE c == call[p]
               k == [c EXCEPT !.pc = "cancelRead", !.tries = @ - 1]
    <2>0. c.ride \in Rides /\ c.pc = "cancel" /\ status[c.ride] # "NONE"
      BY <1>3 DEF Cancel, Running, IInv, Labels, LabelOK, UnbookedIsUnknown
    <2>1. UNCHANGED <<driverOf, rejected, current, approved>>
      BY <1>3 DEF Cancel, driverVars
    <2>2. CASE /\ Apply(c.ride, c.from, "CANCELLED")
               /\ IF c.driver # NoDriver THEN Release(p, c.driver, "done") ELSE Return(p)
      <3>1. c.from \in RideStatus \ TERMINAL_RIDE_STATUSES
        BY <2>2 DEF Apply, CanTransition, RideStatus, TERMINAL_RIDE_STATUSES
      <3>2. (\A r \in Rides : MovesOn(r)) /\ status'[c.ride] = "CANCELLED"
        BY <2>0, <2>2, <3>1, ApplyMovesOn DEF IInv, RideStatus, OnDuty, DRIVER_ENGAGED_STATUSES
      <3>3. CASE c.driver # NoDriver
        <4>1. c.driver \in Drivers
          BY <1>0, <3>3 DEF CallType
        <4> QED BY <2>0, <2>1, <2>2, <3>2, <3>3, <4>1, QuietRelease DEF TERMINAL_RIDE_STATUSES
      <3>4. CASE c.driver = NoDriver
        BY <2>1, <2>2, <3>2, <3>4, QuietReturn
      <3> QED BY <3>3, <3>4
    <2>3. CASE Return(p) /\ UNCHANGED status
      BY <2>1, <2>3, QuietReturn DEF MovesOn
    <2>4. CASE RetriesLeft(c) /\ Become(p, k) /\ UNCHANGED status
      <3>1. c.tries - 1 \in 0..MaxCancelRetries
        BY <1>0, <2>4 DEF RetriesLeft, CallType
      <3>2. k \in CallType /\ k.pc = "cancelRead" /\ k.ride = c.ride
        BY <1>0, <3>1 DEF CallType, Pc
      <3>3. \A r \in Rides : MovesOn(r)
        BY <2>4 DEF MovesOn
      <3>4. Become(p, k)
        BY <2>4
      <3> HIDE DEF k
      <3> QED BY <2>0, <2>1, <3>2, <3>3, <3>4, QuietStep DEF LabelOK, Claiming
    <2> QED BY <1>3, <2>2, <2>3, <2>4 DEF Cancel
  <1> QED BY <1>1, <1>2, <1>3

\* Duty changes read the driver and only ever heal the pointer to a ride that
\* is over.
LEMMA DutyStep ==
  ASSUME IInv, TypeOK', NEW p \in Calls,
         \/ \E d \in Drivers : TapOnline(p, d) \/ TapOffline(p, d)
         \/ GoOnline(p) \/ OfflineReadRide(p) \/ GoOffline(p) \/ HealCheck(p) \/ Heal(p)
  PROVE  IInv'
  <1> USE DEF Running
  <1>0. call[p] \in CallType
    BY DEF IInv, TypeOK
  <1>1. ASSUME NEW d \in Drivers, TapOnline(p, d) \/ TapOffline(p, d) PROVE IInv'
    <2>1. PICK label \in {"goOnline", "offline", "offlineRide"} :
            /\ Become(p, [Idle EXCEPT !.pc = label, !.driver = d, !.ride = current[d]])
            /\ label = "offlineRide" => current[d] # NoRide
            /\ UNCHANGED Frame
      BY <1>1 DEF TapOnline, TapOffline, Frame
    <2> DEFINE c == [Idle EXCEPT !.pc = label, !.driver = d, !.ride = current[d]]
    <2>2. /\ current[d] \in Rides \cup {NoRide}
          /\ current[d] \in Rides => status[current[d]] # "NONE"
      BY DEF IInv, TypeOK, UnbookedIsUnknown
    <2>3. c \in CallType /\ c.pc = label /\ c.ride = current[d] /\ c.driver = d
      BY <2>2, IdleType DEF CallType, Pc
    <2>4. Become(p, c)
      BY <2>1
    <2> HIDE DEF c
    <2>5. LabelOK(c)
      BY <2>1, <2>2, <2>3 DEF LabelOK
    <2> QED BY <2>1, <2>2, <2>3, <2>4, <2>5, StartedCall DEF Claiming
  <1>2. CASE GoOnline(p)
    BY <1>2, QuietReturn DEF GoOnline, rideVars, MovesOn
  <1>3. CASE OfflineReadRide(p)
    <2>0. /\ UNCHANGED Frame
          /\ call[p].ride \in Rides /\ call[p].driver \in Drivers
          /\ call[p].pc = "offlineRide" /\ status[call[p].ride] # "NONE"
      BY <1>3 DEF OfflineReadRide, Frame, IInv, Labels, LabelOK, UnbookedIsUnknown
    <2> DEFINE c == [call[p] EXCEPT !.pc = "leave", !.leaving = call[p].driver]
    <2>1. /\ c \in CallType /\ c.pc = "leave" /\ c.ride = call[p].ride
          /\ c.driver = call[p].driver
      BY <1>0 DEF CallType, Pc
    <2> HIDE DEF c
    <2>2. CASE Become(p, c)
      BY <2>0, <2>1, <2>2, StartedCall DEF LabelOK, Claiming
    <2>3. CASE Return(p) \/ Goto(p, "offline")
      BY <2>0, <2>3, FrameQuiet, QuietReturn, QuietGoto DEF Pc, Claiming
    <2> QED BY <1>3, <2>2, <2>3 DEF OfflineReadRide, c
  <1>4. CASE GoOffline(p)
    <2> DEFINE d == call[p].driver
               c == [Idle EXCEPT !.pc = "healCheck", !.driver = d, !.ride = current[d]]
    <2>0. /\ d \in Drivers /\ current[d] \in Rides \cup {NoRide}
          /\ current[d] \in Rides => status[current[d]] # "NONE"
      BY <1>4 DEF GoOffline, IInv, TypeOK, Labels, LabelOK, UnbookedIsUnknown
    <2>1. /\ UNCHANGED <<driverOf, rejected, current, approved>>
          /\ \A r \in Rides : MovesOn(r)
      BY <1>4 DEF GoOffline, rideVars, MovesOn
    <2>2. CASE Become(p, Idle)
      <3>1. LabelOK(Idle) /\ Idle.pc = "idle" /\ Idle.ride = NoRide
        BY DEF LabelOK, Idle
      <3> QED BY <2>1, <2>2, <3>1, IdleType, QuietStep DEF Claiming
    <2>3. CASE Become(p, c) /\ current[d] # NoRide
      <3>1. c \in CallType /\ c.pc = "healCheck" /\ c.ride = current[d] /\ c.driver = d
        BY <2>0, IdleType DEF CallType, Pc
      <3>2. Become(p, c)
        BY <2>3
      <3> HIDE DEF c
      <3>3. LabelOK(c)
        BY <2>0, <2>3, <3>1 DEF LabelOK
      <3> QED BY <2>0, <2>1, <2>3, <3>1, <3>2, <3>3, QuietStep DEF Claiming
    <2> QED BY <1>4, <2>2, <2>3 DEF GoOffline
  <1>5. CASE HealCheck(p)
    <2>0. /\ UNCHANGED Frame
          /\ call[p].ride \in Rides /\ call[p].driver \in Drivers
          /\ call[p].pc = "healCheck" /\ status[call[p].ride] # "NONE"
      BY <1>5 DEF HealCheck, Frame, IInv, Labels, LabelOK, UnbookedIsUnknown
    <2> DEFINE c == [call[p] EXCEPT !.pc = "heal"]
    <2>1. /\ c \in CallType /\ c.pc = "heal" /\ c.ride = call[p].ride
          /\ c.driver = call[p].driver
      BY <1>0 DEF CallType, Pc
    <2> HIDE DEF c
    <2>2. CASE Become(p, c) /\ ~Active(call[p].ride)
      <3>1. status[call[p].ride] \in TERMINAL_RIDE_STATUSES
        BY <2>0, <2>2 DEF Active, IInv, TypeOK
      <3> QED BY <2>0, <2>1, <2>2, <3>1, FrameQuiet, QuietStep DEF LabelOK, Claiming
    <2>3. CASE Return(p)
      BY <2>0, <2>3, FrameQuiet, QuietReturn
    <2> QED BY <1>5, <2>2, <2>3 DEF HealCheck, Goto, c
  <1>6. CASE Heal(p)
    <2> DEFINE r == call[p].ride
               d == call[p].driver
    <2>0. /\ r \in Rides /\ d \in Drivers /\ ~Active(r)
          /\ UNCHANGED <<rideVars, approved>>
      BY <1>6 DEF Heal, IInv, Labels, LabelOK, HealedRideIsOver, Active
    <2>1. CASE UNCHANGED current /\ Return(p)
      BY <2>0, <2>1, QuietReturn DEF rideVars, MovesOn
    <2>2. CASE /\ current[d] = r /\ current' = [current EXCEPT ![d] = NoRide]
               /\ Return(p)
      <3>1. PICK c \in CallType : /\ Become(p, c) /\ LabelOK(c)
                                  /\ c.pc \in {"idle", "offline"} /\ c.ride = NoRide
        BY <2>2, ReturnCall DEF IInv
      <3> QED BY <2>0, <2>2, <3>1, FreeingStep DEF Claiming
    <2> QED BY <1>6, <2>1, <2>2 DEF Heal
  <1> QED BY <1>1, <1>2, <1>3, <1>4, <1>5, <1>6

LEMMA EnvironmentStep ==
  ASSUME IInv, TypeOK',
         \/ \E d \in Drivers : Suspend(d) \/ Reinstate(d)
         \/ \E r \in Rides : OfferLapses(r) \/ SearchLapses(r)
         \/ \E p \in Calls : AssignError(p) \/ Fail(p)
         \/ UNCHANGED vars
  PROVE  IInv'
  <1>1. ASSUME NEW d \in Drivers, Suspend(d) \/ Reinstate(d) PROVE IInv'
    <2>1. /\ UNCHANGED <<driverOf, rejected, current, call>>
          /\ \A r \in Rides : MovesOn(r)
      BY <1>1 DEF Suspend, Reinstate, rideVars, MovesOn
    <2>2. SuspendedIsFree'
      BY <1>1 DEF Suspend, Reinstate, IInv, TypeOK, SuspendedIsFree
    <2> QED BY <2>1, <2>2, StillStep
  <1>2. CASE (\E r \in Rides : OfferLapses(r) \/ SearchLapses(r)) \/ UNCHANGED vars
    <2>1. UNCHANGED <<status, driverOf, rejected, current, approved, call>>
      BY <1>2 DEF OfferLapses, SearchLapses, vars, rideVars, driverVars
    <2>2. SuspendedIsFree'
      BY <2>1 DEF IInv, SuspendedIsFree
    <2> QED BY <2>1, <2>2, StillStep DEF MovesOn
  <1>3. ASSUME NEW p \in Calls, Fail(p) PROVE IInv'
    <2>1. Become(p, Idle) /\ UNCHANGED <<rideVars, driverVars>>
      BY <1>3 DEF Fail
    <2>2. LabelOK(Idle) /\ Idle.pc = "idle" /\ Idle.ride = NoRide
      BY DEF LabelOK, Idle
    <2> QED BY <2>1, <2>2, IdleType, QuietStep DEF rideVars, driverVars, MovesOn, Claiming
  <1>4. ASSUME NEW p \in Calls, AssignError(p) PROVE IInv'
    <2> DEFINE c == [call[p] EXCEPT !.pc = "release", !.after = "done", !.leaving = NoDriver]
    <2>1. /\ call[p] \in CallType /\ call[p].pc = "assign"
          /\ call[p].ride \in Rides /\ call[p].driver \in Drivers
          /\ status[call[p].ride] # "NONE"
      BY <1>4 DEF AssignError, Running, IInv, TypeOK, Labels, LabelOK, UnbookedIsUnknown
    <2>2. /\ c \in CallType /\ c.pc = "release"
          /\ c.ride = call[p].ride /\ c.driver = call[p].driver
      BY <2>1 DEF CallType, Pc
    <2>3. Become(p, c) /\ UNCHANGED <<rideVars, driverVars>>
      BY <1>4 DEF AssignError
    <2> HIDE DEF c
    <2> QED BY <2>1, <2>2, <2>3, QuietStep
            DEF LabelOK, Holds, Claiming, rideVars, driverVars, MovesOn
  <1> QED BY <1>1, <1>2, <1>3, <1>4

LEMMA InvariantStep == IInv /\ [Next]_vars => IInv'
  <1> SUFFICES ASSUME IInv, [Next]_vars PROVE IInv'
    OBVIOUS
  <1>0. TypeOK'
    BY TypeStep DEF IInv
  <1>1. ASSUME NEW p \in Calls, CallStep(p) PROVE IInv'
    BY <1>0, <1>1, InsertStep, SearchStep, ReserveStep, AssignStep, ReleaseStep,
       WithdrawalStep, AnswerStep, FinishStep, CancelStep, DutyStep DEF CallStep
  <1>2. ASSUME NEW p \in Calls, Request(p) PROVE IInv'
    BY <1>0, <1>2, BookingStarts, FinishStep, AnswerStep, CancelStep, DutyStep DEF Request
  <1>3. ASSUME NEW p \in Calls, Background(p) PROVE IInv'
    BY <1>0, <1>3, SettleStep, SearchStep DEF Background
  <1> QED BY <1>0, <1>1, <1>2, <1>3, TripStep, EnvironmentStep DEF Next

-----------------------------------------------------------------------------
(* The theorems.                                                           *)

\* The inductive invariant holds in every reachable state of the dispatch,
\* the answers, the cancellations and the duty changes (ride-dispatch,
\* ride-lifecycle, matching and driver-availability services).
THEOREM Invariance == Spec => []IInv
  BY InitIInv, InvariantStep, PTL DEF Spec

\* Type correctness of the ride and driver documents and the handlers' locals.
THEOREM TypeCorrect == Spec => []TypeOK
  <1>1. IInv => TypeOK
    BY DEF IInv
  <1> QED BY <1>1, Invariance, PTL

\* However many rides, drivers and handlers interleave and die, the driver of
\* an open ride is reserved for that ride (MatchingService.reserve, release).
THEOREM DriversStayReserved == Spec => []AssignedDriverIsReserved
  <1>1. IInv => AssignedDriverIsReserved
    BY DEF IInv
  <1> QED BY <1>1, Invariance, PTL

\* The reservation alone keeps a driver on one open ride: dispatch never meets
\* the duplicate-key error of uniq_active_ride_per_driver.
THEOREM DriverIndexIsRedundant == Spec => []DriverIndexNeverFires
  <1>1. IInv => DriverIndexNeverFires
    <2> SUFFICES ASSUME IInv, NEW p \in Calls, Running(p, "assign"), Active(call[p].ride)
                 PROVE  DriverIndexHolds(call[p].ride, call[p].driver)
      BY DEF DriverIndexNeverFires
    <2> DEFINE r == call[p].ride
               d == call[p].driver
    <2>1. r \in Rides /\ d \in Drivers /\ Holds(p, r, d)
      BY DEF Running, IInv, Labels, LabelOK, Holds, Claiming
    <2>2. current[d] = r
      BY <2>1 DEF IInv, ClaimsAreOwned
    <2>3. \A s \in Rides : Active(s) /\ driverOf[s] = d => s = r
      BY <2>1, <2>2 DEF IInv, AssignedDriverIsReserved
    <2> QED BY <2>3 DEF DriverIndexHolds
  <1> QED BY <1>1, Invariance, PTL

\* Suspending on currentRideId alone never catches a driver with an open ride
\* or one about to be assigned (DriversService.suspend).
THEOREM SuspensionIsSafe == Spec => []SuspendedDriverHasNoRide
  <1>1. IInv => SuspendedDriverHasNoRide
    <2> SUFFICES ASSUME IInv, NEW d \in Drivers, ~approved[d]
                 PROVE  /\ \A r \in Rides : Active(r) => driverOf[r] # d
                        /\ \A p \in Calls : Running(p, "assign") /\ Active(call[p].ride) =>
                             call[p].driver # d
      BY DEF SuspendedDriverHasNoRide
    <2>1. current[d] \notin Rides
      BY DEF IInv, SuspendedIsFree
    <2>2. \A r \in Rides : Active(r) => driverOf[r] # d
      BY <2>1 DEF IInv, AssignedDriverIsReserved
    <2>3. ASSUME NEW p \in Calls, Running(p, "assign"), Active(call[p].ride),
                 call[p].driver = d
          PROVE  FALSE
      <3>1. call[p].ride \in Rides /\ Holds(p, call[p].ride, d)
        BY <2>3 DEF Running, IInv, Labels, LabelOK, Holds, Claiming
      <3> QED BY <2>1, <2>3, <3>1 DEF IInv, ClaimsAreOwned
    <2> QED BY <2>2, <2>3
  <1> QED BY <1>1, Invariance, PTL

-----------------------------------------------------------------------------
(* Refinement: the interleaved handlers implement the atomic ride API.     *)

\* The abstract "open" is the code's "active".
LEMMA OpenIsActive == ASSUME TypeOK, NEW r \in Rides PROVE Lifecycle!IsOpen(r) <=> Active(r)
  BY DEF Lifecycle!IsOpen, Lifecycle!Open, Active, RideStatus, TERMINAL_RIDE_STATUSES, TypeOK

\* Steps that write neither a status nor a driver of a ride.
Unseen == UNCHANGED <<status, driverOf>>

LEMMA InsertRefines ==
  ASSUME IInv, NEW p \in Calls, InsertRide(p)
  PROVE  Unseen \/ Lifecycle!Next
  <1>1. call[p].ride \in Rides
    BY DEF InsertRide, Running, IInv, Labels, LabelOK
  <1>2. ASSUME InsertAdmitted(call[p].ride), ~Unseen PROVE Lifecycle!Book(call[p].ride)
    BY <1>1, <1>2, OpenIsActive
       DEF InsertRide, InsertAdmitted, CustomerBusy, Lifecycle!Book, Lifecycle!Move, IInv
  <1> QED BY <1>1, <1>2 DEF InsertRide, Unseen, Lifecycle!Next

LEMMA AssignRefines ==
  ASSUME IInv, NEW p \in Calls, Assign(p)
  PROVE  Unseen \/ Lifecycle!Next
  <1> DEFINE r == call[p].ride
             d == call[p].driver
  <1>1. r \in Rides /\ d \in Drivers /\ Holds(p, r, d)
    BY DEF Assign, Running, IInv, Labels, LabelOK, Holds, Claiming
  <1>2. CASE /\ DriverIndexHolds(r, d)
             /\ Apply(r, "SEARCHING", "DRIVER_ASSIGNED")
             /\ driverOf' = [driverOf EXCEPT ![r] = d]
    <2>1. Active(r)
      BY <1>2 DEF Apply, Active, RideStatus, TERMINAL_RIDE_STATUSES
    <2>2. \A s \in Rides : Active(s) => driverOf[s] # d
      BY <1>1, <1>2, <2>1 DEF DriverIndexHolds, IInv, ClaimsAreOwned
    <2>3. Lifecycle!Free(d)
      BY <2>2, OpenIsActive DEF Lifecycle!Free, IInv
    <2>4. Lifecycle!Offer(r, d)
      BY <1>2, <2>3 DEF Lifecycle!Offer, Lifecycle!Move, Apply
    <2> QED BY <1>1, <2>4 DEF Lifecycle!Next
  <1> QED BY <1>2 DEF Assign, Unseen

LEMMA WithdrawalRefines ==
  ASSUME IInv, NEW p \in Calls, Timeout(p) \/ Reject(p) \/ LeaveOffer(p)
  PROVE  Unseen \/ Lifecycle!Next
  <1>1. call[p].ride \in Rides
    BY DEF Timeout, Reject, LeaveOffer, Running, IInv, Labels, LabelOK
  <1>2. ASSUME NEW overdue, EndAssignment(p, overdue)
        PROVE  Lifecycle!Withdraw(call[p].ride)
    BY <1>2 DEF EndAssignment, Apply, Lifecycle!Withdraw, Lifecycle!Move
  <1> QED BY <1>1, <1>2 DEF Timeout, Reject, LeaveOffer, rideVars, Unseen, Lifecycle!Next

\* A write of apply that leaves the driver alone is an abstract step.
LEMMA ApplyRefines ==
  ASSUME NEW r \in Rides, NEW from, NEW to, Apply(r, from, to), UNCHANGED driverOf,
         to \notin {"DRIVER_ASSIGNED", "SEARCHING"}
  PROVE  Lifecycle!Next
  <1>1. Lifecycle!Advance(r) \/ Lifecycle!Cancel(r) \/ Lifecycle!Expire(r)
    BY DEF Apply, CanTransition, Lifecycle!Advance, Lifecycle!Cancel, Lifecycle!Expire,
       Lifecycle!Move, Lifecycle!Unstarted, Lifecycle!Open
  <1> QED BY <1>1 DEF Lifecycle!Next

LEMMA MovesRefine ==
  ASSUME IInv, NEW p \in Calls,
         ExpireSearch(p) \/ Accept(p) \/ Finish(p) \/ Cancel(p)
  PROVE  Unseen \/ Lifecycle!Next
  <1>1. call[p].ride \in Rides
    BY DEF ExpireSearch, Accept, Finish, Cancel, Running, IInv, Labels, LabelOK
  <1>2. CASE ExpireSearch(p)
    BY <1>1, <1>2, ApplyRefines DEF ExpireSearch, Unseen
  <1>3. CASE Accept(p)
    BY <1>1, <1>3, ApplyRefines DEF Accept, Unseen
  <1>4. CASE Finish(p)
    BY <1>1, <1>4, ApplyRefines DEF Finish, Unseen
  <1>5. CASE Cancel(p)
    BY <1>1, <1>5, ApplyRefines DEF Cancel, Unseen
  <1> QED BY <1>2, <1>3, <1>4, <1>5

LEMMA OthersUnseen ==
  ASSUME NEW p \in Calls,
         \/ Dispatch(p) \/ FindCandidates(p) \/ (\E d \in Drivers : Reserve(p, d))
         \/ ReleaseOnline(p) \/ ReleaseOffline(p) \/ ExplainOfferFailure(p)
         \/ CancelReread(p) \/ GoOnline(p) \/ OfflineReadRide(p) \/ GoOffline(p)
         \/ HealCheck(p) \/ Heal(p) \/ Request(p) \/ Background(p)
         \/ AssignError(p) \/ Fail(p)
  PROVE  Unseen
  <1>1. CASE Dispatch(p) \/ FindCandidates(p) \/ (\E d \in Drivers : Reserve(p, d))
             \/ ReleaseOnline(p) \/ ReleaseOffline(p) \/ ExplainOfferFailure(p)
    BY <1>1 DEF Dispatch, ReadForDispatch, FindCandidates, Reserve, ReleaseOnline,
       ReleaseOffline, ExplainOfferFailure, rideVars, Unseen
  <1>2. CASE CancelReread(p) \/ GoOnline(p) \/ OfflineReadRide(p) \/ GoOffline(p)
             \/ HealCheck(p) \/ Heal(p) \/ AssignError(p) \/ Fail(p)
    BY <1>2 DEF CancelReread, ReadForCancel, GoOnline, OfflineReadRide, GoOffline,
       HealCheck, Heal, AssignError, Fail, rideVars, Unseen
  <1>3. CASE Request(p) \/ Background(p)
    BY <1>3 DEF Request, Background, Book, FinishRead, TapAccept, TapReject, TapCancel,
       ReadForCancel, TapOnline, TapOffline, Settle, DispatchOpenSearch,
       ReadForDispatch, rideVars, Unseen
  <1> QED BY <1>1, <1>2, <1>3

LEMMA StepRefines ==
  IInv /\ [Next]_vars => [Lifecycle!Next]_<<status, driverOf>>
  <1> SUFFICES ASSUME IInv, [Next]_vars PROVE Unseen \/ Lifecycle!Next
    BY DEF Unseen
  <1>1. ASSUME NEW p \in Calls, CallStep(p) \/ Request(p) \/ Background(p)
                                  \/ AssignError(p) \/ Fail(p)
        PROVE  Unseen \/ Lifecycle!Next
    BY <1>1, InsertRefines, AssignRefines, WithdrawalRefines, MovesRefine, OthersUnseen
       DEF CallStep
  <1>2. ASSUME NEW r \in Rides, Arrived(r) \/ Start(r) PROVE Lifecycle!Next
    BY <1>2, ApplyRefines DEF Arrived, Start, DriverMoves
  <1>3. ASSUME NEW r \in Rides, OfferLapses(r) \/ SearchLapses(r) PROVE Unseen
    BY <1>3 DEF OfferLapses, SearchLapses, Unseen
  <1>4. ASSUME NEW d \in Drivers, Suspend(d) \/ Reinstate(d) PROVE Unseen
    BY <1>4 DEF Suspend, Reinstate, rideVars, Unseen
  <1>5. CASE UNCHANGED vars
    BY <1>5 DEF vars, rideVars, Unseen
  <1> QED BY <1>1, <1>2, <1>3, <1>4, <1>5 DEF Next

\* Every interleaving of handlers, timers and failures looks to the users of
\* the API like requests that take effect one at a time (the whole core).
THEOREM Refinement == Spec => ImplementsLifecycle
  <1>1. Init => Lifecycle!Init
    BY DEF Init, Lifecycle!Init
  <1> QED BY <1>1, StepRefines, Invariance, PTL DEF Spec, ImplementsLifecycle, Lifecycle!Spec

\* No two open rides of one customer, whatever booking requests are in flight
\* (uniq_active_ride_per_customer; the earlier read cannot ensure it).
THEOREM OneOpenRide == Spec => []OneOpenRidePerCustomer
  <1>1. Init => OneOpenRidePerCustomer
    BY DEF Init, OneOpenRidePerCustomer, Active, RideStatus
  <1>2. IInv /\ OneOpenRidePerCustomer /\ [Next]_vars => OneOpenRidePerCustomer'
    <2> SUFFICES ASSUME IInv, OneOpenRidePerCustomer, [Next]_vars
                 PROVE  OneOpenRidePerCustomer'
      OBVIOUS
    <2>0. TypeOK /\ TypeOK'
      BY InvariantStep DEF IInv
    <2>1. CASE Unseen
      BY <2>1 DEF Unseen, OneOpenRidePerCustomer, Active
    <2>2. ASSUME NEW r \in Rides, Lifecycle!Book(r) PROVE OneOpenRidePerCustomer'
      <3>1. \A s \in Rides : CustomerOf[s] = CustomerOf[r] => ~Active(s)
        BY <2>0, <2>2, OpenIsActive DEF Lifecycle!Book
      <3>2. \A s \in Rides : Active(s)' => s = r \/ Active(s)
        BY <2>0, <2>2 DEF Lifecycle!Book, Lifecycle!Move, Active, TypeOK
      <3> QED BY <3>1, <3>2 DEF OneOpenRidePerCustomer
    <2>3. ASSUME NEW r \in Rides,
                 \/ Lifecycle!Withdraw(r) \/ Lifecycle!Advance(r) \/ Lifecycle!Cancel(r)
                 \/ Lifecycle!Expire(r) \/ \E d \in Drivers : Lifecycle!Offer(r, d)
          PROVE  OneOpenRidePerCustomer'
      <3>1. \A s \in Rides : Active(s)' => Active(s)
        BY <2>0, <2>3 DEF Lifecycle!Withdraw, Lifecycle!Advance, Lifecycle!Cancel,
           Lifecycle!Expire, Lifecycle!Offer, Lifecycle!Move, Lifecycle!Open,
           Lifecycle!Unstarted, Active, RideStatus, TERMINAL_RIDE_STATUSES, TypeOK
      <3> QED BY <3>1 DEF OneOpenRidePerCustomer
    <2> QED BY <2>1, <2>2, <2>3, StepRefines DEF Lifecycle!Next, Unseen
  <1> QED BY <1>1, <1>2, Invariance, PTL DEF Spec

-----------------------------------------------------------------------------
(* Nobody is stranded: while no call has died, a driver who points at an    *)
(* open ride has it or is about to get it or to be freed.                   *)

\* A ride that is searching has no driver.
SearchHasNoDriver ==
  \A r \in Rides : status[r] = "SEARCHING" => driverOf[r] = NoDriver

\* OpenRideStrandsNobody without its condition on failures.
NobodyStranded ==
  \A r \in Rides, d \in Drivers :
    current[d] = r /\ Active(r) => driverOf[r] = d \/ \E p \in Calls : Holds(p, r, d)

\* What the abstract API says of any step of the handlers.
LEMMA RidesGoForward ==
  ASSUME IInv, TypeOK', Unseen \/ Lifecycle!Next
  PROVE  /\ \A s \in Rides : Active(s)' => Active(s) \/ status[s] = "NONE"
         /\ \A s \in Rides : status[s] = "COMPLETED" =>
              status'[s] = "COMPLETED" /\ driverOf'[s] = driverOf[s]
         /\ \E r : \A s \in Rides : status'[s] # "NONE" => s = r \/ status[s] # "NONE"
         /\ SearchHasNoDriver => SearchHasNoDriver'
  <1>1. CASE Unseen
    BY <1>1 DEF Unseen, Active, SearchHasNoDriver
  <1>2. ASSUME NEW r \in Rides,
               \/ Lifecycle!Book(r) \/ Lifecycle!Withdraw(r) \/ Lifecycle!Advance(r)
               \/ Lifecycle!Cancel(r) \/ Lifecycle!Expire(r)
               \/ \E d \in Drivers : Lifecycle!Offer(r, d)
        PROVE  /\ \A s \in Rides \ {r} : status'[s] = status[s] /\ driverOf'[s] = driverOf[s]
               /\ status[r] # "COMPLETED"
               /\ Active(r) \/ status[r] = "NONE"
               /\ status'[r] = "SEARCHING" => driverOf'[r] = NoDriver
    <2> USE DEF Lifecycle!Move, IInv, TypeOK
    <2>1. CASE Lifecycle!Book(r)
      BY <2>1 DEF Lifecycle!Book, UnbookedIsUnknown
    <2>2. CASE Lifecycle!Withdraw(r) \/ \E d \in Drivers : Lifecycle!Offer(r, d)
      BY <2>2 DEF Lifecycle!Withdraw, Lifecycle!Offer, Active, RideStatus,
         TERMINAL_RIDE_STATUSES
    <2>3. CASE Lifecycle!Advance(r)
      BY <2>3 DEF Lifecycle!Advance, Active, RideStatus, TERMINAL_RIDE_STATUSES
    <2>4. CASE Lifecycle!Cancel(r) \/ Lifecycle!Expire(r)
      BY <2>4 DEF Lifecycle!Cancel, Lifecycle!Expire, Lifecycle!Unstarted, Lifecycle!Open,
         Active, RideStatus, TERMINAL_RIDE_STATUSES
    <2> QED BY <1>2, <2>1, <2>2, <2>3, <2>4
  <1>3. ASSUME Lifecycle!Next
        PROVE  \E r \in Rides :
                 /\ \A s \in Rides \ {r} : status'[s] = status[s] /\ driverOf'[s] = driverOf[s]
                 /\ status[r] # "COMPLETED"
                 /\ Active(r) \/ status[r] = "NONE"
                 /\ status'[r] = "SEARCHING" => driverOf'[r] = NoDriver
    BY <1>2, <1>3 DEF Lifecycle!Next
  <1> QED BY <1>1, <1>3 DEF Active, SearchHasNoDriver

\* A step that gives no driver a ride and lets go of no reservation.
LEMMA KeepsReservations ==
  ASSUME IInv, NobodyStranded, UNCHANGED driverOf,
         \A s \in Rides : Active(s)' => Active(s) \/ status[s] = "NONE",
         \A d \in Drivers : current'[d] \in {current[d], NoRide},
         \A q \in Calls, r \in Rides, d \in Drivers :
           Holds(q, r, d) /\ Active(r)' /\ current'[d] = r => Holds(q, r, d)'
  PROVE  NobodyStranded'
  <1> SUFFICES ASSUME NEW r \in Rides, NEW d \in Drivers, current'[d] = r, Active(r)'
               PROVE  driverOf'[r] = d \/ \E q \in Calls : Holds(q, r, d)'
    BY DEF NobodyStranded
  <1>1. current[d] = r /\ Active(r)
    BY DEF IInv, UnbookedIsUnknown
  <1> QED BY <1>1 DEF NobodyStranded

\* A handler that holds nobody, and only ever frees a driver.
LetsBe(p) ==
  /\ call[p].pc \notin Claiming
  /\ \A q \in Calls \ {p} : call'[q] = call[q]
  /\ UNCHANGED driverOf
  /\ \A d \in Drivers : current'[d] \in {current[d], NoRide}

LEMMA ReadLetsBe ==
  ASSUME IInv, NEW p \in Calls, call[p].pc \notin Claiming, NEW c,
         ReadForDispatch(p, c) \/ ReadForCancel(p, c)
  PROVE  LetsBe(p)
  <1>1. call \in [Calls -> CallType] /\ UNCHANGED <<driverOf, current>>
    BY DEF IInv, TypeOK, ReadForDispatch, ReadForCancel, rideVars, driverVars
  <1>2. CASE ReadForDispatch(p, c)
    BY <1>1, <1>2 DEF ReadForDispatch, LetsBe, Return, Become
  <1>3. CASE ReadForCancel(p, c)
    BY <1>1, <1>3 DEF ReadForCancel, LetsBe, Return, Become
  <1> QED BY <1>2, <1>3

LEMMA FindLetsBe ==
  ASSUME IInv, NEW p \in Calls, FindCandidates(p)
  PROVE  LetsBe(p)
  <1>0. call \in [Calls -> CallType]
    BY DEF IInv, TypeOK
  <1>1. Running(p, "find") /\ UNCHANGED <<rideVars, driverVars>>
    BY DEF FindCandidates
  <1>2. \/ Return(p)
        \/ \E near : Become(p, [call[p] EXCEPT !.pc = "reserve", !.seen = near])
    BY Zenon DEF FindCandidates
  <1>3. ASSUME NEW c, Become(p, c) PROVE \A q \in Calls \ {p} : call'[q] = call[q]
    BY <1>0, <1>3 DEF Become
  <1>4. \A q \in Calls \ {p} : call'[q] = call[q]
    BY <1>2, <1>3, ReturnCall, Zenon DEF IInv
  <1> QED BY <1>1, <1>4 DEF LetsBe, Running, Claiming, rideVars, driverVars

LEMMA SearchLetsBe ==
  ASSUME IInv, NEW p \in Calls,
         \/ InsertRide(p) \/ Dispatch(p) \/ FindCandidates(p) \/ ExpireSearch(p)
         \/ Accept(p) \/ ExplainOfferFailure(p) \/ Finish(p) \/ CancelReread(p) \/ Cancel(p)
  PROVE  LetsBe(p)
  <1> USE DEF Running, Claiming, Return, Goto, Release, Become
  <1>0. call \in [Calls -> CallType] /\ current \in [Drivers -> Rides \cup {NoRide}]
    BY DEF IInv, TypeOK
  <1>1. CASE Dispatch(p) \/ CancelReread(p)
    BY <1>1, ReadLetsBe DEF Dispatch, CancelReread
  <1>2. CASE InsertRide(p) \/ ExpireSearch(p) \/ Accept(p) \/ ExplainOfferFailure(p)
    BY <1>0, <1>2 DEF LetsBe, InsertRide, ExpireSearch, Accept, ExplainOfferFailure,
       rideVars, driverVars
  <1>3. CASE FindCandidates(p)
    BY <1>3, FindLetsBe
  <1>4. CASE Finish(p) \/ Cancel(p)
    BY <1>0, <1>4 DEF LetsBe, Finish, Cancel, driverVars
  <1> QED BY <1>1, <1>2, <1>3, <1>4

LEMMA DutyLetsBe ==
  ASSUME IInv, NEW p \in Calls,
         \/ GoOnline(p) \/ OfflineReadRide(p) \/ GoOffline(p) \/ HealCheck(p) \/ Heal(p)
         \/ Request(p) \/ Background(p)
  PROVE  LetsBe(p)
  <1> USE DEF Running, Claiming, Return, Goto, Become
  <1>0. call \in [Calls -> CallType] /\ current \in [Drivers -> Rides \cup {NoRide}]
    BY DEF IInv, TypeOK
  <1>1. CASE OfflineReadRide(p) \/ HealCheck(p)
    BY <1>0, <1>1 DEF LetsBe, OfflineReadRide, HealCheck, rideVars, driverVars
  <1>2. CASE GoOnline(p)
    <2>1. Running(p, "goOnline") /\ Return(p) /\ UNCHANGED <<rideVars, current>>
      BY <1>2, Zenon DEF GoOnline
    <2> QED BY <1>0, <2>1 DEF LetsBe, rideVars
  <1>3. CASE GoOffline(p)
    BY <1>0, <1>3 DEF LetsBe, GoOffline, rideVars
  <1>4. CASE Heal(p)
    <2>1. current'[call[p].driver] \in {current[call[p].driver], NoRide}
      BY <1>0, <1>4 DEF Heal
    <2> QED BY <1>0, <1>4 DEF LetsBe, Heal, rideVars
  <1>5. ASSUME NEW r \in Rides,
               \/ Book(p, r) \/ FinishRead(p, r) \/ Settle(p, r) \/ DispatchOpenSearch(p, r)
               \/ \E actor : TapCancel(p, r, actor)
        PROVE  LetsBe(p)
    <2>1. CASE Book(p, r) \/ FinishRead(p, r) \/ Settle(p, r)
      BY <1>0, <2>1 DEF LetsBe, Book, FinishRead, Settle, rideVars, driverVars
    <2>2. CASE DispatchOpenSearch(p, r)
      BY <2>2, ReadLetsBe DEF DispatchOpenSearch
    <2>3. ASSUME NEW actor, TapCancel(p, r, actor) PROVE LetsBe(p)
      BY <2>3, ReadLetsBe DEF TapCancel
    <2> QED BY <1>5, <2>1, <2>2, <2>3
  <1>6. ASSUME NEW r \in Rides, NEW d \in Drivers, TapAccept(p, r, d) \/ TapReject(p, r, d)
        PROVE  LetsBe(p)
    BY <1>0, <1>6 DEF LetsBe, TapAccept, TapReject, rideVars, driverVars
  <1>7. ASSUME NEW d \in Drivers, TapOnline(p, d) \/ TapOffline(p, d) PROVE LetsBe(p)
    BY <1>0, <1>7 DEF LetsBe, TapOnline, TapOffline, rideVars, driverVars
  <1> QED BY <1>1, <1>2, <1>3, <1>4, <1>5, <1>6, <1>7 DEF Request, Background

LEMMA LetsBeStrandsNobody ==
  ASSUME IInv, NobodyStranded, NEW p \in Calls, LetsBe(p),
         \A s \in Rides : Active(s)' => Active(s) \/ status[s] = "NONE"
  PROVE  NobodyStranded'
  <1>1. \A q \in Calls, r \in Rides, d \in Drivers : Holds(q, r, d) => Holds(q, r, d)'
    BY DEF LetsBe, Holds
  <1> QED BY <1>1, KeepsReservations DEF LetsBe

\* A reservation is born with its claim, and the assignment turns the claim
\* into the driver of the ride.
LEMMA ReserveStrandsNobody ==
  ASSUME IInv, NobodyStranded, NEW p \in Calls, NEW d \in Drivers, Reserve(p, d),
         \A s \in Rides : Active(s)' => Active(s) \/ status[s] = "NONE"
  PROVE  NobodyStranded'
  <1> DEFINE r == call[p].ride
             c == [call[p] EXCEPT !.pc = "assign", !.driver = d]
             k == [call[p] EXCEPT !.seen = call[p].seen \ {d}]
  <1>0. /\ call[p] \in CallType /\ call[p].pc = "reserve" /\ r \in Rides
        /\ call \in [Calls -> CallType] /\ current \in [Drivers -> Rides \cup {NoRide}]
        /\ UNCHANGED driverOf
    BY DEF Reserve, Running, IInv, TypeOK, Labels, LabelOK, rideVars
  <1>1. CASE (Return(p) \/ Become(p, k)) /\ UNCHANGED current
    <2>1. \E n : Become(p, n)
      BY <1>1, ReturnCall, Zenon DEF IInv
    <2> QED BY <1>0, <1>1, <2>1, LetsBeStrandsNobody DEF LetsBe, Become, Claiming
  <1>2. CASE Become(p, c) /\ current' = [current EXCEPT ![d] = r]
    <2>1. c.pc = "assign" /\ c.ride = r /\ c.driver = d
      BY <1>0 DEF CallType
    <2> HIDE DEF c
    <2>2. \A q \in Calls, s \in Rides, d2 \in Drivers : Holds(q, s, d2) => Holds(q, s, d2)'
      BY <1>0, <1>2 DEF Holds, Claiming, Become
    <2>3. \A s \in Rides : s = r => Holds(p, s, d)'
      BY <1>0, <1>2, <2>1 DEF Holds, Claiming, Become
    <2> SUFFICES ASSUME NEW s \in Rides, NEW d2 \in Drivers, current'[d2] = s, Active(s)'
                 PROVE  driverOf'[s] = d2 \/ \E q \in Calls : Holds(q, s, d2)'
      BY DEF NobodyStranded
    <2>4. CASE d2 = d
      BY <1>0, <1>2, <2>3, <2>4
    <2>5. CASE d2 # d
      <3>1. current[d2] = s /\ Active(s)
        BY <1>0, <1>2, <2>5 DEF IInv, UnbookedIsUnknown
      <3> QED BY <1>0, <2>2, <3>1 DEF NobodyStranded
    <2> QED BY <2>4, <2>5
  <1> QED BY <1>1, <1>2 DEF Reserve

LEMMA AssignStrandsNobody ==
  ASSUME IInv, NobodyStranded, SearchHasNoDriver, NEW p \in Calls, Assign(p),
         \A s \in Rides : Active(s)' => Active(s) \/ status[s] = "NONE"
  PROVE  NobodyStranded'
  <1> DEFINE r == call[p].ride
             d == call[p].driver
             c == [call[p] EXCEPT !.pc = "release", !.driver = d, !.after = "done"]
  <1>0. /\ call[p] \in CallType /\ call[p].pc = "assign" /\ r \in Rides /\ d \in Drivers
        /\ call \in [Calls -> CallType]
        /\ UNCHANGED current
    BY DEF Assign, Running, IInv, TypeOK, Labels, LabelOK, driverVars
  <1>1. CASE Release(p, d, "done") /\ UNCHANGED driverOf
    <2>1. Become(p, c) /\ c.pc = "release" /\ c.ride = r /\ c.driver = d
      BY <1>0, <1>1 DEF Release, CallType
    <2> HIDE DEF c
    <2>2. \A q \in Calls, s \in Rides, d2 \in Drivers : Holds(q, s, d2) => Holds(q, s, d2)'
      BY <1>0, <2>1 DEF Holds, Claiming, Become
    <2> QED BY <1>0, <1>1, <2>2, KeepsReservations
  <1>2. CASE /\ status[r] = "SEARCHING" /\ driverOf' = [driverOf EXCEPT ![r] = d]
             /\ Return(p)
    <2>1. /\ driverOf'[r] = d /\ driverOf[r] = NoDriver
          /\ \A s \in Rides \ {r} : driverOf'[s] = driverOf[s]
      BY <1>0, <1>2 DEF SearchHasNoDriver, IInv, TypeOK
    <2>2. PICK n : Become(p, n)
      BY <1>2, ReturnCall DEF IInv
    <2>3. \A q \in Calls \ {p}, s \in Rides, d2 \in Drivers :
            Holds(q, s, d2) => Holds(q, s, d2)'
      BY <1>0, <2>2 DEF Holds, Become
    <2> SUFFICES ASSUME NEW s \in Rides, NEW d2 \in Drivers, current'[d2] = s, Active(s)'
                 PROVE  driverOf'[s] = d2 \/ \E q \in Calls : Holds(q, s, d2)'
      BY DEF NobodyStranded
    <2>4. driverOf[s] = d2 \/ \E q \in Calls : Holds(q, s, d2)
      BY <1>0 DEF IInv, UnbookedIsUnknown, NobodyStranded
    <2>5. CASE Holds(p, s, d2)
      BY <2>1, <2>5 DEF Holds
    <2>6. CASE ~Holds(p, s, d2)
      BY <2>1, <2>3, <2>4, <2>6
    <2> QED BY <2>5, <2>6
  <1> QED BY <1>1, <1>2 DEF Assign, Apply

\* A withdrawal turns the driver of the ride into the claim of its call.
LEMMA EndAssignmentStrandsNobody ==
  ASSUME IInv, NobodyStranded, NEW p \in Calls, NEW overdue, EndAssignment(p, overdue),
         call[p].ride \in Rides, call[p].pc \notin Claiming,
         \A s \in Rides : Active(s)' => Active(s) \/ status[s] = "NONE"
  PROVE  NobodyStranded'
  <1> DEFINE r == call[p].ride
             d == call[p].driver
             c == [call[p] EXCEPT !.pc = "release", !.driver = d, !.after = "redispatch"]
  <1>0. /\ call[p] \in CallType /\ call \in [Calls -> CallType]
        /\ UNCHANGED current /\ driverOf[r] = d
        /\ driverOf' = [driverOf EXCEPT ![r] = NoDriver]
    BY DEF EndAssignment, IInv, TypeOK, driverVars
  <1>1. Become(p, c) /\ c.pc = "release" /\ c.ride = r /\ c.driver = d
    BY <1>0 DEF EndAssignment, Release, CallType
  <1> HIDE DEF c
  <1>2. /\ \A s \in Rides, d2 \in Drivers : s = r /\ d2 = d => Holds(p, s, d2)'
        /\ \A q \in Calls, s \in Rides, d2 \in Drivers : Holds(q, s, d2) => Holds(q, s, d2)'
    BY <1>0, <1>1 DEF Holds, Claiming, Become
  <1>3. \A s \in Rides \ {r} : driverOf'[s] = driverOf[s]
    BY <1>0 DEF IInv, TypeOK
  <1> SUFFICES ASSUME NEW s \in Rides, NEW d2 \in Drivers, current'[d2] = s, Active(s)'
               PROVE  driverOf'[s] = d2 \/ \E q \in Calls : Holds(q, s, d2)'
    BY DEF NobodyStranded
  <1>4. driverOf[s] = d2 \/ \E q \in Calls : Holds(q, s, d2)
    BY <1>0 DEF IInv, UnbookedIsUnknown, NobodyStranded
  <1> QED BY <1>0, <1>2, <1>3, <1>4

LEMMA WithdrawalStrandsNobody ==
  ASSUME IInv, NobodyStranded, NEW p \in Calls, Timeout(p) \/ Reject(p) \/ LeaveOffer(p),
         \A s \in Rides : Active(s)' => Active(s) \/ status[s] = "NONE"
  PROVE  NobodyStranded'
  <1>1. /\ call[p].ride \in Rides /\ call[p].pc \in {"timeout", "reject", "leave"}
        /\ call \in [Calls -> CallType]
    BY DEF Timeout, Reject, LeaveOffer, Running, IInv, TypeOK, Labels, LabelOK
  <1>2. CASE EndAssignment(p, TRUE) \/ EndAssignment(p, FALSE)
    BY <1>1, <1>2, EndAssignmentStrandsNobody DEF Claiming
  <1>3. CASE (Return(p) \/ Goto(p, "explain")) /\ UNCHANGED Frame
    <2>1. PICK n : Become(p, n)
      BY <1>3, ReturnCall, Zenon DEF IInv, Goto
    <2>2. UNCHANGED <<driverOf, current>>
      BY <1>3 DEF Frame, rideVars, driverVars
    <2> QED BY <1>1, <2>1, <2>2, LetsBeStrandsNobody DEF LetsBe, Become, Claiming
  <1> QED BY <1>2, <1>3 DEF Timeout, Reject, LeaveOffer, Frame

\* A release that ends its claim has freed the driver, or found them elsewhere.
LEMMA ReleaseStrandsNobody ==
  ASSUME IInv, NobodyStranded, NEW p \in Calls, ReleaseOnline(p) \/ ReleaseOffline(p),
         \A s \in Rides : Active(s)' => Active(s) \/ status[s] = "NONE"
  PROVE  NobodyStranded'
  <1> DEFINE r == call[p].ride
             d == call[p].driver
             c == [call[p] EXCEPT !.pc = "releaseOffline"]
  <1>0. /\ call[p] \in CallType /\ call[p].pc \in Claiming /\ r \in Rides /\ d \in Drivers
        /\ call \in [Calls -> CallType] /\ current \in [Drivers -> Rides \cup {NoRide}]
        /\ UNCHANGED driverOf
    BY DEF ReleaseOnline, ReleaseOffline, Running, Claiming, IInv, TypeOK, Labels, LabelOK,
       rideVars
  <1>1. CASE Goto(p, "releaseOffline") /\ UNCHANGED current
    <2>1. Become(p, c) /\ c.pc = "releaseOffline" /\ c.ride = r /\ c.driver = d
      BY <1>0, <1>1 DEF Goto, CallType
    <2> HIDE DEF c
    <2>2. \A q \in Calls, s \in Rides, d2 \in Drivers : Holds(q, s, d2) => Holds(q, s, d2)'
      BY <1>0, <2>1 DEF Holds, Claiming, Become
    <2> QED BY <1>0, <1>1, <2>2, KeepsReservations
  <1>2. CASE /\ AfterRelease(p)
             /\ \/ current' = [current EXCEPT ![d] = NoRide]
                \/ UNCHANGED current /\ current[d] # r
    <2>1. PICK n : Become(p, n)
      BY <1>2, ReturnCall, Zenon DEF AfterRelease, IInv, Goto
    <2>2. current'[d] # r /\ \A d2 \in Drivers : current'[d2] \in {current[d2], NoRide}
      BY <1>0, <1>2
    <2>3. \A q \in Calls, s \in Rides, d2 \in Drivers :
            Holds(q, s, d2) /\ Active(s)' /\ current'[d2] = s => Holds(q, s, d2)'
      BY <1>0, <2>1, <2>2 DEF Holds, Become
    <2> QED BY <1>0, <2>2, <2>3, KeepsReservations
  <1> QED BY <1>1, <1>2 DEF ReleaseOnline, ReleaseOffline

\* Only AssignError and Fail count as failures.
LEMMA CallsDoNotFail ==
  ASSUME NEW p \in Calls, CallStep(p) \/ Request(p) \/ Background(p)
  PROVE  UNCHANGED failures
  <1>1. CASE CallStep(p)
    <2>1. CASE InsertRide(p) \/ Dispatch(p) \/ FindCandidates(p)
               \/ (\E d \in Drivers : Reserve(p, d)) \/ Assign(p) \/ ExpireSearch(p)
               \/ ReleaseOnline(p) \/ ReleaseOffline(p)
      BY <2>1, Zenon DEF InsertRide, Dispatch, ReadForDispatch, FindCandidates, Reserve, Assign,
         ExpireSearch, ReleaseOnline, ReleaseOffline
    <2>2. CASE Timeout(p) \/ Accept(p) \/ Reject(p) \/ ExplainOfferFailure(p)
               \/ Finish(p) \/ CancelReread(p) \/ Cancel(p)
      BY <2>2 DEF Timeout, Accept, Reject, EndAssignment, ExplainOfferFailure, Finish,
         CancelReread, ReadForCancel, Cancel
    <2>3. CASE GoOnline(p) \/ OfflineReadRide(p) \/ LeaveOffer(p) \/ GoOffline(p)
               \/ HealCheck(p) \/ Heal(p)
      BY <2>3 DEF GoOnline, OfflineReadRide, LeaveOffer, EndAssignment, GoOffline,
         HealCheck, Heal
    <2> QED BY <1>1, <2>1, <2>2, <2>3 DEF CallStep
  <1>2. CASE Request(p)
    BY <1>2, Zenon DEF Request, Book, FinishRead, TapAccept, TapReject, TapCancel, ReadForCancel,
       TapOnline, TapOffline
  <1>3. CASE Background(p)
    BY <1>3, Zenon DEF Background, Settle, DispatchOpenSearch, ReadForDispatch
  <1> QED BY <1>1, <1>2, <1>3

LEMMA StrandsNobodyStep ==
  IInv /\ SearchHasNoDriver /\ OpenRideStrandsNobody /\ [Next]_vars => OpenRideStrandsNobody'
  <1> SUFFICES ASSUME IInv, SearchHasNoDriver, OpenRideStrandsNobody, [Next]_vars,
                      failures' = 0
               PROVE  NobodyStranded'
    BY DEF OpenRideStrandsNobody, NobodyStranded
  <1>0. IInv' /\ failures \in Nat
    BY InvariantStep DEF IInv, TypeOK
  <1>1. \A s \in Rides : Active(s)' => Active(s) \/ status[s] = "NONE"
    BY <1>0, StepRefines, RidesGoForward DEF IInv, Unseen
  <1>2. ASSUME NEW p \in Calls, AssignError(p) \/ Fail(p) PROVE FALSE
    BY <1>0, <1>2 DEF AssignError, Fail
  <1>3. ASSUME failures' = failures, NEW p \in Calls,
               CallStep(p) \/ Request(p) \/ Background(p)
        PROVE  NobodyStranded'
    <2>1. NobodyStranded
      BY <1>3 DEF OpenRideStrandsNobody, NobodyStranded
    <2>2. CASE LetsBe(p)
      BY <1>1, <2>1, <2>2, LetsBeStrandsNobody
    <2>3. CASE \/ \E d \in Drivers : Reserve(p, d)
               \/ Assign(p) \/ ReleaseOnline(p) \/ ReleaseOffline(p)
               \/ Timeout(p) \/ Reject(p) \/ LeaveOffer(p)
      BY <1>1, <2>1, <2>3, ReserveStrandsNobody, AssignStrandsNobody,
         ReleaseStrandsNobody, WithdrawalStrandsNobody
    <2> QED BY <1>3, <2>2, <2>3, SearchLetsBe, DutyLetsBe DEF CallStep
  <1>4. ASSUME UNCHANGED <<driverOf, current, call>>, failures' = failures
        PROVE  NobodyStranded'
    <2>1. \A q \in Calls, r \in Rides, d \in Drivers : Holds(q, r, d) => Holds(q, r, d)'
      BY <1>4 DEF Holds
    <2> QED BY <1>1, <1>4, <2>1, KeepsReservations DEF OpenRideStrandsNobody, NobodyStranded
  <1>5. CASE \/ \E r \in Rides : Arrived(r) \/ Start(r) \/ OfferLapses(r) \/ SearchLapses(r)
             \/ \E d \in Drivers : Suspend(d) \/ Reinstate(d)
             \/ UNCHANGED vars
    BY <1>4, <1>5 DEF Arrived, Start, DriverMoves, OfferLapses, SearchLapses, Suspend,
       Reinstate, vars, rideVars, driverVars
  <1> QED BY <1>2, <1>3, <1>5, CallsDoNotFail DEF Next

\* An open ride never keeps a driver pointed at it whom nobody will assign or
\* free, for any number of rides, drivers and handlers (dispatch, endAssignment
\* and release pass the reservation on without a gap).
THEOREM NobodyIsStranded == Spec => []OpenRideStrandsNobody
  <1>1. Init => SearchHasNoDriver /\ OpenRideStrandsNobody
    BY DEF Init, SearchHasNoDriver, OpenRideStrandsNobody
  <1>2. IInv /\ SearchHasNoDriver /\ [Next]_vars => SearchHasNoDriver'
    BY InvariantStep, StepRefines, RidesGoForward DEF IInv, Unseen
  <1> QED BY <1>1, <1>2, StrandsNobodyStep, Invariance, PTL DEF Spec

-----------------------------------------------------------------------------
(* Trips are credited once.                                                *)

\* Call p will add ride r to driver d's trips, if the pointer is still there.
Credits(p, r, d) ==
  /\ call[p].ride = r /\ call[p].driver = d /\ call[p].after = "credit"
  /\ call[p].pc \in {"release", "releaseOffline"}

\* Only the one call that completed a ride credits it, to the ride's driver.
CreditsAreDue ==
  \A p \in Calls, r \in Rides, d \in Drivers :
    Credits(p, r, d) =>
      /\ status[r] = "COMPLETED" /\ driverOf[r] = d
      /\ \A q \in Calls : Credits(q, r, d) => q = p

\* However many ride ids there are, finitely many are booked.
Booked == {r \in Rides : status[r] # "NONE"}
BookedIsFinite == IsFiniteSet(Booked)

Credited(d) == {r \in Completed(d) : ~CreditPending(r, d)}

TripsIInv == CreditsAreDue /\ BookedIsFinite /\ TripsAreCreditedOnce

LEMMA BookedStaysFinite ==
  ASSUME BookedIsFinite,
         \E r : \A s \in Rides : status'[s] # "NONE" => s = r \/ status[s] # "NONE"
  PROVE  BookedIsFinite'
  <1>1. PICK r : \A s \in Rides : status'[s] # "NONE" => s = r \/ status[s] # "NONE"
    OBVIOUS
  <1>2. IsFiniteSet(Booked \cup {r})
    BY FS_AddElement DEF BookedIsFinite
  <1>3. Booked' \in SUBSET (Booked \cup {r})
    BY <1>1 DEF Booked
  <1> QED BY <1>2, <1>3, FS_Subset DEF BookedIsFinite

LEMMA CreditedIsFinite ==
  ASSUME BookedIsFinite, BookedIsFinite', NEW d
  PROVE  IsFiniteSet(Credited(d)) /\ IsFiniteSet(Credited(d)')
  <1>1. Credited(d) \in SUBSET Booked /\ Credited(d)' \in SUBSET Booked'
    BY DEF Credited, Completed, Booked
  <1> QED BY <1>1, FS_Subset DEF BookedIsFinite

\* A trip that was credited stays credited.
LEMMA CreditedStay ==
  ASSUME \A s \in Rides : status[s] = "COMPLETED" =>
           status'[s] = "COMPLETED" /\ driverOf'[s] = driverOf[s],
         NEW d \in Drivers,
         \A q \in Calls, s \in Rides :
           Credits(q, s, d)' => Credits(q, s, d) \/ status[s] # "COMPLETED"
  PROVE  Credited(d) \subseteq Credited(d)'
  <1> SUFFICES ASSUME NEW s \in Credited(d) PROVE s \in Credited(d)'
    OBVIOUS
  <1>1. /\ s \in Rides /\ status[s] = "COMPLETED" /\ driverOf[s] = d
        /\ ~CreditPending(s, d)
    BY DEF Credited, Completed
  <1>2. ~CreditPending(s, d)'
    BY <1>1 DEF CreditPending, Credits
  <1> QED BY <1>1, <1>2 DEF Credited, Completed

\* A step that credits nobody.
LEMMA UncountedStep ==
  ASSUME IInv, TripsIInv, BookedIsFinite', UNCHANGED totalRides,
         \A s \in Rides : status[s] = "COMPLETED" =>
           status'[s] = "COMPLETED" /\ driverOf'[s] = driverOf[s],
         \A q \in Calls, s \in Rides, d \in Drivers :
           Credits(q, s, d)' => Credits(q, s, d) \/ status[s] # "COMPLETED"
  PROVE  TripsAreCreditedOnce'
  <1> SUFFICES ASSUME NEW d \in Drivers PROVE totalRides[d] <= Cardinality(Credited(d)')
    BY DEF TripsAreCreditedOnce, Credited
  <1>1. Credited(d) \subseteq Credited(d)'
    BY CreditedStay
  <1>2. IsFiniteSet(Credited(d)) /\ IsFiniteSet(Credited(d)')
    BY CreditedIsFinite DEF TripsIInv
  <1>3. /\ Cardinality(Credited(d)) \in Nat /\ Cardinality(Credited(d)') \in Nat
        /\ Cardinality(Credited(d)) <= Cardinality(Credited(d)')
    <2> DEFINE now == Credited(d)
               next == Credited(d)'
    <2>1. now \subseteq next /\ IsFiniteSet(now) /\ IsFiniteSet(next)
      BY <1>1, <1>2
    <2> HIDE DEF now, next
    <2>2. /\ Cardinality(now) \in Nat /\ Cardinality(next) \in Nat
          /\ Cardinality(now) <= Cardinality(next)
      BY <2>1, FS_Subset, FS_CardinalityType
    <2> QED BY <2>2 DEF now, next
  <1>4. totalRides[d] \in Nat /\ totalRides[d] <= Cardinality(Credited(d))
    BY DEF IInv, TypeOK, TripsIInv, TripsAreCreditedOnce, Credited
  <1> QED BY <1>3, <1>4

LEMMA PlainTrips ==
  ASSUME IInv, TripsIInv, BookedIsFinite', UNCHANGED totalRides,
         \A s \in Rides : status[s] = "COMPLETED" =>
           status'[s] = "COMPLETED" /\ driverOf'[s] = driverOf[s],
         \A q \in Calls, s \in Rides, d \in Drivers : Credits(q, s, d)' => Credits(q, s, d)
  PROVE  TripsIInv'
  <1>1. TripsAreCreditedOnce'
    BY UncountedStep
  <1>2. CreditsAreDue'
    BY DEF TripsIInv, CreditsAreDue
  <1> QED BY <1>1, <1>2 DEF TripsIInv

\* A call that goes on to something other than a credit.
Plain(p) ==
  /\ \A q \in Calls \ {p} : call'[q] = call[q]
  /\ call'[p].pc \in {"release", "releaseOffline"} => call'[p].after # "credit"

LEMMA PlainBecome ==
  ASSUME TypeOK, NEW p \in Calls, NEW c, Become(p, c),
         c.pc \in {"release", "releaseOffline"} => c.after # "credit"
  PROVE  Plain(p)
  BY DEF Plain, Become, TypeOK

LEMMA PlainReturn ==
  ASSUME TypeOK, NEW p \in Calls, Return(p)
  PROVE  Plain(p)
  BY ReturnCall, PlainBecome

LEMMA PlainGoto ==
  ASSUME TypeOK, NEW p \in Calls, NEW label \in Pc \ {"release", "releaseOffline"},
         Goto(p, label)
  PROVE  Plain(p)
  <1>1. [call[p] EXCEPT !.pc = label].pc = label
    BY DEF TypeOK, CallType
  <1> QED BY <1>1, PlainBecome DEF Goto

LEMMA PlainRelease ==
  ASSUME TypeOK, NEW p \in Calls, NEW d, NEW after, after # "credit", Release(p, d, after)
  PROVE  Plain(p)
  <1>1. [call[p] EXCEPT !.pc = "release", !.driver = d, !.after = after].after = after
    BY DEF TypeOK, CallType
  <1> QED BY <1>1, PlainBecome DEF Release

LEMMA PlainRead ==
  ASSUME TypeOK, NEW p \in Calls, NEW c \in CallType,
         ReadForDispatch(p, c) \/ ReadForCancel(p, c)
  PROVE  Plain(p)
  <1>1. /\ [c EXCEPT !.pc = "expire"].pc = "expire"
        /\ [c EXCEPT !.pc = "find", !.seen = rejected[c.ride]].pc = "find"
        /\ [c EXCEPT !.pc = "cancel", !.from = status[c.ride],
                     !.driver = driverOf[c.ride]].pc = "cancel"
    BY DEF CallType
  <1>2. CASE ReadForDispatch(p, c)
    BY <1>1, <1>2, PlainBecome, PlainReturn, Zenon DEF ReadForDispatch
  <1>3. CASE ReadForCancel(p, c)
    BY <1>1, <1>3, PlainBecome, PlainReturn, Zenon DEF ReadForCancel
  <1> QED BY <1>2, <1>3

LEMMA SearchIsPlain ==
  ASSUME IInv, NEW p \in Calls,
         \/ InsertRide(p) \/ Dispatch(p) \/ FindCandidates(p)
         \/ (\E d \in Drivers : Reserve(p, d))
         \/ Assign(p) \/ AssignError(p) \/ ExpireSearch(p)
  PROVE  Plain(p)
  <1>0. TypeOK /\ call[p] \in CallType
    BY DEF IInv, TypeOK
  <1>1. CASE InsertRide(p)
    BY <1>0, <1>1, PlainGoto, PlainReturn DEF InsertRide, Pc
  <1>2. CASE Dispatch(p)
    BY <1>0, <1>2, PlainRead DEF Dispatch
  <1>3. CASE FindCandidates(p)
    <2>1. ASSUME NEW near PROVE [call[p] EXCEPT !.pc = "reserve", !.seen = near].pc = "reserve"
      BY <1>0 DEF CallType
    <2> QED BY <1>0, <1>3, <2>1, PlainBecome, PlainReturn, Zenon DEF FindCandidates
  <1>4. ASSUME NEW d \in Drivers, Reserve(p, d) PROVE Plain(p)
    <2>1. call[p].pc = "reserve"
      BY <1>4, Zenon DEF Reserve, Running
    <2>2. /\ [call[p] EXCEPT !.pc = "assign", !.driver = d].pc = "assign"
          /\ [call[p] EXCEPT !.seen = call[p].seen \ {d}].pc = "reserve"
      BY <1>0, <2>1 DEF CallType
    <2> QED BY <1>0, <1>4, <2>2, PlainBecome, PlainReturn, Zenon DEF Reserve
  <1>5. CASE Assign(p)
    BY <1>0, <1>5, PlainRelease, PlainReturn DEF Assign
  <1>6. CASE AssignError(p)
    <2>1. [call[p] EXCEPT !.pc = "release", !.after = "done", !.leaving = NoDriver].after = "done"
      BY <1>0 DEF CallType
    <2> QED BY <1>0, <1>6, <2>1, PlainBecome DEF AssignError
  <1>7. CASE ExpireSearch(p)
    BY <1>0, <1>7, PlainReturn DEF ExpireSearch
  <1> QED BY <1>1, <1>2, <1>3, <1>4, <1>5, <1>6, <1>7

LEMMA AnswerIsPlain ==
  ASSUME IInv, NEW p \in Calls,
         \/ Timeout(p) \/ Accept(p) \/ Reject(p) \/ ExplainOfferFailure(p)
         \/ CancelReread(p) \/ Cancel(p)
  PROVE  Plain(p)
  <1>0. TypeOK /\ call[p] \in CallType
    BY DEF IInv, TypeOK
  <1>1. CASE Timeout(p) \/ Reject(p)
    BY <1>0, <1>1, PlainGoto, PlainReturn, PlainRelease DEF Timeout, Reject, EndAssignment, Pc
  <1>2. CASE Accept(p) \/ ExplainOfferFailure(p)
    BY <1>0, <1>2, PlainGoto, PlainReturn DEF Accept, ExplainOfferFailure, Pc
  <1>3. CASE CancelReread(p)
    BY <1>0, <1>3, PlainRead DEF CancelReread
  <1>4. CASE Cancel(p)
    <2>1. [call[p] EXCEPT !.pc = "cancelRead", !.tries = @ - 1].pc = "cancelRead"
      BY <1>0 DEF CallType
    <2> QED BY <1>0, <1>4, <2>1, PlainBecome, PlainReturn, PlainRelease, Zenon DEF Cancel
  <1> QED BY <1>1, <1>2, <1>3, <1>4

LEMMA DutyIsPlain ==
  ASSUME IInv, NEW p \in Calls,
         \/ GoOnline(p) \/ OfflineReadRide(p) \/ LeaveOffer(p) \/ GoOffline(p)
         \/ HealCheck(p) \/ Heal(p) \/ Fail(p)
  PROVE  Plain(p)
  <1>0. TypeOK /\ call[p] \in CallType
    BY DEF IInv, TypeOK
  <1>1. CASE GoOnline(p) \/ Heal(p)
    BY <1>0, <1>1, PlainReturn, Zenon DEF GoOnline, Heal
  <1>2. CASE OfflineReadRide(p) \/ HealCheck(p)
    <2>1. [call[p] EXCEPT !.pc = "leave", !.leaving = call[p].driver].pc = "leave"
      BY <1>0 DEF CallType
    <2>2. {"offline", "heal"} \subseteq Pc \ {"release", "releaseOffline"}
      BY DEF Pc
    <2> QED BY <1>0, <1>2, <2>1, <2>2, PlainBecome, PlainGoto, PlainReturn
            DEF OfflineReadRide, HealCheck
  <1>3. CASE LeaveOffer(p)
    BY <1>0, <1>3, PlainReturn, PlainRelease DEF LeaveOffer, EndAssignment
  <1>4. CASE GoOffline(p) \/ Fail(p)
    <2>1. ASSUME NEW d, NEW r
          PROVE  [Idle EXCEPT !.pc = "healCheck", !.driver = d, !.ride = r].pc = "healCheck"
      BY DEF Idle
    <2>2. Idle.pc = "idle"
      BY DEF Idle
    <2> QED BY <1>0, <1>4, <2>1, <2>2, PlainBecome DEF GoOffline, Fail
  <1> QED BY <1>1, <1>2, <1>3, <1>4

LEMMA StartIsPlain ==
  ASSUME IInv, NEW p \in Calls, Request(p) \/ Background(p)
  PROVE  Plain(p)
  <1>0. TypeOK
    BY DEF IInv
  <1>1. ASSUME NEW c, Become(p, c), c.pc \notin {"release", "releaseOffline"} PROVE Plain(p)
    BY <1>0, <1>1, PlainBecome
  <1>2. ASSUME NEW r \in Rides,
               Book(p, r) \/ FinishRead(p, r) \/ Settle(p, r)
        PROVE  Plain(p)
    BY <1>1, <1>2 DEF Book, FinishRead, Settle, Idle
  <1>3. ASSUME NEW r \in Rides, DispatchOpenSearch(p, r) PROVE Plain(p)
    <2>1. [Idle EXCEPT !.ride = r] \in CallType
      BY IdleType DEF CallType
    <2> QED BY <1>0, <1>3, <2>1, PlainRead DEF DispatchOpenSearch
  <1>4. ASSUME NEW r \in Rides, NEW actor \in {"CUSTOMER", "DRIVER", "ADMIN"},
               TapCancel(p, r, actor)
        PROVE  Plain(p)
    <2> DEFINE n == IF actor = "ADMIN" THEN 1 ELSE MaxCancelRetries
    <2>1. [Idle EXCEPT !.ride = r, !.actor = actor, !.tries = n] \in CallType
      <3>1. n \in 0..MaxCancelRetries
        OBVIOUS
      <3> QED BY <3>1, IdleType DEF CallType
    <2> QED BY <1>0, <1>4, <2>1, PlainRead DEF TapCancel
  <1>5. ASSUME NEW r \in Rides, NEW d \in Drivers,
               \/ TapAccept(p, r, d) \/ TapReject(p, r, d)
        PROVE  Plain(p)
    BY <1>1, <1>5 DEF TapAccept, TapReject, Idle
  <1>6. ASSUME NEW d \in Drivers, TapOnline(p, d) \/ TapOffline(p, d) PROVE Plain(p)
    BY <1>1, <1>6 DEF TapOnline, TapOffline, Idle
  <1> QED BY <1>2, <1>3, <1>4, <1>5, <1>6 DEF Request, Background

\* The trip counter of every step but a release stays where it is.
LEMMA OnlyReleasesCount ==
  ASSUME NEW p \in Calls,
         \/ CallStep(p) /\ ~ReleaseOnline(p) /\ ~ReleaseOffline(p)
         \/ Request(p) \/ Background(p) \/ AssignError(p) \/ Fail(p)
  PROVE  UNCHANGED totalRides
  <1> USE DEF driverVars
  <1>1. CASE InsertRide(p) \/ Dispatch(p) \/ FindCandidates(p)
             \/ (\E d \in Drivers : Reserve(p, d)) \/ Assign(p) \/ ExpireSearch(p)
    BY <1>1, Zenon DEF InsertRide, Dispatch, ReadForDispatch, FindCandidates, Reserve, Assign,
       ExpireSearch
  <1>2. CASE Timeout(p) \/ Accept(p) \/ Reject(p) \/ ExplainOfferFailure(p)
             \/ Finish(p) \/ CancelReread(p) \/ Cancel(p)
    BY <1>2, Zenon DEF Timeout, Accept, Reject, EndAssignment, ExplainOfferFailure, Finish,
       CancelReread, ReadForCancel, Cancel
  <1>3. CASE GoOnline(p) \/ OfflineReadRide(p) \/ LeaveOffer(p) \/ GoOffline(p)
             \/ HealCheck(p) \/ Heal(p) \/ AssignError(p) \/ Fail(p)
    BY <1>3, Zenon DEF GoOnline, OfflineReadRide, LeaveOffer, EndAssignment, GoOffline,
       HealCheck, Heal, AssignError, Fail
  <1>4. CASE Request(p)
    BY <1>4, Zenon DEF Request, Book, FinishRead, TapAccept, TapReject, TapCancel,
       ReadForCancel, TapOnline, TapOffline
  <1>5. CASE Background(p)
    BY <1>5, Zenon DEF Background, Settle, DispatchOpenSearch, ReadForDispatch
  <1> QED BY <1>1, <1>2, <1>3, <1>4, <1>5 DEF CallStep

LEMMA PlainCredits ==
  ASSUME NEW p \in Calls, Plain(p)
  PROVE  \A q \in Calls, s \in Rides, d \in Drivers : Credits(q, s, d)' => Credits(q, s, d)
  BY DEF Plain, Credits

\* The completion: its call alone will credit the ride it has just completed.
LEMMA FinishCountsOnce ==
  ASSUME IInv, TripsIInv, BookedIsFinite', NEW p \in Calls, Finish(p),
         UNCHANGED totalRides,
         \A s \in Rides : status[s] = "COMPLETED" =>
           status'[s] = "COMPLETED" /\ driverOf'[s] = driverOf[s]
  PROVE  TripsIInv'
  <1> DEFINE r == call[p].ride
             d == call[p].driver
             c == [call[p] EXCEPT !.pc = "release", !.driver = d, !.after = "credit"]
  <1>1. CASE Return(p)
    BY <1>1, PlainReturn, PlainCredits, PlainTrips DEF IInv
  <1>2. CASE /\ status[r] = "RIDE_STARTED" /\ driverOf[r] = d
             /\ status' = [status EXCEPT ![r] = "COMPLETED"]
             /\ Release(p, d, "credit")
    <2>1. /\ call \in [Calls -> CallType] /\ call[p] \in CallType
          /\ r \in Rides /\ d \in Drivers /\ UNCHANGED driverOf
      BY DEF IInv, TypeOK, Labels, LabelOK, Finish, Running
    <2>2. Become(p, c) /\ c.ride = r /\ c.driver = d
      BY <1>2, <2>1 DEF Release, CallType
    <2> HIDE DEF c
    <2>3. \A q \in Calls, s \in Rides, e \in Drivers :
            Credits(q, s, e)' => Credits(q, s, e) \/ (q = p /\ s = r /\ e = d)
      BY <2>1, <2>2 DEF Credits, Become
    <2>4. \A q \in Calls, e \in Drivers, s \in Rides : s = r => ~Credits(q, s, e)
      BY <1>2, <2>1 DEF TripsIInv, CreditsAreDue
    <2>5. CreditsAreDue'
      <3> SUFFICES ASSUME NEW q \in Calls, NEW s \in Rides, NEW e \in Drivers,
                          Credits(q, s, e)'
                   PROVE  /\ status'[s] = "COMPLETED" /\ driverOf'[s] = e
                          /\ \A q2 \in Calls : Credits(q2, s, e)' => q2 = q
        BY DEF CreditsAreDue
      <3>1. CASE s = r
        BY <1>2, <2>1, <2>3, <2>4, <3>1 DEF IInv, TypeOK
      <3>2. CASE s # r
        BY <2>3, <3>2 DEF TripsIInv, CreditsAreDue
      <3> QED BY <3>1, <3>2
    <2>6. TripsAreCreditedOnce'
      <3>1. \A q \in Calls, s \in Rides, e \in Drivers :
              Credits(q, s, e)' => Credits(q, s, e) \/ status[s] # "COMPLETED"
        BY <1>2, <2>3
      <3> QED BY <3>1, UncountedStep
    <2> QED BY <2>5, <2>6 DEF TripsIInv
  <1> QED BY <1>1, <1>2 DEF Finish, Apply

\* The release credits the completed ride and is over.
LEMMA ReleaseCountsOnce ==
  ASSUME IInv, TripsIInv, BookedIsFinite', NEW p \in Calls,
         ReleaseOnline(p) \/ ReleaseOffline(p),
         \A s \in Rides : status[s] = "COMPLETED" =>
           status'[s] = "COMPLETED" /\ driverOf'[s] = driverOf[s]
  PROVE  TripsIInv'
  <1> DEFINE r == call[p].ride
             d == call[p].driver
             c == [call[p] EXCEPT !.pc = "releaseOffline"]
  <1>0. /\ call \in [Calls -> CallType] /\ call[p] \in CallType /\ TypeOK
        /\ call[p].pc \in {"release", "releaseOffline"}
        /\ r \in Rides /\ d \in Drivers
        /\ totalRides \in [Drivers -> Nat]
    BY DEF ReleaseOnline, ReleaseOffline, Running, IInv, TypeOK, Labels, LabelOK
  <1>1. CASE Goto(p, "releaseOffline") /\ UNCHANGED totalRides
    <2>1. /\ Become(p, c) /\ c.ride = r /\ c.driver = d
          /\ c.after = call[p].after
      BY <1>0, <1>1 DEF Goto, CallType
    <2> HIDE DEF c
    <2>2. \A q \in Calls, s \in Rides, e \in Drivers : Credits(q, s, e)' => Credits(q, s, e)
      BY <1>0, <2>1 DEF Credits, Become
    <2> QED BY <1>1, <2>2, PlainTrips
  <1>2. ASSUME AfterRelease(p) PROVE Plain(p)
    BY <1>0, <1>2, PlainGoto, PlainReturn DEF AfterRelease, Pc
  <1>3. CASE AfterRelease(p) /\ UNCHANGED totalRides
    BY <1>2, <1>3, PlainCredits, PlainTrips
  <1>4. CASE /\ AfterRelease(p) /\ call[p].after = "credit"
             /\ totalRides' = [totalRides EXCEPT ![d] = @ + 1]
    <2>1. \A q \in Calls, s \in Rides, e \in Drivers : Credits(q, s, e)' => Credits(q, s, e)
      BY <1>2, <1>4, PlainCredits
    <2>2. CreditsAreDue'
      BY <2>1 DEF TripsIInv, CreditsAreDue
    <2>3. Credits(p, r, d)
      BY <1>0, <1>4 DEF Credits
    <2>4. /\ status[r] = "COMPLETED" /\ driverOf[r] = d
          /\ \A q \in Calls : Credits(q, r, d) => q = p
      BY <1>0, <2>3 DEF TripsIInv, CreditsAreDue
    <2>5. \A e \in Drivers : \A s \in Rides : ~Credits(p, s, e)'
      BY <1>2, <1>4 DEF Plain, Credits
    <2>6. TripsAreCreditedOnce'
      <3> SUFFICES ASSUME NEW e \in Drivers
                   PROVE  totalRides'[e] <= Cardinality(Credited(e)')
        BY DEF TripsAreCreditedOnce, Credited
      <3> DEFINE now == Credited(e)
                 next == Credited(e)'
                 more == IF e = d THEN now \cup {r} ELSE now
      <3>1. IsFiniteSet(now) /\ IsFiniteSet(next)
        BY CreditedIsFinite DEF TripsIInv
      <3>2. now \subseteq next
        BY <2>1, CreditedStay
      <3>3. e = d => r \in next /\ r \notin now
        <4>1. e = d => r \notin now
          BY <2>3 DEF Credited, CreditPending, Credits
        <4>2. \A s \in Rides : s = r /\ e = d => s \in next
          <5> SUFFICES ASSUME NEW s \in Rides, s = r, e = d PROVE s \in Credited(e)'
            OBVIOUS
          <5>1. status'[s] = "COMPLETED" /\ driverOf'[s] = e
            BY <2>4
          <5>2. \A q \in Calls : ~Credits(q, s, e)'
            BY <2>1, <2>4, <2>5
          <5> QED BY <5>1, <5>2 DEF Credited, Completed, CreditPending, Credits
        <4> QED BY <1>0, <4>1, <4>2
      <3>4. totalRides[e] \in Nat /\ totalRides[e] <= Cardinality(now)
        BY <1>0 DEF TripsIInv, TripsAreCreditedOnce, Credited
      <3>5. totalRides'[e] = IF e = d THEN totalRides[e] + 1 ELSE totalRides[e]
        BY <1>0, <1>4
      <3> HIDE DEF now, next
      <3>6. /\ Cardinality(now) \in Nat /\ Cardinality(next) \in Nat
        BY <3>1, FS_CardinalityType
      <3>7. CASE e = d
        <4>1. /\ IsFiniteSet(now \cup {r})
              /\ Cardinality(now \cup {r}) = Cardinality(now) + 1
          BY <3>1, <3>3, <3>7, FS_AddElement
        <4>2. Cardinality(now \cup {r}) <= Cardinality(next)
          BY <3>1, <3>2, <3>3, <3>7, FS_Subset
        <4> QED BY <3>4, <3>5, <3>6, <3>7, <4>1, <4>2 DEF next
      <3>8. CASE e # d
        <4>1. Cardinality(now) <= Cardinality(next)
          BY <3>1, <3>2, FS_Subset
        <4> QED BY <3>4, <3>5, <3>6, <3>8, <4>1 DEF next
      <3> QED BY <3>7, <3>8
    <2> QED BY <2>2, <2>6 DEF TripsIInv
  <1>5. \/ Goto(p, "releaseOffline") /\ UNCHANGED totalRides
        \/ AfterRelease(p) /\ UNCHANGED totalRides
        \/ AfterRelease(p) /\ Credit(d, p)
    BY DEF ReleaseOnline, ReleaseOffline
  <1> QED BY <1>1, <1>3, <1>4, <1>5 DEF Credit

LEMMA TripsStep ==
  IInv /\ TripsIInv /\ [Next]_vars => TripsIInv'
  <1> SUFFICES ASSUME IInv, TripsIInv, [Next]_vars PROVE TripsIInv'
    OBVIOUS
  <1>1. /\ \A s \in Rides : status[s] = "COMPLETED" =>
             status'[s] = "COMPLETED" /\ driverOf'[s] = driverOf[s]
        /\ \E r : \A s \in Rides : status'[s] # "NONE" => s = r \/ status[s] # "NONE"
    BY InvariantStep, StepRefines, RidesGoForward DEF IInv, Unseen
  <1>2. BookedIsFinite'
    BY <1>1, BookedStaysFinite DEF TripsIInv
  <1>3. ASSUME NEW p \in Calls, Plain(p), UNCHANGED totalRides PROVE TripsIInv'
    BY <1>1, <1>2, <1>3, PlainCredits, PlainTrips
  <1>4. ASSUME NEW p \in Calls, AssignError(p) \/ Fail(p) PROVE TripsIInv'
    BY <1>3, <1>4, OnlyReleasesCount, SearchIsPlain, DutyIsPlain
  <1>5. ASSUME NEW p \in Calls, Request(p) \/ Background(p) PROVE TripsIInv'
    BY <1>3, <1>5, OnlyReleasesCount, StartIsPlain
  <1>6. ASSUME NEW p \in Calls, CallStep(p) PROVE TripsIInv'
    <2>1. CASE ReleaseOnline(p) \/ ReleaseOffline(p)
      BY <1>1, <1>2, <2>1, ReleaseCountsOnce
    <2>2. CASE ~ReleaseOnline(p) /\ ~ReleaseOffline(p)
      <3>1. UNCHANGED totalRides
        BY <1>6, <2>2, OnlyReleasesCount
      <3>2. CASE Finish(p)
        BY <1>1, <1>2, <3>1, <3>2, FinishCountsOnce
      <3>3. CASE ~Finish(p)
        <4>1. Plain(p)
          BY <1>6, <2>2, <3>3, SearchIsPlain, AnswerIsPlain, DutyIsPlain DEF CallStep
        <4> QED BY <1>3, <3>1, <4>1
      <3> QED BY <3>2, <3>3
    <2> QED BY <2>1, <2>2
  <1>7. CASE \/ \E r \in Rides : Arrived(r) \/ Start(r) \/ OfferLapses(r) \/ SearchLapses(r)
             \/ \E d \in Drivers : Suspend(d) \/ Reinstate(d)
             \/ UNCHANGED vars
    <2>1. UNCHANGED <<totalRides, call>>
      BY <1>7 DEF Arrived, Start, DriverMoves, OfferLapses, SearchLapses, Suspend,
         Reinstate, vars, driverVars
    <2>2. \A q \in Calls, s \in Rides, d \in Drivers : Credits(q, s, d)' => Credits(q, s, d)
      BY <2>1 DEF Credits
    <2> QED BY <1>1, <1>2, <2>1, <2>2, PlainTrips
  <1> QED BY <1>4, <1>5, <1>6, <1>7 DEF Next

LEMMA InitTrips == Init => TripsIInv
  <1> SUFFICES ASSUME Init PROVE TripsIInv
    OBVIOUS
  <1>1. CreditsAreDue
    BY DEF Init, CreditsAreDue, Credits, Idle
  <1>2. Booked = {} /\ \A d : Credited(d) = {}
    BY DEF Init, Booked, Credited, Completed
  <1>3. BookedIsFinite /\ Cardinality({}) = 0
    BY <1>2, FS_EmptySet DEF BookedIsFinite
  <1>4. TripsAreCreditedOnce
    <2> SUFFICES ASSUME NEW d \in Drivers PROVE totalRides[d] <= Cardinality(Credited(d))
      BY DEF TripsAreCreditedOnce, Credited
    <2>1. totalRides[d] = 0 /\ Cardinality(Credited(d)) = 0
      BY <1>2, <1>3 DEF Init
    <2> QED BY <2>1
  <1> QED BY <1>1, <1>3, <1>4 DEF TripsIInv

\* A completed trip is added to its driver's totalRides at most once, and only
\* by the call that completed it, whatever completes, cancels, heals or dies at
\* the same moment (MatchingService.release guards the $inc).
THEOREM TripsCreditedOnce == Spec => []TripsAreCreditedOnce
  <1>1. TripsIInv => TripsAreCreditedOnce
    BY DEF TripsIInv
  <1> QED BY <1>1, InitTrips, TripsStep, Invariance, PTL DEF Spec
=============================================================================
