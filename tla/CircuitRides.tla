---------------------------- MODULE CircuitRides ----------------------------
(***************************************************************************)
(* A started circuit: the driver's commands on its stops, the blocked-stop *)
(* exception, the admin's interventions, completion and the monitor that   *)
(* measures usage and sends the warnings (CircuitExecutionService,         *)
(* CircuitMonitorService, STOP_COMMANDS).                                  *)
(*                                                                         *)
(* A request reads the ride, judges, and writes with a compare-and-set.    *)
(* Distance is counted in warning steps; positions and prices are left out.*)
(***************************************************************************)
EXTENDS Integers, FiniteSets, FiniteSetsExt

CONSTANTS
  Commands,     \* driver requests in flight
  Admins,       \* admin requests in flight
  Monitors,     \* instances that run the monitor
  Stops,        \* number of stops
  Included,     \* included distance; the "running low" warning fires one below it
  Booked,       \* ride.distanceMeters, of the booked route
  MaxReports    \* bound: blocked reports

VARIABLES
  status,       \* RIDE_STARTED or COMPLETED
  stop,         \* stop[o]: CircuitStopStatus
  current,      \* circuit.currentStopOrder
  exception,    \* order of the blocked stop; 0: none
  command, desk,
  driverBusy,   \* the driver still holds the ride
  travelled,    \* metres the GPS trail shows
  usage,        \* circuit.usage.distanceMeters
  monitor,      \* monitor[m]: [pc, old, new, due]
  flags,        \* circuit.warnings
  sent,         \* notices sent, per warning
  reports, finishes

circuitVars == <<status, stop, current, exception, command, desk, driverBusy, travelled, usage, monitor,
                 flags, sent, reports, finishes>>

CIRCUIT_STOP_DONE == {"COMPLETED", "SKIPPED"}
STOP_RANK == [UPCOMING |-> 0, ARRIVING |-> 1, ARRIVED |-> 2, WAITING |-> 3, COMPLETED |-> 4, SKIPPED |-> 4]
STOP_COMMANDS ==
  [ARRIVE |-> [from |-> {"ARRIVING"}, to |-> "ARRIVED"],
   WAIT |-> [from |-> {"ARRIVED"}, to |-> "WAITING"],
   COMPLETE |-> [from |-> {"ARRIVED", "WAITING"}, to |-> "COMPLETED"]]
Warnings == {"DISTANCE_80", "DISTANCE_EXHAUSTED"}
\* dueWarnings, for distance.
Due(used) == IF used >= Included THEN {"DISTANCE_EXHAUSTED"}
             ELSE IF used >= Included - 1 THEN {"DISTANCE_80"} ELSE {}
Resting == [pc |-> "idle", order |-> 0]
Asleep == [pc |-> "idle", old |-> 0, new |-> 0, due |-> {}]
Running == status = "RIDE_STARTED"

RideCircuitStop == DOMAIN STOP_RANK
RideCircuitUsage == 0..Included \cup {Booked}
RideCircuitException == 0..Stops            \* the order of the blocked stop

\* RideLifecycleService.start makes the first stop the one being driven to.
Init ==
  /\ status = "RIDE_STARTED" /\ current = 1 /\ exception = 0
  /\ stop = [o \in 1..Stops |-> IF o = 1 THEN "ARRIVING" ELSE "UPCOMING"]
  /\ command = [c \in Commands |-> Resting] /\ desk = [a \in Admins |-> Resting]
  /\ driverBusy = TRUE
  /\ travelled = 0 /\ usage = 0 /\ monitor = [m \in Monitors |-> Asleep]
  /\ flags = {} /\ sent = [w \in Warnings |-> 0]
  /\ reports = 0 /\ finishes = 0

watchVars == <<travelled, monitor, flags, sent>>
usageVars == <<usage, watchVars>>
Moved(o, how) ==
  [s \in 1..Stops |-> IF s = o THEN how ELSE IF s = o + 1 THEN "ARRIVING" ELSE stop[s]]

\* The judgement on the ride that was read: a step already taken is answered, not repeated.
CommandRead(c) ==
  /\ command[c].pc = "idle" /\ Running
  /\ \E o \in 1..Stops :
       \/ \E do \in DOMAIN STOP_COMMANDS :
            /\ stop[o] \in STOP_COMMANDS[do].from
            /\ STOP_RANK[stop[o]] < STOP_RANK[STOP_COMMANDS[do].to]
            /\ exception = 0 /\ o = current
            /\ command' = [command EXCEPT ![c] = [pc |-> do, order |-> o]]
       \/ /\ exception = 0 /\ o = current /\ stop[o] \notin CIRCUIT_STOP_DONE /\ reports < MaxReports
          /\ command' = [command EXCEPT ![c] = [pc |-> "BLOCKED", order |-> o]]
  /\ UNCHANGED <<status, stop, current, exception, desk, driverBusy, usageVars, reports, finishes>>

\* (A bug: an open exception does not stop the driver.)
AdmitsBlocked(c) == Running /\ current = command[c].order
\* The guard of every stop write.
Admits(c) == Running /\ current = command[c].order /\ exception = 0

StopWrite(c) ==
  /\ command[c].pc \in DOMAIN STOP_COMMANDS
  /\ LET do == STOP_COMMANDS[command[c].pc]  o == command[c].order IN
     IF Admits(c) /\ stop[o] \in do.from
     THEN IF do.to = "COMPLETED"
          THEN stop' = Moved(o, "COMPLETED") /\ current' = o + 1
          ELSE stop' = [stop EXCEPT ![o] = do.to] /\ UNCHANGED current
     ELSE UNCHANGED <<stop, current>>
  /\ command' = [command EXCEPT ![c] = Resting]
  /\ UNCHANGED <<status, exception, desk, driverBusy, usageVars, reports, finishes>>

ReportStopBlocked(c) ==
  /\ command[c].pc = "BLOCKED" /\ (Admits(c) => reports < MaxReports)
  /\ IF Admits(c) THEN exception' = command[c].order /\ reports' = reports + 1
     ELSE UNCHANGED <<exception, reports>>
  /\ command' = [command EXCEPT ![c] = Resting]
  /\ UNCHANGED <<status, stop, current, desk, driverBusy, usageVars, finishes>>

\* completeCircuit judges, and finish() writes, under the same conditions.
Finishable == Running /\ current > Stops /\ exception = 0
\* What the bill is for replaces the usage, whatever the monitor measured: the trail
\* when it is reliable, else the booked route.
Used == 0..travelled \cup {Booked}
Finish == status' = "COMPLETED" /\ finishes' = finishes + 1 /\ usage' \in Used

CompleteRead(c) ==
  /\ command[c].pc = "idle" /\ Finishable
  /\ command' = [command EXCEPT ![c] = [pc |-> "FINISH", order |-> 0]]
  /\ UNCHANGED <<status, stop, current, exception, desk, driverBusy, usageVars, reports, finishes>>

CompleteCircuit(c) ==
  /\ command[c].pc = "FINISH"
  /\ IF Finishable
     THEN Finish /\ command' = [command EXCEPT ![c] = [pc |-> "RELEASE", order |-> 0]]
     ELSE command' = [command EXCEPT ![c] = Resting] /\ UNCHANGED <<status, usage, finishes>>
  /\ UNCHANGED <<stop, current, exception, desk, driverBusy, watchVars, reports>>

\* matching.release, by whoever completed the ride.
ReleaseAfter(c) ==
  /\ command[c].pc = "RELEASE"
  /\ driverBusy' = FALSE /\ command' = [command EXCEPT ![c] = Resting]
  /\ UNCHANGED <<status, stop, current, exception, desk, usageVars, reports, finishes>>

-----------------------------------------------------------------------------
\* The admin reads the open exception, or a circuit that runs and is to be ended.
DeskRead(a) ==
  /\ desk[a].pc = "idle" /\ Running
  /\ \/ \E how \in {"CONTINUE", "SKIP_STOP"} :
          exception # 0 /\ desk' = [desk EXCEPT ![a] = [pc |-> how, order |-> exception]]
     \/ desk' = [desk EXCEPT ![a] = [pc |-> IF current <= Stops THEN "END" ELSE "FINISH", order |-> 0]]
  /\ UNCHANGED <<status, stop, current, exception, command, driverBusy, usageVars, reports, finishes>>

Resolves(a) == Running /\ exception = desk[a].order

ResolveException(a) ==
  /\ desk[a].pc \in {"CONTINUE", "SKIP_STOP"}
  /\ IF Resolves(a) /\ (desk[a].pc = "SKIP_STOP" => current = desk[a].order)
     THEN /\ exception' = 0
          /\ IF desk[a].pc = "CONTINUE" THEN UNCHANGED <<stop, current>>
             ELSE stop' = Moved(desk[a].order, "SKIPPED") /\ current' = desk[a].order + 1
     ELSE UNCHANGED <<stop, current, exception>>
  /\ desk' = [desk EXCEPT ![a] = Resting]
  /\ UNCHANGED <<status, command, driverBusy, usageVars, reports, finishes>>

\* endEarly: every open stop is skipped, then finish() as the driver's "complete" would.
EndEarly(a) ==
  /\ desk[a].pc = "END"
  /\ IF Running /\ current <= Stops
     THEN /\ stop' = [o \in 1..Stops |-> IF stop[o] \in CIRCUIT_STOP_DONE THEN stop[o] ELSE "SKIPPED"]
          /\ current' = Stops + 1 /\ exception' = 0
          /\ desk' = [desk EXCEPT ![a] = [pc |-> "FINISH", order |-> 0]]
     ELSE desk' = [desk EXCEPT ![a] = Resting] /\ UNCHANGED <<stop, current, exception>>
  /\ UNCHANGED <<status, command, driverBusy, usageVars, reports, finishes>>

EndFinishes(a) ==
  /\ desk[a].pc = "FINISH"
  /\ IF Finishable
     THEN Finish /\ desk' = [desk EXCEPT ![a] = [pc |-> "RELEASE", order |-> 0]]
     ELSE desk' = [desk EXCEPT ![a] = Resting] /\ UNCHANGED <<status, usage, finishes>>
  /\ UNCHANGED <<stop, current, exception, command, driverBusy, watchVars, reports>>

EndReleases(a) ==
  /\ desk[a].pc = "RELEASE"
  /\ driverBusy' = FALSE /\ desk' = [desk EXCEPT ![a] = Resting]
  /\ UNCHANGED <<status, stop, current, exception, command, usageVars, reports, finishes>>

-----------------------------------------------------------------------------
Drive ==
  /\ Running /\ travelled < Included /\ travelled' = travelled + 1
  /\ UNCHANGED <<status, stop, current, exception, command, desk, driverBusy, usage, monitor, flags, sent, reports, finishes>>

rideVars == <<status, stop, current, exception, command, desk, driverBusy, reports, finishes>>

Measured(old, trail) == IF old > trail THEN old ELSE trail

\* check(): the usage read with the ride, and a trail that may miss points.
MonitorReads(m) ==
  /\ monitor[m].pc = "idle" /\ Running
  /\ \E trail \in 0..travelled :
       monitor' = [monitor EXCEPT ![m] = [pc |-> "write", old |-> usage, new |-> Measured(usage, trail), due |-> {}]]
  /\ UNCHANGED <<rideVars, travelled, usage, flags, sent>>

MonitorWrites(m) ==
  /\ monitor[m].pc = "write"
  /\ IF Running
     THEN /\ usage' = monitor[m].new
          /\ monitor' = [monitor EXCEPT ![m] = IF Due(monitor[m].new) = {} THEN Asleep
                                               ELSE [@ EXCEPT !.pc = "warn", !.due = Due(monitor[m].new)]]
     ELSE monitor' = [monitor EXCEPT ![m] = Asleep] /\ UNCHANGED usage
  /\ UNCHANGED <<rideVars, travelled, flags, sent>>

Claimable(w) == Running /\ w \notin flags

MonitorWarns(m) ==
  /\ monitor[m].pc = "warn"
  /\ \E w \in monitor[m].due :
       IF Claimable(w) THEN flags' = flags \cup {w} /\ sent' = [sent EXCEPT ![w] = @ + 1]
       ELSE UNCHANGED <<flags, sent>>
  /\ monitor' = [monitor EXCEPT ![m] = Asleep]
  /\ UNCHANGED <<rideVars, travelled, usage>>

Next ==
  \/ \E c \in Commands : CommandRead(c) \/ StopWrite(c) \/ ReportStopBlocked(c) \/ CompleteRead(c)
                         \/ CompleteCircuit(c) \/ ReleaseAfter(c)
  \/ \E a \in Admins : DeskRead(a) \/ ResolveException(a) \/ EndEarly(a) \/ EndFinishes(a) \/ EndReleases(a)
  \/ \E m \in Monitors : MonitorReads(m) \/ MonitorWrites(m) \/ MonitorWarns(m)
  \/ Drive

Spec == Init /\ [][Next]_circuitVars

-----------------------------------------------------------------------------
TypeOK ==
  /\ status \in {"RIDE_STARTED", "COMPLETED"}
  /\ stop \in [1..Stops -> RideCircuitStop]
  /\ current \in 1..(Stops + 1) /\ exception \in RideCircuitException
  /\ flags \subseteq Warnings /\ usage \in RideCircuitUsage /\ driverBusy \in BOOLEAN

\* Whatever commands race, the stops before the current one are done, the current one is
\* being worked on and the later ones wait ("can never move the circuit twice",
\* circuit-execution.service.ts:71).
StopsInSequence ==
  \A o \in 1..Stops :
    /\ o < current => stop[o] \in CIRCUIT_STOP_DONE
    /\ o = current => stop[o] \in {"ARRIVING", "ARRIVED", "WAITING"}
    /\ o > current => stop[o] = "UPCOMING"

\* The exception is about the stop being worked on, and a circuit ends with none open.
ExceptionIsCurrent == exception # 0 => exception = current /\ Running

\* A circuit is priced once, with every stop done, whoever ends it.
PricedOnce == finishes <= 1 /\ (status = "COMPLETED" => current = Stops + 1 /\ finishes = 1)

\* "Progress stops until then": while the exception is open no stop moves unless the step
\* that moves it also closes the exception (circuit-execution.service.ts:133).
NothingMovesWhileBlockedStep == exception # 0 /\ exception' # 0 => UNCHANGED <<stop, current>>
NothingMovesWhileBlocked == [][NothingMovesWhileBlockedStep]_circuitVars

\* Each warning is sent once, whichever instance measures it.
WarnedOnce == \A w \in Warnings : sent[w] <= 1

\* While the circuit runs, the measured distance shrinks in no other way than by an
\* instance that read it before another wrote more (circuit-monitor.service.ts:129
\* "Distance never goes backwards"); only the completion, which writes what it billed,
\* may replace it by less.
UsageShrinksOnlyByARaceStep ==
  usage' < usage =>
    \/ Running /\ status' = "COMPLETED"
    \/ \E m \in Monitors : monitor[m].pc = "write" /\ monitor[m].old < usage
UsageShrinksOnlyByARace == [][UsageShrinksOnlyByARaceStep]_circuitVars

\* What the circuit was billed for is what it shows from then on: no measurement that was
\* under way at its completion overwrites it (the filter of circuit-monitor.service.ts:136).
BilledUsageStandsStep == ~Running => UNCHANGED usage
BilledUsageStands == [][BilledUsageStandsStep]_circuitVars
=============================================================================
