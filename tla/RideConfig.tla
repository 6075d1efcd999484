------------------------------ MODULE RideConfig ------------------------------
(***************************************************************************)
(* What admins configure of rides: a ride type's switch, the shortest and  *)
(* the longest trip it takes (RideDistanceConfigService), and the two      *)
(* search radii of the platform (PlatformSettingsService); the migration   *)
(* that writes what is missing at every boot; and the bookings that are    *)
(* judged by the limits of the moment (TripPolicyService).                 *)
(*                                                                         *)
(* There is one ride type. A pair is <<minimum, maximum>> of the limits,   *)
(* or <<matching, nearby>> of the radii; 0 is a field that is not sent.    *)
(* Of a tariff only its existence is modelled (module Pricing).            *)
(***************************************************************************)
EXTENDS Integers, FiniteSets

CONSTANTS
  Nodes, Admins, Bookers,      \* instances that boot, and requests in flight
  Starts,                      \* the states of the database to start from
  LimitChanges, RadiusChanges, \* what an admin may send
  LongestMin, LongestMax, WidestRadius,    \* the rails
  DefaultLimits, DefaultRadii, \* MIGRATION_DEFAULTS
  Trips,                       \* straight lines of the trips that are asked for
  MaxEdits, MaxBoots, MaxDeaths    \* bounds

VARIABLES
  type,      \* the ride type: "absent", "off" or "on"
  tariff,    \* it has a tariff
  limits,    \* its ride_distance_configs row: [pair, version, by]
  radii,     \* the platform_settings document: [pair, version, by]
  kept,      \* kept[v]: the limits that were stored as version v
  node,      \* node[n]: [pc, known], known: the ride type was there when the migration listed them
  desk,      \* desk[a]: [pc, op, change, before]
  booking,   \* booking[b]: [pc, trip, since, policy]
  stranded,  \* the request that created the type switched on died under way
  edits, boots, deaths

configVars == <<type, tariff, limits, radii, kept, node, desk, booking, stranded, edits, boots, deaths>>

NoRow == [pair |-> <<0, 0>>, version |-> 0, by |-> "none"]
NoRequest == [pc |-> "idle", op |-> "none", change |-> <<0, 0>>, before |-> NoRow]
NoBooking == [pc |-> "idle", trip |-> 0, since |-> 0, policy |-> NoRow]
Down == [pc |-> "down", known |-> FALSE]

\* Whether a pair of limits, or of radii, can be used.
distanceLimitsProblem(pair) ==
  ~ /\ pair[1] \in 1..LongestMin /\ pair[2] \in 1..LongestMax
    /\ pair[1] < pair[2]
radiiProblem(pair) == ~(pair[1] \in 1..WidestRadius /\ pair[2] \in 1..WidestRadius)

Init ==
  /\ \E start \in Starts :
       /\ type = start.type /\ tariff = start.tariff /\ limits = start.limits /\ radii = start.radii
       /\ kept = [v \in 1..(MaxEdits + 1) |-> IF v = start.limits.version THEN {start.limits.pair} ELSE {}]
  /\ node = [n \in Nodes |-> Down]
  /\ desk = [a \in Admins |-> NoRequest] /\ booking = [b \in Bookers |-> NoBooking]
  /\ stranded = FALSE /\ edits = 0 /\ boots = 0 /\ deaths = 0

-----------------------------------------------------------------------------
(* RideConfigMigration, at every boot *)

Boot(n) ==
  /\ node[n].pc = "down" /\ boots < MaxBoots
  /\ node' = [node EXCEPT ![n] = [pc |-> "limits", known |-> type # "absent"]]
  /\ boots' = boots + 1
  /\ UNCHANGED <<type, tariff, limits, radii, kept, desk, booking, stranded, edits, deaths>>
\* $setOnInsert: a row that exists is not touched.
Inserted(row, pair) == IF row = NoRow THEN [pair |-> pair, version |-> 1, by |-> "migration"] ELSE row
MigrateLimits(n) ==
  /\ node[n].pc = "limits"
  /\ limits' = IF node[n].known THEN Inserted(limits, DefaultLimits) ELSE limits
  /\ kept' = IF limits' = limits THEN kept ELSE [kept EXCEPT ![limits'.version] = @ \cup {limits'.pair}]
  /\ node' = [node EXCEPT ![n].pc = "radii"]
  /\ UNCHANGED <<type, tariff, radii, desk, booking, stranded, edits, boots, deaths>>
MigrateRadii(n) ==
  /\ node[n].pc = "radii"
  /\ radii' = Inserted(radii, DefaultRadii)
  /\ node' = [node EXCEPT ![n] = Down]
  /\ UNCHANGED <<type, tariff, limits, kept, desk, booking, stranded, edits, boots, deaths>>

-----------------------------------------------------------------------------
(* Admins *)

Asks(a) == /\ desk[a].pc = "idle" /\ edits < MaxEdits /\ edits' = edits + 1
           /\ UNCHANGED <<node, booking, stranded, boots, deaths>>
Goes(a) == UNCHANGED <<node, booking, edits, boots, deaths>>
Request(op, change, before) == [pc |-> "write", op |-> op, change |-> change, before |-> before]
\* A field that is not sent keeps the value that was read.
Merged(change, before) == [i \in 1..2 |-> IF change[i] # 0 THEN change[i] ELSE before.pair[i]]
\* One update sets the whole pair and counts the version up.
Saved(row, pair, a) == [pair |-> pair, version |-> row.version + 1, by |-> a]

\* PATCH ride-distance-config/:rideType: save reads the row, and judges the pair it will write.
AskLimits(a) ==
  /\ Asks(a) /\ type # "absent"
  /\ \E change \in LimitChanges :
       /\ ~distanceLimitsProblem(Merged(change, limits))
       /\ desk' = [desk EXCEPT ![a] = Request("limits", change, limits)]
  /\ UNCHANGED <<type, tariff, limits, radii, kept>>
Store(row) == limits' = row /\ kept' = [kept EXCEPT ![row.version] = @ \cup {row.pair}]
SaveLimits(a) ==
  /\ desk[a].pc = "write" /\ desk[a].op = "limits"
  /\ Store(Saved(limits, Merged(desk[a].change, desk[a].before), a))
  /\ desk' = [desk EXCEPT ![a] = NoRequest]
  /\ Goes(a) /\ UNCHANGED <<type, tariff, radii, stranded>>

\* PATCH platform-settings
AskRadii(a) ==
  /\ Asks(a)
  /\ \E change \in RadiusChanges :
       /\ ~radiiProblem(Merged(change, radii))
       /\ desk' = [desk EXCEPT ![a] = Request("radii", change, radii)]
  /\ UNCHANGED <<type, tariff, limits, radii, kept>>
SaveRadii(a) ==
  /\ desk[a].pc = "write" /\ desk[a].op = "radii"
  /\ radii' = Saved(radii, Merged(desk[a].change, desk[a].before), a)
  /\ desk' = [desk EXCEPT ![a] = NoRequest]
  /\ Goes(a) /\ UNCHANGED <<type, tariff, limits, kept, stranded>>

\* PATCH pricing/:rideType, which may be the first tariff.
SetTariff(a) ==
  /\ Asks(a) /\ type # "absent" /\ ~tariff
  /\ tariff' = TRUE
  /\ UNCHANGED <<type, limits, radii, kept, desk>>

\* PATCH ride-types/:rideType: a type is switched on when a tariff, and then its limits, are found.
hasUsable == limits # NoRow /\ ~distanceLimitsProblem(limits.pair)
AskSwitch(a) ==
  /\ Asks(a)
  /\ \/ type = "off" /\ tariff /\ desk' = [desk EXCEPT ![a] = [Request("on", <<0, 0>>, NoRow) EXCEPT !.pc = "check"]]
     \/ type = "on" /\ desk' = [desk EXCEPT ![a] = Request("off", <<0, 0>>, NoRow)]
  /\ UNCHANGED <<type, tariff, limits, radii, kept>>
CheckLimits(a) ==
  /\ desk[a].pc = "check"
  /\ desk' = [desk EXCEPT ![a] = IF hasUsable THEN [@ EXCEPT !.pc = "write"] ELSE NoRequest]
  /\ Goes(a) /\ UNCHANGED <<type, tariff, limits, radii, kept, stranded>>
Switch(a) ==
  /\ desk[a].pc = "write" /\ desk[a].op \in {"on", "off"}
  /\ type' = desk[a].op
  /\ desk' = [desk EXCEPT ![a] = NoRequest]
  /\ Goes(a) /\ UNCHANGED <<tariff, limits, radii, kept, stranded>>

\* POST ride-types: the type, its limits and its tariff are three writes, in this order. A type that
\* is created switched on comes with both; <<0, 0>> is a request without limits.
AskCreate(a) ==
  /\ Asks(a) /\ type = "absent"
  /\ \E change \in LimitChanges \cup {<<0, 0>>}, switch \in {"on", "off"} :
       /\ IF change = <<0, 0>> THEN switch = "off" ELSE ~distanceLimitsProblem(change)
       /\ desk' = [desk EXCEPT ![a] = [Request(switch, change, NoRow) EXCEPT !.pc = "create"]]
  /\ UNCHANGED <<type, tariff, limits, radii, kept>>
CreateType(a) ==
  /\ desk[a].pc = "create"
  /\ IF type = "absent"
     THEN type' = desk[a].op /\ desk' = [desk EXCEPT ![a].pc = "first limits"]
     ELSE UNCHANGED type /\ desk' = [desk EXCEPT ![a] = NoRequest]
  /\ Goes(a) /\ UNCHANGED <<tariff, limits, radii, kept, stranded>>
FirstLimits(a) ==
  /\ desk[a].pc = "first limits"
  /\ IF desk[a].change = <<0, 0>> THEN UNCHANGED <<limits, kept>> ELSE Store(Saved(limits, desk[a].change, a))
  /\ desk' = [desk EXCEPT ![a].pc = "first tariff"]
  /\ Goes(a) /\ UNCHANGED <<type, tariff, radii, stranded>>
FirstTariff(a) ==
  /\ desk[a].pc = "first tariff"
  /\ tariff' \in (IF desk[a].op = "on" THEN {TRUE} ELSE {TRUE, tariff})
  /\ desk' = [desk EXCEPT ![a] = NoRequest]
  /\ Goes(a) /\ UNCHANGED <<type, limits, radii, kept, stranded>>

\* The instance that serves a request stops.
Creating(a) == desk[a].pc \in {"first limits", "first tariff"}
Die(a) ==
  /\ desk[a].pc # "idle" /\ deaths < MaxDeaths
  /\ desk' = [desk EXCEPT ![a] = NoRequest]
  /\ stranded' = (stranded \/ Creating(a)) /\ deaths' = deaths + 1
  /\ UNCHANGED <<type, tariff, limits, radii, kept, node, booking, edits, boots>>

-----------------------------------------------------------------------------
(* Bookings: RidesService.create *)

checkTripDistance(pair, trip) == pair[1] <= trip /\ trip <= pair[2]
\* getBookable
Book(b) ==
  /\ booking[b].pc = "idle" /\ type = "on"
  /\ \E trip \in Trips :
       booking' = [booking EXCEPT ![b] = [@ EXCEPT !.pc = "limits", !.trip = trip, !.since = limits.version]]
  /\ UNCHANGED <<type, tariff, limits, radii, kept, node, desk, stranded, edits, boots, deaths>>
\* estimateTrip: the row is read and the trip is judged by it; then the route is asked for.
Judge(b) ==
  /\ booking[b].pc = "limits"
  /\ booking' = [booking EXCEPT ![b] =
       IF hasUsable /\ checkTripDistance(limits.pair, @.trip)
       THEN [@ EXCEPT !.pc = "price", !.policy = limits] ELSE NoBooking]
  /\ UNCHANGED <<type, tariff, limits, radii, kept, node, desk, stranded, edits, boots, deaths>>
\* priceTrip, and the ride is inserted with the policy it was accepted under.
PriceAndInsert(b) ==
  /\ booking[b].pc = "price"
  /\ booking' = [booking EXCEPT ![b] = IF tariff THEN [@ EXCEPT !.pc = "booked"] ELSE NoBooking]
  /\ UNCHANGED <<type, tariff, limits, radii, kept, node, desk, stranded, edits, boots, deaths>>

MigrationStep(n) == Boot(n) \/ MigrateLimits(n) \/ MigrateRadii(n)
AdminStep(a) ==
  \/ AskLimits(a) \/ SaveLimits(a) \/ AskRadii(a) \/ SaveRadii(a) \/ SetTariff(a)
  \/ AskSwitch(a) \/ CheckLimits(a) \/ Switch(a)
  \/ AskCreate(a) \/ CreateType(a) \/ FirstLimits(a) \/ FirstTariff(a) \/ Die(a)
BookingStep(b) == Book(b) \/ Judge(b) \/ PriceAndInsert(b)
Next ==
  \/ \E n \in Nodes : MigrationStep(n)
  \/ \E a \in Admins : AdminStep(a)
  \/ \E b \in Bookers : BookingStep(b)
Spec == Init /\ [][Next]_configVars

-----------------------------------------------------------------------------

TypeOK ==
  /\ type \in {"absent", "off", "on"} /\ {tariff, stranded} \subseteq BOOLEAN
  /\ \A row \in {limits, radii} : row.version \in 0..(MaxEdits + 1) /\ row.by \in Admins \cup {"none", "hand", "migration"}
  /\ \A v \in DOMAIN kept : \A pair \in kept[v] : pair \in Int \X Int
  /\ \A n \in Nodes : node[n].pc \in {"down", "limits", "radii"}
  /\ \A a \in Admins : desk[a].pc \in {"idle", "check", "create", "write", "first limits", "first tariff"}
  /\ \A b \in Bookers : booking[b].pc \in {"idle", "limits", "price", "booked"}

\* Two admins that send one field each, from the same row, may undo one another's field, but never
\* store limits that nobody could use: what was judged is what is written, as a whole pair.
StoredIsSound ==
  /\ limits.by \notin {"none", "hand"} => ~distanceLimitsProblem(limits.pair)
  /\ radii.by \notin {"none", "hand"} => ~radiiProblem(radii.pair)

\* The policy that is stored on a ride tells the limits it was accepted under: the trip fits them,
\* they were in force at some moment of the request, and no other limits bear that version.
PolicyTellsTheLimits ==
  \A b \in Bookers : booking[b].pc = "booked" =>
    LET policy == booking[b].policy IN
    /\ ~distanceLimitsProblem(policy.pair) /\ checkTripDistance(policy.pair, booking[b].trip)
    /\ policy.version >= booking[b].since
    /\ kept[policy.version] = {policy.pair}

\* A type that may be booked has limits and a tariff, unless the request that creates it switched on
\* is under way or died there, or its row was spoilt by hand.
BookableIsConfigured ==
  \/ type # "on" \/ stranded \/ limits.by = "hand"
  \/ \E a \in Admins : Creating(a)
  \/ hasUsable /\ tariff

\* What an admin stored is replaced by an admin only: the migration of a later boot, which may have
\* listed the types long before it writes, leaves it alone.
EditsOutliveBootsStep ==
  /\ limits' # limits => limits = NoRow \/ limits'.by \in Admins
  /\ radii' # radii => radii = NoRow \/ radii'.by \in Admins
EditsOutliveBoots == [][EditsOutliveBootsStep]_configVars

=============================================================================
