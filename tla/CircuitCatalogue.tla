-------------------------- MODULE CircuitCatalogue ---------------------------
(***************************************************************************)
(* The catalogue of circuits (CircuitPackagesService): what customers are  *)
(* shown and what a booking accepts while admins price and switch; the     *)
(* prices of the release before, which every API instance moves at its     *)
(* boot; cover images; and the codes of new packages.                      *)
(*                                                                         *)
(* The edit of a package and its races are module CircuitPackages; here an *)
(* edit is one step.                                                       *)
(***************************************************************************)
EXTENDS Integers, FiniteSets, FiniteSetsExt

CONSTANTS
  Packages, Vehicles, Nodes,
  Starts,          \* the packages of the release before, and the ride types
  Prices,          \* what an admin may charge
  Covers,          \* images an admin may upload: version |-> [bytes, width, height]
  CoverRule,       \* CIRCUIT_COVER_RULE
  Admins, Creators,    \* requests in flight
  DAY, WEEK,       \* ticks of a day, days of a week
  MaxAttempts,     \* of nextCode
  MaxEdits, MaxCrashes, MaxTime    \* bounds

VARIABLES
  package,    \* package[i]: [status, legacy, rideTypes, prices, allowance, maxPassengers, hours, cover]
  rideType,   \* rideType[v]: [active, seats]
  node,       \* node[n]: [pc, rows], rows: the legacy packages it found, as it found them
  due,        \* due[i][v]: the price that was last set for a vehicle
  desk,       \* desk[a]: [pc, op, id, arg]
  record,     \* record[i]: what the last audit record of a package says was done
  crossed,    \* crossed[i]: two requests about a package were in flight together
  drafts,     \* drafts[c]: [pc, tries, found, code]
  counter,    \* the seq of the counter document, 0: there is none
  now, edits, crashes

catalogueVars == <<package, rideType, node, due, desk, record, crossed, drafts, counter, now, edits, crashes>>

None == "none"
Gone == "GONE"
Down == [pc |-> "down", rows |-> <<>>]
NoRequest == [pc |-> "idle", op |-> None, id |-> 0, arg |-> None]
NoDraft == [pc |-> "idle", tries |-> 0, found |-> FALSE, code |-> 0]

\* The one price of the release before is every allowed vehicle's that has none of its own.
MovedPrices(row) ==
  [v \in row.rideTypes |-> IF v \in DOMAIN row.prices THEN row.prices[v] ELSE row.legacy]
\* Prices of vehicles that are no longer allowed are left out.
orderedVehiclePricing(p) == [v \in p.rideTypes \cap DOMAIN p.prices |-> p.prices[v]]

Init ==
  /\ \E start \in Starts : package = start.packages /\ rideType = start.rideTypes
  /\ node = [n \in Nodes |-> Down]
  /\ due = [i \in Packages |-> IF package[i].legacy = 0 THEN orderedVehiclePricing(package[i])
                               ELSE MovedPrices(package[i])]
  /\ desk = [a \in Admins |-> NoRequest] /\ record = [i \in Packages |-> None]
  /\ crossed = [i \in Packages |-> FALSE] /\ drafts = [c \in Creators |-> NoDraft] /\ counter = 0
  /\ now = 0 /\ edits = 0 /\ crashes = 0

Serving == \E n \in Nodes : node[n].pc = "serving"

-----------------------------------------------------------------------------
(* migrateLegacyPricing, at every boot and before the instance listens *)

Boot(n) ==
  /\ node[n].pc = "down"
  /\ LET legacy == {i \in Packages : package[i].legacy > 0} IN
     node' = [node EXCEPT ![n] = [pc |-> "boot", rows |-> [i \in legacy |-> package[i]]]]
  /\ UNCHANGED <<package, rideType, due, desk, record, crossed, drafts, counter, now, edits, crashes>>
StillLegacy(i) == package[i].legacy > 0
Move(n, i) ==
  LET rows == node[n].rows IN
  /\ node[n].pc = "boot" /\ i \in DOMAIN rows
  /\ package' = (IF StillLegacy(i)
                 THEN [package EXCEPT ![i].prices = MovedPrices(rows[i]), ![i].legacy = 0] ELSE package)
  /\ node' = [node EXCEPT ![n].rows = [j \in DOMAIN rows \ {i} |-> rows[j]]]
  /\ UNCHANGED <<rideType, due, desk, record, crossed, drafts, counter, now, edits, crashes>>
Listen(n) ==
  /\ node[n].pc = "boot" /\ DOMAIN node[n].rows = {}
  /\ node' = [node EXCEPT ![n].pc = "serving"]
  /\ UNCHANGED <<package, rideType, due, desk, record, crossed, drafts, counter, now, edits, crashes>>
Crash(n) ==
  /\ node[n].pc # "down" /\ crashes < MaxCrashes
  /\ node' = [node EXCEPT ![n] = Down] /\ crashes' = crashes + 1
  /\ UNCHANGED <<package, rideType, due, desk, record, crossed, drafts, counter, now, edits>>

-----------------------------------------------------------------------------
(* When a circuit runs *)

localDate == now \div DAY
localWeekday == localDate % WEEK
InSeason(hours) == hours.from <= localDate /\ localDate <= hours.until
checkAvailability(hours) ==
  LET minute == now % DAY IN
  IF ~InSeason(hours) THEN "OUT_OF_SEASON"
  ELSE IF localWeekday \notin hours.days THEN "CLOSED_TODAY"
  ELSE IF (IF hours.opensAt < hours.closesAt
           THEN hours.opensAt <= minute /\ minute < hours.closesAt
           ELSE hours.opensAt <= minute \/ minute < hours.closesAt)
  THEN "open" ELSE "OUTSIDE_HOURS"
isPastSeason(p) == localDate > p.hours.until

-----------------------------------------------------------------------------
(* What customers see, and what a booking accepts *)

effectiveCapacity(p, v) == Min({p.maxPassengers, rideType[v].seats})
\* Only active vehicles that are priced are offered.
Offered(p) == {v \in DOMAIN orderedVehiclePricing(p) : rideType[v].active}
Unlisted == [vehicles |-> {}, price |-> <<>>, room |-> <<>>, from |-> 0, availableNow |-> FALSE]
toCustomerView(p) ==
  IF ~p.allowance \/ Offered(p) = {} THEN Unlisted
  ELSE LET prices == orderedVehiclePricing(p) IN
       [vehicles |-> Offered(p), price |-> [v \in Offered(p) |-> prices[v]],
        room |-> [v \in Offered(p) |-> effectiveCapacity(p, v)],
        from |-> Min({prices[v] : v \in Offered(p)}),
        availableNow |-> checkAvailability(p.hours) = "open"]
listForCustomers ==
  {i \in Packages : /\ package[i].status = "ACTIVE" /\ ~isPastSeason(package[i])
                    /\ toCustomerView(package[i]) # Unlisted}
\* The cover that a customer is sent to, and the one that is served.
coverPath(i) == package[i].cover
coverFile(i) == IF package[i].status = "DRAFT" THEN None ELSE package[i].cover
\* findActive, getBookable, assertBookable: what a booking costs, or 0 if it is refused.
tariffFor(p, v) == IF p.allowance /\ v \in DOMAIN p.prices THEN p.prices[v] ELSE 0
assertBookable(p, v, passengers) ==
  IF /\ p.status = "ACTIVE" /\ rideType[v].active
     /\ checkAvailability(p.hours) = "open"
     /\ v \in p.rideTypes
     /\ passengers <= effectiveCapacity(p, v)
  THEN tariffFor(p, v) ELSE 0

-----------------------------------------------------------------------------
(* Admins *)

Publishable(p) ==
  /\ p.allowance /\ p.rideTypes # {}
  /\ DOMAIN p.prices = p.rideTypes /\ \A v \in p.rideTypes : p.prices[v] > 0
Asked == /\ Serving /\ edits < MaxEdits /\ edits' = edits + 1
         /\ UNCHANGED <<node, drafts, counter, now, crashes>>
\* update: prices that are sent are of allowed vehicles, and one that is no longer allowed loses
\* its own; a live package must stay publishable.
Edit(i) ==
  /\ Asked /\ package[i].status \notin {"ARCHIVED", Gone}
  /\ \E allowed \in SUBSET Vehicles : \E sent \in {[v \in priced |-> price] : priced \in SUBSET allowed, price \in Prices}
                                    \cup {orderedVehiclePricing([package[i] EXCEPT !.rideTypes = allowed])} :
       LET edited == [package[i] EXCEPT !.rideTypes = allowed, !.prices = sent] IN
       /\ package[i].status = "ACTIVE" => Publishable(edited)
       /\ package' = [package EXCEPT ![i] = edited]
       /\ due' = [due EXCEPT ![i] = sent]
  /\ UNCHANGED <<rideType, desk, record, crossed>>
SwitchType(v) ==
  /\ Asked /\ rideType' = [rideType EXCEPT ![v].active = ~@]
  /\ UNCHANGED <<package, due, desk, record, crossed>>

PACKAGE_STATUS_TRANSITIONS ==
  [DRAFT |-> {"ACTIVE", "ARCHIVED"}, ACTIVE |-> {"INACTIVE", "ARCHIVED"},
   INACTIVE |-> {"ACTIVE", "ARCHIVED"}, ARCHIVED |-> {}, GONE |-> {}]
\* coverProblem, in hundredths of the width.
coverProblem(image) ==
  \/ image.bytes > CoverRule.maxBytes
  \/ image.width < CoverRule.minWidth \/ image.height < CoverRule.minHeight
  \/ 100 * image.height < CoverRule.minAspect * image.width
  \/ 100 * image.height > CoverRule.maxAspect * image.width
\* setStatus, remove, setCover, removeCover: the package is read and the request checked on it.
MayAsk(p, op, arg) ==
  CASE op = "status" -> arg \in PACKAGE_STATUS_TRANSITIONS[p.status] /\ (arg = "ACTIVE" => Publishable(p))
    [] op = "delete" -> arg = p.status /\ p.status = "DRAFT"
    [] op = "cover_set" -> arg \in DOMAIN Covers /\ ~coverProblem(Covers[arg])
    [] op = "cover_removed" -> arg = None
Ask(a) ==
  /\ Asked /\ desk[a].pc = "idle"
  /\ \E i \in Packages, op \in {"status", "delete", "cover_set", "cover_removed"},
        arg \in DOMAIN PACKAGE_STATUS_TRANSITIONS \cup DOMAIN Covers \cup {None} :
       /\ package[i].status # Gone /\ MayAsk(package[i], op, arg)
       /\ desk' = [desk EXCEPT ![a] = [pc |-> "write", op |-> op, id |-> i, arg |-> <<package[i].status, arg>>]]
       /\ crossed' = [crossed EXCEPT ![i] = @ \/ \E o \in Admins : desk[o].id = i]
  /\ UNCHANGED <<package, rideType, due, record>>
\* A change of status is made on the status that was read; a deletion of a package that is no
\* longer a draft, and a cover of one that is gone, change nothing and are recorded all the same.
Write(a) ==
  LET i == desk[a].id  p == package[i]  was == desk[a].arg[1]  arg == desk[a].arg[2] IN
  /\ desk[a].pc = "write"
  /\ package' = [package EXCEPT ![i] =
       CASE desk[a].op = "status" /\ p.status = was -> [p EXCEPT !.status = arg]
         [] desk[a].op = "delete" /\ p.status = "DRAFT" -> [p EXCEPT !.status = Gone]
         [] desk[a].op = "cover_set" /\ p.status # Gone -> [p EXCEPT !.cover = arg]
         [] desk[a].op = "cover_removed" /\ p.status # Gone -> [p EXCEPT !.cover = None]
         [] OTHER -> p]
  /\ desk' = [desk EXCEPT ![a] = IF desk[a].op = "status" /\ p.status # was THEN NoRequest
                                ELSE [@ EXCEPT !.pc = "record"]]
  /\ UNCHANGED <<rideType, node, due, record, crossed, drafts, counter, now, edits, crashes>>
Record(a) ==
  /\ desk[a].pc = "record"
  /\ record' = (IF desk[a].op = "status" THEN record ELSE [record EXCEPT ![desk[a].id] = desk[a].op])
  /\ desk' = [desk EXCEPT ![a] = NoRequest]
  /\ UNCHANGED <<package, rideType, node, due, crossed, drafts, counter, now, edits, crashes>>

-----------------------------------------------------------------------------
(* nextCode: an upsert looks for the counter, and inserts one when there is none *)

LookForCounter(c) ==
  /\ Serving
  /\ drafts[c].pc = "idle" \/ (drafts[c].pc = "retry" /\ drafts[c].tries < MaxAttempts)
  /\ drafts' = [drafts EXCEPT ![c] = [@ EXCEPT !.pc = "upsert", !.tries = @ + 1, !.found = counter > 0]]
  /\ UNCHANGED <<package, rideType, node, due, desk, record, crossed, counter, now, edits, crashes>>
Upsert(c) ==
  /\ drafts[c].pc = "upsert"
  /\ IF drafts[c].found \/ counter = 0
     THEN /\ counter' = counter + 1
          /\ drafts' = [drafts EXCEPT ![c].pc = "created", ![c].code = counter']
     ELSE drafts' = [drafts EXCEPT ![c].pc = "retry"] /\ UNCHANGED counter
  /\ UNCHANGED <<package, rideType, node, due, desk, record, crossed, now, edits, crashes>>

Tick ==
  /\ now < MaxTime /\ now' = now + 1
  /\ UNCHANGED <<package, rideType, node, due, desk, record, crossed, drafts, counter, edits, crashes>>

Next ==
  \/ \E n \in Nodes : Boot(n) \/ Listen(n) \/ Crash(n) \/ \E i \in Packages : Move(n, i)
  \/ \E i \in Packages : Edit(i)
  \/ \E a \in Admins : Ask(a) \/ Write(a) \/ Record(a)
  \/ \E v \in Vehicles : SwitchType(v)
  \/ \E c \in Creators : LookForCounter(c) \/ Upsert(c)
  \/ Tick

Spec == Init /\ [][Next]_catalogueVars

-----------------------------------------------------------------------------
TypeOK ==
  /\ \A i \in Packages : /\ package[i].status \in DOMAIN PACKAGE_STATUS_TRANSITIONS
                         /\ package[i].rideTypes \subseteq Vehicles /\ DOMAIN package[i].prices \subseteq Vehicles
                         /\ package[i].cover \in DOMAIN Covers \cup {None}
  /\ \A n \in Nodes : node[n].pc \in {"down", "boot", "serving"}
  /\ \A c \in Creators : drafts[c].pc \in {"idle", "upsert", "retry", "created"}

\* Moving the prices of the release before changes no quote (migrateLegacyPricing): whenever an
\* instance serves, every vehicle of a package costs what was last set for it, whichever instances
\* boot, crash half-way and boot again while admins edit.
MigrationKeepsTheQuote ==
  Serving => \A i \in Packages : package[i].legacy = 0 /\ orderedVehiclePricing(package[i]) = due[i]

\* What customers are offered is what a booking accepts (toCustomerView, assertBookable): a listed
\* circuit that is available now can be booked with each vehicle shown, at its price and with as
\* many passengers as it is shown to carry, nothing else can be booked, and its cover is served.
OfferedIsBookable ==
  \A i \in Packages, v \in Vehicles :
    LET view == toCustomerView(package[i])
        listed == i \in listForCustomers
        shown == listed /\ view.availableNow /\ v \in view.vehicles IN
    /\ \A passengers \in 1..package[i].maxPassengers :
         assertBookable(package[i], v, passengers) =
           (IF shown /\ passengers <= view.room[v] THEN view.price[v] ELSE 0)
    /\ listed => coverFile(i) = coverPath(i)

\* What the audit trail says last of a package is so (setCover, removeCover and remove, which record
\* whatever their write found), unless two requests about it were in flight together.
AuditIsTrue ==
  \A i \in Packages : ~crossed[i] /\ (\A a \in Admins : desk[a].id # i) =>
    /\ (record[i] = "delete") = (package[i].status = Gone)
    /\ record[i] = "cover_set" => package[i].cover # None
    /\ record[i] = "cover_removed" => package[i].cover = None

\* Packages created at once get codes of their own, and three attempts are always enough (nextCode).
CodesDiffer ==
  \A c, d \in Creators :
    /\ c # d /\ drafts[c].code > 0 => drafts[c].code # drafts[d].code
    /\ drafts[c].pc = "retry" => drafts[c].tries < MaxAttempts
=============================================================================
