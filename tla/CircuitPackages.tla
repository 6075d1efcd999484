-------------------------- MODULE CircuitPackages ---------------------------
(***************************************************************************)
(* One circuit package: admins edit and publish it while customers book    *)
(* it, and a booking copies its tariff (CircuitPackagesService,            *)
(* circuit-package.rules.ts, CircuitRidesService.create and quote).        *)
(*                                                                         *)
(* A package is its stops, vehicles, their prices and its revision; texts, *)
(* covers, hours and routes are left out.                                  *)
(***************************************************************************)
EXTENDS Naturals, FiniteSets, FiniteSetsExt

CONSTANTS
  Admins, Bookers,   \* requests in flight
  Vehicles,          \* ride types
  Prices,            \* package prices
  Keys,              \* Idempotency-Keys of the one customer
  MIN_STOPS,
  MaxEdits, MaxBookings   \* bounds

VARIABLES
  exists, status, stops, priced, revision, hasBookings,
                     \* the package; priced: a partial function from vehicles to prices
  desk,              \* desk[a]: [pc, status, revision, edit, to, quote]
  booker,            \* booker[b]: [pc, key, tariff, revision]
  circuits,          \* rides booked: [key, active, tariff, revision]
  overlapped,        \* an edit and a status change were in flight together
  edits

packageVars == <<exists, status, stops, priced, revision, hasBookings, desk, booker, circuits, overlapped, edits>>
pkgVars == <<exists, status, stops, priced, revision, hasBookings>>

PACKAGE_STATUS_TRANSITIONS ==
  [DRAFT |-> {"ACTIVE", "ARCHIVED"}, ACTIVE |-> {"INACTIVE", "ARCHIVED"},
   INACTIVE |-> {"ACTIVE", "ARCHIVED"}, ARCHIVED |-> {}]
Unpriced == [v \in Vehicles |-> 0]
Away == [pc |-> "idle", status |-> "DRAFT", revision |-> 0, stops |-> 0, priced |-> Unpriced, to |-> "DRAFT"]
Nobody == [pc |-> "idle", key |-> CHOOSE k \in Keys : TRUE, tariff |-> 0, revision |-> 0]

\* publishProblems: enough stops, and a price for a vehicle (prices follow the vehicles).
Publishable(places, prices) == places >= MIN_STOPS /\ \E v \in Vehicles : prices[v] > 0

CircuitPackageStop == 0..MIN_STOPS          \* how many of them there are
CircuitVehiclePrice == {0} \cup Prices
CircuitTariff == [vehicle : Vehicles, price : Prices]
CircuitBooking == [n : 1..MaxBookings, key : Keys, active : BOOLEAN, tariff : CircuitTariff, revision : Nat]

Init ==
  /\ exists = TRUE /\ status = "DRAFT" /\ stops = 0 /\ priced = Unpriced /\ revision = 1 /\ hasBookings = FALSE
  /\ desk = [a \in Admins |-> Away] /\ booker = [b \in Bookers |-> Nobody]
  /\ circuits = {} /\ overlapped = FALSE /\ edits = 0

Overlap(pcs) == overlapped' = (overlapped \/ \E a \in Admins : desk[a].pc \in pcs)

LiveEdit(places, prices) == status = "ACTIVE" => Publishable(places, prices)

\* update(): read, refused when archived or when a live package would break.
EditRead(a) ==
  /\ desk[a].pc = "idle" /\ exists /\ status # "ARCHIVED" /\ edits < MaxEdits
  /\ \E places \in {0, MIN_STOPS}, prices \in [Vehicles -> {0} \cup Prices] :
       /\ <<places, prices>> # <<stops, priced>>
       /\ LiveEdit(places, prices)
       /\ desk' = [desk EXCEPT ![a] = [pc |-> "edit", status |-> status, revision |-> revision,
                                       stops |-> places, priced |-> prices, to |-> "DRAFT"]]
  /\ Overlap({"status"})
  /\ UNCHANGED <<pkgVars, booker, circuits, edits>>

RevisionStep(a) == 1

\* The revision is compared; the status is not.
EditWrite(a) ==
  /\ desk[a].pc = "edit"
  /\ IF exists /\ revision = desk[a].revision
     THEN stops' = desk[a].stops /\ priced' = desk[a].priced /\ revision' = revision + RevisionStep(a)
          /\ edits' = edits + 1
     ELSE UNCHANGED <<stops, priced, revision, edits>>
  /\ desk' = [desk EXCEPT ![a] = Away]
  /\ UNCHANGED <<exists, status, hasBookings, booker, circuits, overlapped>>

\* setStatus(): publishing checks the package that was read.
StatusRead(a) ==
  /\ desk[a].pc = "idle" /\ exists
  /\ \E to \in PACKAGE_STATUS_TRANSITIONS[status] :
       /\ to = "ACTIVE" => Publishable(stops, priced)
       /\ desk' = [desk EXCEPT ![a] = [Away EXCEPT !.pc = "status", !.status = status, !.to = to]]
  /\ Overlap({"edit"})
  /\ UNCHANGED <<pkgVars, booker, circuits, edits>>

StatusWrite(a) ==
  /\ desk[a].pc = "status"
  /\ status' = IF exists /\ status = desk[a].status THEN desk[a].to ELSE status
  /\ desk' = [desk EXCEPT ![a] = Away]
  /\ UNCHANGED <<exists, stops, priced, revision, hasBookings, booker, circuits, overlapped, edits>>

\* remove(): only a draft nobody booked.
RemoveRead(a) ==
  /\ desk[a].pc = "idle" /\ exists /\ status = "DRAFT" /\ ~hasBookings
  /\ desk' = [desk EXCEPT ![a] = [Away EXCEPT !.pc = "remove"]]
  /\ UNCHANGED <<pkgVars, booker, circuits, overlapped, edits>>

Removable == status = "DRAFT" /\ ~hasBookings

RemoveWrite(a) ==
  /\ desk[a].pc = "remove"
  /\ exists' = (exists /\ ~Removable)
  /\ desk' = [desk EXCEPT ![a] = Away]
  /\ UNCHANGED <<status, stops, priced, revision, hasBookings, booker, circuits, overlapped, edits>>

-----------------------------------------------------------------------------
OfKey(k) == {c \in circuits : c.key = k}
Active == {c \in circuits : c.active}

\* create(): a key that is known is answered with its booking; else the package is quoted.
Quote(b) ==
  /\ booker[b].pc = "idle" /\ exists /\ status = "ACTIVE" /\ stops >= 1 /\ Cardinality(circuits) < MaxBookings
  /\ \E k \in Keys, v \in Vehicles :
       /\ OfKey(k) = {} /\ Active = {} /\ priced[v] > 0
       /\ booker' = [booker EXCEPT ![b] = [pc |-> "insert", key |-> k, revision |-> revision,
                                           tariff |-> [vehicle |-> v, price |-> priced[v]]]]
  /\ UNCHANGED <<pkgVars, desk, circuits, overlapped, edits>>

\* uniq_active_ride_per_customer and uniq_circuit_booking_key
Insertable(k) == Active = {} /\ OfKey(k) = {}

Book(b) ==
  /\ booker[b].pc = "insert" /\ (Insertable(booker[b].key) => Cardinality(circuits) < MaxBookings)
  /\ IF Insertable(booker[b].key)
     THEN /\ circuits' = circuits \cup {[n |-> Cardinality(circuits) + 1, key |-> booker[b].key, active |-> TRUE,
                                         tariff |-> booker[b].tariff, revision |-> booker[b].revision]}
          /\ booker' = [booker EXCEPT ![b] = [Nobody EXCEPT !.pc = "mark"]]
     ELSE booker' = [booker EXCEPT ![b] = Nobody] /\ UNCHANGED circuits
  /\ UNCHANGED <<pkgVars, desk, overlapped, edits>>

\* markBooked runs on its own; a process that dies leaves it out.
MarkBooked(b) ==
  /\ booker[b].pc = "mark"
  /\ hasBookings' \in (IF exists THEN {hasBookings, TRUE} ELSE {hasBookings})
  /\ booker' = [booker EXCEPT ![b] = Nobody]
  /\ UNCHANGED <<exists, status, stops, priced, revision, desk, circuits, overlapped, edits>>

RideEnds ==
  /\ \E c \in Active : circuits' = (circuits \ {c}) \cup {[c EXCEPT !.active = FALSE]}
  /\ UNCHANGED <<pkgVars, desk, booker, overlapped, edits>>

Next ==
  \/ \E a \in Admins : EditRead(a) \/ EditWrite(a) \/ StatusRead(a) \/ StatusWrite(a) \/ RemoveRead(a) \/ RemoveWrite(a)
  \/ \E b \in Bookers : Quote(b) \/ Book(b) \/ MarkBooked(b)
  \/ RideEnds

Spec == Init /\ [][Next]_packageVars

-----------------------------------------------------------------------------
TypeOK ==
  /\ exists \in BOOLEAN /\ status \in DOMAIN PACKAGE_STATUS_TRANSITIONS
  /\ stops \in CircuitPackageStop /\ priced \in [Vehicles -> CircuitVehiclePrice]
  /\ revision \in Nat /\ hasBookings \in BOOLEAN /\ circuits \subseteq CircuitBooking
  /\ \A a \in Admins : desk[a].pc \in {"idle", "edit", "status", "remove"}

\* A live package stays publishable (circuit-packages.service.ts:300), unless an edit and a
\* publication crossed: the edit compares the revision only, the publication the status.
LiveIsPublishable == exists /\ status = "ACTIVE" /\ ~overlapped => Publishable(stops, priced)

\* A package some ride was booked from is never deleted, also when markBooked was lost
\* (circuit-package.types.ts:9).
BookedIsKept == circuits # {} => exists

\* The revision a booking records names its price: two bookings of one revision and one
\* vehicle cost the same, whatever was edited between the quotes.
RevisionNamesThePrice ==
  \A c, d \in circuits :
    c.revision = d.revision /\ c.tariff.vehicle = d.tariff.vehicle => c.tariff = d.tariff

\* A repeated "Confirm & Book" never makes a second circuit, even when the first has ended.
OneBookingPerKey == \A k \in Keys : Cardinality(OfKey(k)) <= 1
=============================================================================
