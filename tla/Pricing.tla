------------------------------- MODULE Pricing -------------------------------
(***************************************************************************)
(* The fare of a ride: tariffs an admin edits, daily peak slots that raise *)
(* the rate per kilometre, the price of a booking, which reads both, and   *)
(* the final fare, which reads neither (PricingService, PeakPricingService,*)
(* fare-calculator.ts, trip-meter.ts).                                     *)
(*                                                                         *)
(* Amounts are paise, distances metres, and a day has DAY ticks.  A read   *)
(* of the slots is answered within the tick it is made in.                 *)
(***************************************************************************)
EXTENDS Integers, Sequences, FiniteSets

CONSTANTS
  Slots,        \* peak slots that may be made
  Requests,     \* requests of admins in flight
  Nodes, NodeOf,          \* API nodes, and the one that handles each request
  Bookings, BookedAt,     \* bookings, and the node that prices each
  Drafts,       \* [name, start, end, hike, types] an admin may ask for; types {}: every ride type
  RideTypes, Tariffs,     \* the rates an admin may save
  BookedTrip, ActualTrips,   \* [metres, seconds] of the route, and of trips as measured
  MaxEstimateMultiplier,     \* finalFareMaxEstimateMultiplier, in percent; 0: no cap
  RULES_CACHE, DAY,          \* in ticks
  MaxWrites, MaxTime         \* bounds

VARIABLES
  now,
  slot,      \* slot[s]: [exists, draft, active, version]
  request,   \* request[q]: [pc, op, slot, current, draft, active], between its reads and its write
  cache,     \* cache[n]: [rules, expires]
  tariffs,   \* the tariff's versions, the last one in force
  booking,   \* booking[b]: [pc, type, at, version, rules, fare, final]
  past,      \* <<t, rules>>: the rules that were active at some moment of tick t
  writes

pricingVars == <<now, slot, request, cache, tariffs, booking, past, writes>>

None == "none"
NoDraft == [name |-> None, start |-> 0, end |-> 0, hike |-> 0, types |-> {}]
PeakPricingSlot ==
  [exists : BOOLEAN, draft : Drafts \cup {NoDraft}, active : BOOLEAN, version : 0..MaxWrites]
NoSlot == [exists |-> FALSE, draft |-> NoDraft, active |-> FALSE, version |-> 0]
PricingConfig == [base : Nat, perKm : Nat, perMinute : Nat, minimum : Nat]
RideFare == [type : RideTypes \cup {None}, version : Nat, perKm : Nat, normalPerKm : Nat, perMinute : Nat,
             base : Nat, minimum : Nat, hike : Nat, surcharge : Nat, total : Nat]
RideFinalFare == [mode : {"actual", "booked", None}, trip : ActualTrips \cup {BookedTrip}, total : Nat]

NoRequest == [pc |-> "idle", op |-> None, slot |-> 0, current |-> NoSlot, draft |-> NoDraft,
              active |-> FALSE]
NoFare == [type |-> None, version |-> 0, perKm |-> 0, normalPerKm |-> 0, perMinute |-> 0,
           base |-> 0, minimum |-> 0, hike |-> 0, surcharge |-> 0, total |-> 0]
NoFinal == [mode |-> None, trip |-> BookedTrip, total |-> 0]
NoBooking == [pc |-> "idle", type |-> None, at |-> 0, version |-> 0, rules |-> {},
              fare |-> NoFare, final |-> NoFinal]

Rules == {[id |-> s, draft |-> slot[s].draft] : s \in {t \in Slots : slot[t].exists /\ slot[t].active}}

Init ==
  /\ now = 0
  /\ slot = [s \in Slots |-> NoSlot]
  /\ request = [q \in Requests |-> NoRequest]
  /\ cache = [n \in Nodes |-> [rules |-> {}, expires |-> 0]]
  /\ \E rates \in Tariffs : tariffs = <<rates>>
  /\ booking = [b \in Bookings |-> NoBooking]
  /\ past = {<<0, {}>>} /\ writes = 0

-----------------------------------------------------------------------------
(* Windows and scopes *)

WindowContains(w, minute) ==
  IF w.start < w.end THEN w.start <= minute /\ minute < w.end
  ELSE w.start <= minute \/ minute < w.end
Segments(w) ==
  IF w.start < w.end THEN {<<w.start, w.end>>} ELSE {<<w.start, DAY>>, <<0, w.end>>}
WindowsOverlap(v, w) ==
  \E a \in Segments(v), b \in Segments(w) : a[1] < b[2] /\ b[1] < a[2]
ScopesIntersect(v, w) == v.types = {} \/ w.types = {} \/ v.types \cap w.types # {}
AppliesTo(w, type) == w.types = {} \/ type \in w.types
FindConflict(s, draft, rules) ==
  {r \in rules : r.id # s /\ WindowsOverlap(draft, r.draft) /\ ScopesIntersect(draft, r.draft)}
\* Of several rules the read returns one first; by any order of the read.
ResolvePeak(rules, type, minute) ==
  LET matching == {r.draft.hike : r \in {x \in rules : AppliesTo(x.draft, type)
                                                      /\ WindowContains(x.draft, minute)}} IN
  IF matching = {} THEN {0} ELSE matching

(* Fares *)

Rounded(n, d) == (2 * n + d) \div (2 * d)   \* Math.round(n / d), for n >= 0
Larger(m, n) == IF m < n THEN n ELSE m
EffectivePerKm(perKm, hike) == Rounded(perKm * (10000 + 100 * hike), 10000)
DistanceCharge(perKm, metres) == Rounded(perKm * metres, 1000)
\* calculateFare, in whole rupees.
Total(rates, trip) ==
  100 * Rounded(Larger(rates.base + DistanceCharge(rates.perKm, trip.metres)
                         + Rounded(rates.perMinute * trip.seconds, 60), rates.minimum), 100)
\* priceTrip: only the rate per kilometre is raised.
Priced(type, version, hike) ==
  LET rates == tariffs[version]
      peak == [rates EXCEPT !.perKm = EffectivePerKm(@, hike)] IN
  [type |-> type, version |-> version, perKm |-> peak.perKm, normalPerKm |-> rates.perKm,
   perMinute |-> rates.perMinute, base |-> rates.base, minimum |-> rates.minimum, hike |-> hike,
   surcharge |-> DistanceCharge(peak.perKm, BookedTrip.metres)
                   - DistanceCharge(rates.perKm, BookedTrip.metres),
   total |-> Total(peak, BookedTrip)]

-----------------------------------------------------------------------------
(* The slots' desk: the writes of one API node run one after another *)

Seen(s) == past' = past \cup {<<now, {[id |-> t, draft |-> s[t].draft] :
                                        t \in {u \in Slots : s[u].exists /\ s[u].active}}>>}
Anytime(q) == request[q].pc = "idle"
Turn(q) == \A p \in Requests : NodeOf[p] = NodeOf[q] => request[p].pc = "idle"
Pending(q, op, s, draft, active) ==
  writes < MaxWrites /\ request' = [request EXCEPT ![q] = [pc |-> "check", op |-> op, slot |-> s,
                                     current |-> IF op = "create" THEN NoSlot ELSE slot[s],
                                     draft |-> draft, active |-> active]]

CreateSlot(q, draft, active) ==
  /\ Turn(q) /\ draft.start # draft.end
  /\ Pending(q, "create", 0, draft, active)
  /\ UNCHANGED <<now, slot, cache, tariffs, booking, past, writes>>
UpdateSlot(q, s, draft, active) ==
  /\ Turn(q) /\ slot[s].exists /\ draft.start # draft.end
  /\ <<draft, active>> # <<slot[s].draft, slot[s].active>>
  /\ Pending(q, "update", s, draft, active)
  /\ UNCHANGED <<now, slot, cache, tariffs, booking, past, writes>>
SetActive(q, s, active) ==
  /\ Turn(q) /\ slot[s].exists /\ slot[s].active # active
  /\ Pending(q, "update", s, slot[s].draft, active)
  /\ UNCHANGED <<now, slot, cache, tariffs, booking, past, writes>>
RemoveSlot(q, s) ==
  /\ Turn(q) /\ slot[s].exists /\ ~slot[s].active /\ writes < MaxWrites
  /\ request' = [request EXCEPT ![q] = [pc |-> "remove", op |-> "remove", slot |-> s,
                                        current |-> slot[s], draft |-> slot[s].draft,
                                        active |-> FALSE]]
  /\ UNCHANGED <<now, slot, cache, tariffs, booking, past, writes>>

\* assertNoConflict: the name first, and the other active slots only for one that will be active.
NameTaken(s, draft) == \E t \in Slots \ {s} : slot[t].exists /\ slot[t].draft.name = draft.name
AssertNoConflict(q) ==
  LET r == request[q] IN
  /\ r.pc = "check"
  /\ IF NameTaken(r.slot, r.draft) \/ (r.active /\ FindConflict(r.slot, r.draft, Rules) # {})
     THEN request' = [request EXCEPT ![q] = NoRequest]
     ELSE request' = [request EXCEPT ![q].pc = "write"]
  /\ UNCHANGED <<now, slot, cache, tariffs, booking, past, writes>>

\* The write, and in any case the cache of the node is cleared.
Finished(q) ==
  /\ request' = [request EXCEPT ![q] = NoRequest]
  /\ cache' = [cache EXCEPT ![NodeOf[q]] = [rules |-> {}, expires |-> 0]]
  /\ UNCHANGED <<now, tariffs, booking>>
InsertSlot(q) ==
  LET r == request[q] IN
  /\ r.pc = "write" /\ r.op = "create" /\ writes < MaxWrites
  /\ IF NameTaken(0, r.draft) THEN slot' = slot
     ELSE \E s \in Slots :
            /\ ~slot[s].exists /\ slot[s].version = 0
            /\ slot' = [slot EXCEPT ![s] = [exists |-> TRUE, draft |-> r.draft,
                                            active |-> r.active, version |-> 1]]
  /\ Seen(slot') /\ writes' = writes + 1
  /\ Finished(q)
StillCurrent(r) == slot[r.slot].exists /\ slot[r.slot].version = r.current.version
SaveSlot(q) ==
  LET r == request[q] IN
  /\ r.pc = "write" /\ r.op = "update" /\ writes < MaxWrites
  /\ IF StillCurrent(r) /\ ~NameTaken(r.slot, r.draft)
     THEN slot' = [slot EXCEPT ![r.slot] = [exists |-> TRUE, draft |-> r.draft,
                                            active |-> r.active, version |-> @.version + 1]]
     ELSE slot' = slot
  /\ Seen(slot') /\ writes' = writes + 1
  /\ Finished(q)
DeleteSlot(q) ==
  LET r == request[q] IN
  /\ r.pc = "remove" /\ writes < MaxWrites
  /\ slot' = [slot EXCEPT ![r.slot].exists = FALSE, ![r.slot].active = FALSE]
  /\ Seen(slot') /\ writes' = writes + 1
  /\ Finished(q)

\* update of the tariff: one write, which numbers the rates it saves.
Numbered(rates) == Append(tariffs, rates)
EditTariff(rates) ==
  /\ Len(tariffs) < 2
  /\ tariffs' = Numbered(rates)
  /\ UNCHANGED <<now, slot, request, cache, booking, past, writes>>

-----------------------------------------------------------------------------
(* A booking is priced and, after the trip, billed *)

ReadTariff(b, type) ==
  /\ booking[b].pc = "idle"
  /\ booking' = [booking EXCEPT ![b] = [NoBooking EXCEPT !.pc = "tariff", !.type = type, !.at = now,
                                                         !.version = Len(tariffs)]]
  /\ UNCHANGED <<now, slot, request, cache, tariffs, past, writes>>
Booked(b, rules) ==
  \E hike \in ResolvePeak(rules, booking[b].type, booking[b].at % DAY) :
    booking' = [booking EXCEPT ![b].pc = "booked", ![b].rules = {},
                               ![b].fare = Priced(booking[b].type, booking[b].version, hike)]
Fresh(n) == cache[n].expires > now
BookFromCache(b) ==
  /\ booking[b].pc = "tariff" /\ Fresh(BookedAt[b])
  /\ Booked(b, cache[BookedAt[b]].rules)
  /\ UNCHANGED <<now, slot, request, cache, tariffs, past, writes>>
ReadRules(b) ==
  /\ booking[b].pc = "tariff" /\ ~Fresh(BookedAt[b])
  /\ booking' = [booking EXCEPT ![b].pc = "rules", ![b].rules = Rules]
  /\ UNCHANGED <<now, slot, request, cache, tariffs, past, writes>>

Expiry == now + RULES_CACHE
StoreRules(b) ==
  /\ booking[b].pc = "rules"
  /\ cache' = [cache EXCEPT ![BookedAt[b]] = [rules |-> booking[b].rules, expires |-> Expiry]]
  /\ Booked(b, booking[b].rules)
  /\ UNCHANGED <<now, slot, request, tariffs, past, writes>>

\* resolveFinalFare: the rates frozen at booking; the measured trip in mode actual, when its trail is
\* reliable, and the route else.
FrozenRates(fare) ==
  [base |-> fare.base, perKm |-> fare.perKm, perMinute |-> fare.perMinute, minimum |-> fare.minimum]
Billed(mode, reliable, trip) ==
  IF mode = "booked" THEN BookedTrip
  ELSE [trip EXCEPT !.metres = IF reliable THEN @ ELSE BookedTrip.metres]
\* Math.round of rupees.
Cap(fare) == 100 * Rounded(fare.total * MaxEstimateMultiplier, 10000)
FinalTotal(fare, trip) ==
  LET total == Total(FrozenRates(fare), trip) IN
  IF MaxEstimateMultiplier > 0 /\ total > Cap(fare) THEN Cap(fare) ELSE total
Complete(b, mode, reliable, trip) ==
  /\ booking[b].pc = "booked"
  /\ booking' = [booking EXCEPT ![b].pc = "completed", ![b].final =
       [mode |-> mode, trip |-> Billed(mode, reliable, trip),
        total |-> FinalTotal(booking[b].fare, Billed(mode, reliable, trip))]]
  /\ UNCHANGED <<now, slot, request, cache, tariffs, past, writes>>

Tick ==
  /\ now < MaxTime /\ now' = now + 1
  /\ \A b \in Bookings : booking[b].pc # "rules"
  /\ past' = past \cup {<<now + 1, Rules>>}
  /\ UNCHANGED <<slot, request, cache, tariffs, booking, writes>>

Next ==
  \/ Tick
  \/ \E q \in Requests :
       \/ AssertNoConflict(q) \/ InsertSlot(q) \/ SaveSlot(q) \/ DeleteSlot(q)
       \/ \E draft \in Drafts, active \in BOOLEAN : CreateSlot(q, draft, active)
       \/ \E s \in Slots, draft \in Drafts, active \in BOOLEAN : UpdateSlot(q, s, draft, active)
       \/ \E s \in Slots, active \in BOOLEAN : SetActive(q, s, active)
       \/ \E s \in Slots : RemoveSlot(q, s)
  \/ \E rates \in Tariffs : EditTariff(rates)
  \/ \E b \in Bookings :
       \/ BookFromCache(b) \/ ReadRules(b) \/ StoreRules(b)
       \/ \E type \in RideTypes : ReadTariff(b, type)
       \/ \E mode \in {"actual", "booked"}, reliable \in BOOLEAN, trip \in ActualTrips :
            Complete(b, mode, reliable, trip)

Spec == Init /\ [][Next]_pricingVars

-----------------------------------------------------------------------------
TypeOK ==
  /\ now \in 0..MaxTime /\ writes \in 0..MaxWrites
  /\ \A s \in Slots : slot[s] \in PeakPricingSlot
  /\ \A q \in Requests : request[q].pc \in {"idle", "check", "write", "remove"}
  /\ \A n \in Nodes : cache[n].expires \in 0..(MaxTime + RULES_CACHE)
  /\ \A b \in Bookings : booking[b].pc \in {"idle", "tariff", "rules", "booked", "completed"}
  /\ \A b \in Bookings : booking[b].fare \in RideFare /\ booking[b].final.total \in Nat
  /\ Len(tariffs) \in 1..2 /\ tariffs \in Seq(PricingConfig)

\* No two active slots claim a minute of the day for one ride type, those across midnight included,
\* when one API node takes the admins' writes; the writes are checked before they are made.
OnePeakAtATime ==
  (\A p, q \in Requests : NodeOf[p] = NodeOf[q]) =>
  \A r1, r2 \in Rules : r1 # r2 =>
    \A type \in RideTypes, minute \in 0..(DAY - 1) :
      ~(\A r \in {r1, r2} : AppliesTo(r.draft, type) /\ WindowContains(r.draft, minute))

\* A booking is priced with the peak of rules that were active at most RULES_CACHE before it,
\* whichever node wrote them last.
PeaksAreFresh ==
  \A b \in Bookings : booking[b].pc = "booked" =>
    \E p \in past :
      /\ p[1] >= booking[b].at - RULES_CACHE
      /\ booking[b].fare.hike \in ResolvePeak(p[2], booking[b].type, booking[b].at % DAY)

\* The version on a fare names the rates that produced it, whatever was edited meanwhile; the peak
\* moved nothing but the distance charge, and by what the fare says.
FareIsTraceable ==
  \A b \in Bookings : booking[b].pc \in {"booked", "completed"} =>
    LET fare == booking[b].fare
        rates == tariffs[fare.version] IN
    /\ <<fare.base, fare.perMinute, fare.minimum, fare.normalPerKm>>
         = <<rates.base, rates.perMinute, rates.minimum, rates.perKm>>
    /\ fare.surcharge >= 0
    /\ fare.total - Total(rates, BookedTrip) \in (fare.surcharge - 100)..(fare.surcharge + 100)
         \/ Total(rates, BookedTrip) <= rates.minimum + 50

\* The trip the customer accepted costs what was shown: a bill for the booked route is the estimate,
\* and no trip costs more than the cap over it, nor less than the lowest fare of the booking.
AcceptedFareStands ==
  \A b \in Bookings : booking[b].pc = "completed" =>
    LET fare == booking[b].fare
        final == booking[b].final IN
    /\ final.trip = BookedTrip => final.total = fare.total
    /\ MaxEstimateMultiplier > 0 => final.total <= Cap(fare)
    /\ final.total + 50 >= fare.minimum \/ final.total = Cap(fare)

\* An edit replaces the slot its admin read, whatever the other nodes write.
EditIsOfWhatWasReadStep ==
  \A s \in Slots : slot[s].exists /\ slot'[s].exists /\ slot'[s] # slot[s] =>
    \E q \in Requests : request[q].slot = s /\ request[q].current = slot[s]
EditIsOfWhatWasRead == [][EditIsOfWhatWasReadStep]_pricingVars
=============================================================================
