----------------------------- MODULE Promotions -----------------------------
(***************************************************************************)
(* The uses of one promo code: reserved before a ride is written, redeemed *)
(* when the ride completes, released when the booking fails or the ride    *)
(* ends without a trip.  The code and each redemption are documents of     *)
(* their own, so a use is counted in one step and recorded in another, and *)
(* a handler may die between them.                                         *)
(*                                                                         *)
(* Two handlers work on a ride: the booking, and the listener of its       *)
(* ride.transitioned event once it has ended.  Fares, ride types and the   *)
(* validity window only decide whether a code applies, as `active` does.   *)
(***************************************************************************)
EXTENDS Naturals, FiniteSets

CONSTANTS
  Rides,         \* bookings with the code
  UserOf,        \* the customer of each booking
  PerUserLimit,  \* perUserLimit of the code
  Limits,        \* values an admin gives usageLimit
  MaxFailures    \* bound: handlers that die or database calls that fail

VARIABLES
  active,        \* the code's status is ACTIVE
  usageLimit,
  usedCount,
  redeemedCount,
  redemption,    \* status of the redemption document of each ride
  forgotten,     \* history: the redemptions written while their insert was reported as failed
  ride,          \* the ride document: not there, open or ended
  booking,       \* where the handler that books ride r is
  listener,      \* where the listener of the end of ride r is
  edit,          \* the limit an admin's update has checked and not yet written
  promoFailures

code == <<active, usageLimit, usedCount, redeemedCount>>
uses == <<redemption, forgotten>>
promoVars == <<code, uses, ride, booking, listener, edit, promoFailures>>

NotEditing == 0
ACTIVE_USE == {"RESERVED", "REDEEMED"}
PromoRedemptionStatus == {"NONE", "RELEASED"} \cup ACTIVE_USE
Uses == {r \in Rides : redemption[r] \in ACTIVE_USE}
Counted == Uses \ forgotten
UsesOf(u) == {r \in Uses : UserOf[r] = u}
HasOpenRide(u) == \E r \in Rides : UserOf[r] = u /\ ride[r] = "open"

\* What the promo_codes document says of a code's limit and uses.
PromoCode == [usageLimit : Limits, usedCount : Nat, redeemedCount : Nat]

Init ==
  /\ active = TRUE
  /\ usageLimit \in Limits
  /\ usedCount = 0
  /\ redeemedCount = 0
  /\ redemption = [r \in Rides |-> "NONE"]
  /\ forgotten = {}
  /\ ride = [r \in Rides |-> "none"]
  /\ booking = [r \in Rides |-> "new"]
  /\ listener = [r \in Rides |-> "waiting"]
  /\ edit = NotEditing
  /\ promoFailures = 0

Books(r, from, to) == booking[r] = from /\ booking' = [booking EXCEPT ![r] = to]
Hears(r, from, to) == listener[r] = from /\ listener' = [listener EXCEPT ![r] = to]
\* release() is called by the booking and by the listener.
Calls(r, from, to) ==
  \/ Books(r, from, to) /\ UNCHANGED listener
  \/ Hears(r, from, to) /\ UNCHANGED booking
Dec(n) == IF n > 0 THEN n - 1 ELSE n
Fails == promoFailures < MaxFailures /\ promoFailures' = promoFailures + 1
Moves(r, from, to) ==
  /\ redemption' = [redemption EXCEPT ![r] = IF @ = from THEN to ELSE @]
  /\ UNCHANGED forgotten

-----------------------------------------------------------------------------
(* Booking with the code: PromotionsService.reserve, then the ride's insert. *)

\* precheckPromo and evaluatePromo; an ineligible code refuses the booking.
Eligible(u) ==
  active /\ usedCount < usageLimit /\ Cardinality(UsesOf(u)) < PerUserLimit

Evaluate(r) ==
  /\ Books(r, "new", IF Eligible(UserOf[r]) THEN "evaluated" ELSE "ended")
  /\ UNCHANGED <<code, uses, ride, listener, edit, promoFailures>>

\* (A bug: the read is trusted.)
ClaimableUnchecked == active
\* The conditional increment that guards the limit of the code.
Claimable == active /\ usedCount < usageLimit

Claim(r) ==
  /\ Books(r, "evaluated", IF Claimable THEN "claimed" ELSE "ended")
  /\ usedCount' = IF Claimable THEN usedCount + 1 ELSE usedCount
  /\ UNCHANGED <<active, usageLimit, redeemedCount, uses, ride, listener, edit,
                 promoFailures>>

CreateRedemption(r) ==
  /\ Books(r, "claimed", "reserved")
  /\ redemption' = [redemption EXCEPT ![r] = "RESERVED"]
  /\ UNCHANGED <<code, forgotten, ride, listener, edit, promoFailures>>

\* The insert of the redemption is reported as failed, whether or not it was
\* written: the claim is taken back all the same, and nobody undoes the document.
CreateFails(r) ==
  /\ Books(r, "claimed", "giveBack")
  /\ Fails
  /\ \/ UNCHANGED uses
     \/ /\ redemption' = [redemption EXCEPT ![r] = "RESERVED"]
        /\ forgotten' = forgotten \cup {r}
  /\ UNCHANGED <<code, ride, listener, edit>>

Released == "release"

\* The unique index lets a customer have one open ride.  A booking whose insert
\* fails gives the use back, also when the ride was written after all.
InsertRide(r) ==
  /\ \/ /\ Books(r, "reserved", Released)
        /\ \/ HasOpenRide(UserOf[r]) /\ UNCHANGED promoFailures
           \/ Fails
        /\ UNCHANGED ride
     \/ /\ ~HasOpenRide(UserOf[r])
        /\ ride' = [ride EXCEPT ![r] = "open"]
        /\ \/ Books(r, "reserved", "ended") /\ UNCHANGED promoFailures
           \/ Books(r, "reserved", "release") /\ Fails
  /\ UNCHANGED <<code, uses, listener, edit>>

-----------------------------------------------------------------------------
(* The ride ends; PromoRideEventsListener hears of it in the same process. *)

RideEnds(r) ==
  /\ ride[r] = "open"
  /\ ride' = [ride EXCEPT ![r] = "ended"]
  /\ \E to \in {"redeem", "release"} : Hears(r, "waiting", to)
  /\ UNCHANGED <<code, uses, booking, edit, promoFailures>>

\* redeem and release are compare-and-sets on RESERVED; the counters follow.
Redeem(r) ==
  /\ Hears(r, "redeem", IF redemption[r] = "RESERVED" THEN "count" ELSE "ended")
  /\ Moves(r, "RESERVED", "REDEEMED")
  /\ UNCHANGED <<code, ride, booking, edit, promoFailures>>

CountRedeemed(r) ==
  /\ Hears(r, "count", "ended")
  /\ redeemedCount' = redeemedCount + 1
  /\ UNCHANGED <<active, usageLimit, usedCount, uses, ride, booking, edit,
                 promoFailures>>

Releasable(r) == redemption[r] = "RESERVED"

Release(r) ==
  /\ Calls(r, "release", IF Releasable(r) THEN "giveBack" ELSE "ended")
  /\ redemption' = [redemption EXCEPT ![r] = IF Releasable(r) THEN "RELEASED" ELSE @]
  /\ UNCHANGED <<code, forgotten, ride, edit, promoFailures>>

GiveBack(r) ==
  /\ Calls(r, "giveBack", "ended")
  /\ usedCount' = Dec(usedCount)
  /\ UNCHANGED <<active, usageLimit, redeemedCount, uses, ride, edit, promoFailures>>

\* The process dies: nothing resumes a booking or redelivers an event.
Crash(r) ==
  /\ \/ \E s \in {"evaluated", "claimed", "reserved", "release", "giveBack"} : Books(r, s, "ended") /\ UNCHANGED listener
     \/ \E s \in {"redeem", "count", "release", "giveBack"} : Hears(r, s, "ended") /\ UNCHANGED booking
  /\ Fails
  /\ UNCHANGED <<code, uses, ride, edit>>

-----------------------------------------------------------------------------
(* Admin. *)

SetStatus ==
  /\ active' = ~active
  /\ UNCHANGED <<usageLimit, usedCount, redeemedCount, uses, ride, booking, listener, edit, promoFailures>>

\* update() compares the new limit with the count it read and writes it later.
CheckLimit ==
  /\ edit = NotEditing
  /\ \E n \in Limits : n >= usedCount /\ edit' = n
  /\ UNCHANGED <<code, uses, ride, booking, listener, promoFailures>>

WriteLimit ==
  /\ edit # NotEditing
  /\ usageLimit' = edit
  /\ edit' = NotEditing
  /\ UNCHANGED <<active, usedCount, redeemedCount, uses, ride, booking, listener, promoFailures>>

Next ==
  \/ \E r \in Rides :
       \/ Evaluate(r) \/ Claim(r) \/ CreateRedemption(r) \/ CreateFails(r)
       \/ InsertRide(r) \/ RideEnds(r) \/ Redeem(r)
       \/ CountRedeemed(r) \/ Release(r) \/ GiveBack(r) \/ Crash(r)
  \/ SetStatus \/ CheckLimit \/ WriteLimit

Spec == Init /\ [][Next]_promoVars
-----------------------------------------------------------------------------
TypeOK ==
  /\ active \in BOOLEAN
  /\ [usageLimit |-> usageLimit, usedCount |-> usedCount, redeemedCount |-> redeemedCount] \in PromoCode
  /\ redemption \in [Rides -> PromoRedemptionStatus]
  /\ forgotten \subseteq Rides
  /\ ride \in [Rides -> {"none", "open", "ended"}]
  /\ booking \in [Rides -> {"new", "evaluated", "claimed", "reserved", "release",
                            "giveBack", "ended"}]
  /\ listener \in [Rides -> {"waiting", "redeem", "count", "release", "giveBack", "ended"}]
  /\ edit \in Limits \cup {NotEditing}
  /\ promoFailures \in 0..MaxFailures

\* The count misses a use in one case only, whatever dies half-way and whoever
\* releases a use at the same time: what the limit is compared with covers every
\* reserved and redeemed use (schemas/promo-code.schema.ts:65) but those whose
\* insert was reported as failed and written all the same (promotions.service.ts:477),
\* and no such use ever has a ride.
UsesAreCounted ==
  /\ Cardinality(Counted) <= usedCount
  /\ \A r \in forgotten : redemption[r] = "RESERVED" /\ ride[r] = "none"

\* Without failures nothing leaks: once every handler has finished, the counters
\* are exactly the uses and the redeemed uses, and a use is held by an open ride only.
CountersSettle ==
  (/\ promoFailures = 0
   /\ \A r \in Rides : /\ booking[r] \in {"new", "evaluated", "ended"}
                        /\ listener[r] \in {"waiting", "ended"})
  => /\ usedCount = Cardinality(Uses)
     /\ redeemedCount = Cardinality({r \in Rides : redemption[r] = "REDEEMED"})
     /\ \A r \in Rides : redemption[r] = "RESERVED" => ride[r] = "open"

\* Concurrent bookings never take the code past its limit; only an admin's late
\* write of a limit it checked earlier leaves the count above it.
OnlyAdminExceedsLimitStep == usedCount <= usageLimit /\ usedCount' > usageLimit' => usageLimit' # usageLimit
OnlyAdminExceedsLimit == [][OnlyAdminExceedsLimitStep]_promoVars
=============================================================================
