------------------------------ MODULE MCTrips ------------------------------
(* The services around a trip and its money, side by side: each behaviour is one
   of one service, chosen by part, and the variables of the others stay Off. *)
EXTENDS Integers, FiniteSets, FiniteSetTheorems, Sequences, TLC, TLAPS

CONSTANTS
  ReconRuns, ReconPages, ReconMaxPages, ReconMaxFailures,  \* the reconciliation's
  PromoRides, PromoUserOf, PromoPerUserLimit, PromoLimits, PromoMaxFailures,  \* a promo code's
  CodeAttempts, CodeMaxGuesses, CodeMaxCodes, CodeMaxRequests, CodeMaxFailures,  \* a trip's codes'
  NoCodeMaxGuesses, NoCodeMaxCodes, NoCodeMaxRequests, NoCodeMaxFailures  \* without end codes

VARIABLES
  part,   \* the service this behaviour is of
  active, usageLimit, usedCount, redeemedCount, redemption, forgotten, ride, booking, listener,
    edit, promoFailures,
  trip, otp, otpLapsed, otpAttempts, asked, waited, sosOpen, completion, minted, requests, tries,
    verified, attempt, codeFailures,
  status, stop, current, exception, command, desk, driverBusy, travelled, usage, monitor, flags,
    sent, reports, finishes,
  exists, packageStatus, stops, priced, revision, hasBookings, packageDesk, booker, circuits,
    overlapped, edits,
  circuitOf, vehicleOf, instance, due, catalogueDesk, lastRecord, crossed, drafts, codeCounter,
    clock, catalogueEdits, instanceCrashes,
  versions, now, change, credited, line, adj, payout,
  policies, feeRide, left, copy, row, cancel, feeDesk, feeNow, feeTries, crashes,
  item, bill, run, job, failures,
  linkNow, shared, link, creator, viewer,
  trackNow, path, driver, trackTrip, store, ingest, points, measured, told, tally,
  peakNow, slot, request, cache, tariffs, peakBooking, past, writes,
  typeSwitch, typeTariff, typeLimits, radii, limitsOf, configNode, configDesk, configBooking,
    stranded, configEdits, boots, deaths,
  reportNow, booked, report, bookWrites,
  liveRide, handler, queue, running, socket, app, count, livePast,
  routeTrip, routes, inFlight, calls, routeCache, breaker, poll, quote, routeNow, failedAt,
    routeCount,
  search, searchCache, searchInFlight, log, searchNow, searchAsked,
  place, boot, popularEdit, rider, kept, popularAsked, popularCrossed, popularCount,
  saved, indexes, prepare, savedRequest, fact, savedCount,
  zone, zoneDesk, areaBooking, drawn, auditRecord, zoneCrossed, zoneRequests

(* The services that are proved about come first, each with its proof; how they run side by side,
   and what that shows, follows the last of them. *)

-----------------------------------------------------------------------------
(* The uses of a promo code: which of them the count covers at every moment, those whose claim is
   not yet a redemption or not yet given back included. *)

Promos == INSTANCE Promotions WITH
  Rides <- PromoRides, UserOf <- PromoUserOf, PerUserLimit <- PromoPerUserLimit,
    Limits <- PromoLimits, MaxFailures <- PromoMaxFailures

ASSUME PromoBounds == PromoLimits \subseteq Nat /\ PromoMaxFailures \in Nat

LEMMA UsesAreNumbered == ASSUME NEW S PROVE Promos!Cardinality(S) = Cardinality(S)
  BY DEF Promos!Cardinality, Cardinality

\* Finitely many bookings have begun; the uses are among them.
Begun == {r \in PromoRides : booking[r] # "new"}
\* Claims without a redemption: made by the booking, or taken back by one of the two handlers.
Claims == {r \in PromoRides : booking[r] \in {"claimed", "giveBack"}}
Returns == {r \in PromoRides : listener[r] = "giveBack"}
Redeemed == {r \in PromoRides : redemption[r] = "REDEEMED"}
Counting == {r \in PromoRides : listener[r] = "count"}

\* What the labels of the two handlers of a ride say of its documents.
HandlersAgree ==
  \A r \in PromoRides :
    /\ booking[r] \in {"new", "evaluated", "claimed"} =>
         redemption[r] = "NONE" /\ ride[r] = "none" /\ listener[r] = "waiting"
    /\ booking[r] = "reserved" =>
         redemption[r] = "RESERVED" /\ ride[r] = "none" /\ listener[r] = "waiting"
    /\ booking[r] = "giveBack" => redemption[r] \notin Promos!ACTIVE_USE \/ r \in forgotten
    /\ r \in forgotten => /\ redemption[r] = "RESERVED" /\ ride[r] = "none"
                          /\ booking[r] \in {"giveBack", "ended"}
    /\ listener[r] = "giveBack" => redemption[r] \notin Promos!ACTIVE_USE
    /\ listener[r] = "count" => redemption[r] = "REDEEMED"
    /\ ride[r] # "ended" <=> listener[r] = "waiting"

\* As long as nothing has failed, a use whose booking is over belongs to a ride, and to a
\* ride that is over only until its listener has run.
NothingLeaks ==
  promoFailures = 0 =>
    /\ forgotten = {}
    /\ \A r \in PromoRides :
      /\ redemption[r] = "RESERVED" /\ booking[r] = "ended" => ride[r] # "none"
      /\ redemption[r] = "RESERVED" /\ ride[r] = "ended" => listener[r] \in {"redeem", "release"}

\* The count covers the uses and the claims, and without failures is exactly that.
CountCovers ==
  LET covered == Cardinality(Promos!Counted) + Cardinality(Claims) + Cardinality(Returns) IN
  /\ covered <= usedCount
  /\ promoFailures = 0 => covered = usedCount
RedeemedAreCounted ==
  promoFailures = 0 => redeemedCount + Cardinality(Counting) = Cardinality(Redeemed)

PromoTypes ==
  /\ active \in BOOLEAN /\ usageLimit \in PromoLimits /\ usedCount \in Nat /\ redeemedCount \in Nat
  /\ redemption \in [PromoRides -> Promos!PromoRedemptionStatus]
  /\ forgotten \subseteq PromoRides
  /\ ride \in [PromoRides -> {"none", "open", "ended"}]
  /\ booking \in [PromoRides -> {"new", "evaluated", "claimed", "reserved", "release",
                            "giveBack", "ended"}]
  /\ listener \in [PromoRides -> {"waiting", "redeem", "count", "release", "giveBack", "ended"}]
  /\ edit \in PromoLimits \cup {Promos!NotEditing}
  /\ promoFailures \in Nat

UsesInv ==
  /\ PromoTypes /\ IsFiniteSet(Begun) /\ HandlersAgree /\ NothingLeaks
  /\ CountCovers /\ RedeemedAreCounted

RideMoves(r) ==
  \/ Promos!Evaluate(r) \/ Promos!Claim(r) \/ Promos!CreateRedemption(r) \/ Promos!CreateFails(r)
  \/ Promos!InsertRide(r) \/ Promos!RideEnds(r) \/ Promos!Redeem(r)
  \/ Promos!CountRedeemed(r) \/ Promos!Release(r) \/ Promos!GiveBack(r) \/ Promos!Crash(r)

\* The labels and documents: one pass over the actions.
LEMMA PromoTypesStep ==
  ASSUME PromoTypes, [Promos!Next]_(Promos!promoVars)
  PROVE  PromoTypes'
  <1> USE DEF PromoTypes, Promos!PromoRedemptionStatus, Promos!ACTIVE_USE, Promos!Books,
              Promos!Hears, Promos!Calls, Promos!Fails, Promos!Moves,
              Promos!Dec, Promos!Released
  <1>1. CASE UNCHANGED Promos!promoVars
    BY <1>1 DEF Promos!promoVars, Promos!code, Promos!uses
  <1>2. CASE Promos!SetStatus \/ Promos!CheckLimit \/ Promos!WriteLimit
    BY <1>2 DEF Promos!SetStatus, Promos!CheckLimit, Promos!WriteLimit, Promos!code, Promos!uses
  <1>3. ASSUME NEW r \in PromoRides, Promos!Evaluate(r) \/ Promos!Claim(r) \/ Promos!CreateRedemption(r) \/
               Promos!CreateFails(r)
        PROVE  PromoTypes'
    BY <1>3 DEF Promos!Evaluate, Promos!Claim, Promos!CreateRedemption, Promos!CreateFails, Promos!code, Promos!uses
  <1>4. ASSUME NEW r \in PromoRides, Promos!InsertRide(r) \/ Promos!RideEnds(r) \/ Promos!Redeem(r) \/
               Promos!CountRedeemed(r)
        PROVE  PromoTypes'
    BY <1>4 DEF Promos!InsertRide, Promos!RideEnds, Promos!Redeem, Promos!CountRedeemed, Promos!code, Promos!uses
  <1>5. ASSUME NEW r \in PromoRides, Promos!Release(r) \/ Promos!GiveBack(r) \/ Promos!Crash(r)
        PROVE  PromoTypes'
    BY <1>5 DEF Promos!Release, Promos!GiveBack, Promos!Crash, Promos!code, Promos!uses
  <1> QED BY <1>1, <1>2, <1>3, <1>4, <1>5 DEF Promos!Next

\* Bookings that begin are one more each time.
LEMMA BegunStep ==
  ASSUME PromoTypes, IsFiniteSet(Begun), [Promos!Next]_(Promos!promoVars)
  PROVE  IsFiniteSet(Begun)'
  <1> USE DEF PromoTypes, Begun
  <1>1. CASE UNCHANGED Promos!promoVars \/ Promos!SetStatus \/ Promos!CheckLimit \/ Promos!WriteLimit
    <2>1. Begun' = Begun
      BY <1>1 DEF Promos!promoVars, Promos!code, Promos!uses, Promos!SetStatus, Promos!CheckLimit, Promos!WriteLimit
    <2> QED BY <2>1
  <1>2. ASSUME NEW r \in PromoRides, RideMoves(r)
        PROVE  IsFiniteSet(Begun)'
    <2>1. \A q \in PromoRides : q # r => booking'[q] = booking[q]
      BY <1>2 DEF RideMoves, Promos!Evaluate, Promos!Claim, Promos!CreateRedemption,
                  Promos!CreateFails, Promos!InsertRide, Promos!RideEnds,
                  Promos!Redeem, Promos!CountRedeemed, Promos!Release, Promos!GiveBack,
                  Promos!Crash, Promos!Books, Promos!Hears, Promos!Calls
    <2>2. Begun' \subseteq Begun \cup {r}
      BY <2>1
    <2>3. IsFiniteSet(Begun \cup {r})
      BY FS_AddElement
    <2> QED BY <2>2, <2>3, FS_Subset
  <1> QED BY <1>1, <1>2 DEF Promos!Next, RideMoves

\* A handler's label agrees with the documents of its ride in every step.
LEMMA HandlersStep ==
  ASSUME PromoTypes, HandlersAgree, [Promos!Next]_(Promos!promoVars)
  PROVE  HandlersAgree'
  <1> USE DEF PromoTypes, HandlersAgree, Promos!ACTIVE_USE, Promos!Books, Promos!Hears,
              Promos!Calls, Promos!Moves, Promos!Released
  <1>1. CASE UNCHANGED Promos!promoVars
    BY <1>1 DEF Promos!promoVars, Promos!code, Promos!uses
  <1>2. CASE Promos!SetStatus \/ Promos!CheckLimit \/ Promos!WriteLimit
    BY <1>2 DEF Promos!SetStatus, Promos!CheckLimit, Promos!WriteLimit, Promos!code, Promos!uses
  <1>3. ASSUME NEW r \in PromoRides, Promos!Evaluate(r) \/ Promos!Claim(r) \/ Promos!CreateRedemption(r) \/
               Promos!CreateFails(r)
        PROVE  HandlersAgree'
    BY <1>3 DEF Promos!Evaluate, Promos!Claim, Promos!CreateRedemption, Promos!CreateFails, Promos!code, Promos!uses
  <1>4. ASSUME NEW r \in PromoRides, Promos!InsertRide(r) \/ Promos!RideEnds(r) \/ Promos!Redeem(r) \/
               Promos!CountRedeemed(r)
        PROVE  HandlersAgree'
    BY <1>4 DEF Promos!InsertRide, Promos!RideEnds, Promos!Redeem, Promos!CountRedeemed, Promos!code, Promos!uses
  <1>5. ASSUME NEW r \in PromoRides, Promos!Release(r) \/ Promos!GiveBack(r)
        PROVE  HandlersAgree'
    BY <1>5 DEF Promos!Release, Promos!GiveBack, Promos!code, Promos!uses, Promos!Releasable
  <1>6. ASSUME NEW r \in PromoRides, Promos!Crash(r)
        PROVE  HandlersAgree'
    BY <1>6 DEF Promos!Crash, Promos!code, Promos!uses
  <1> QED BY <1>1, <1>2, <1>3, <1>4, <1>5, <1>6 DEF Promos!Next

\* Without failures no use is left behind.
LEMMA LeaksStep ==
  ASSUME PromoTypes, HandlersAgree, NothingLeaks, [Promos!Next]_(Promos!promoVars)
  PROVE  NothingLeaks'
  <1> USE DEF PromoTypes, HandlersAgree, NothingLeaks, Promos!ACTIVE_USE, Promos!Books,
              Promos!Hears, Promos!Calls, Promos!Moves, Promos!Released,
              Promos!Fails
  <1>1. CASE UNCHANGED Promos!promoVars
    BY <1>1 DEF Promos!promoVars, Promos!code, Promos!uses
  <1>2. CASE Promos!SetStatus \/ Promos!CheckLimit \/ Promos!WriteLimit
    BY <1>2 DEF Promos!SetStatus, Promos!CheckLimit, Promos!WriteLimit, Promos!code, Promos!uses
  <1>3. ASSUME NEW r \in PromoRides, Promos!Evaluate(r) \/ Promos!Claim(r) \/ Promos!CreateRedemption(r) \/
               Promos!CreateFails(r)
        PROVE  NothingLeaks'
    BY <1>3 DEF Promos!Evaluate, Promos!Claim, Promos!CreateRedemption, Promos!CreateFails, Promos!code, Promos!uses
  <1>4. ASSUME NEW r \in PromoRides, Promos!InsertRide(r) \/ Promos!RideEnds(r) \/ Promos!Redeem(r) \/
               Promos!CountRedeemed(r)
        PROVE  NothingLeaks'
    BY <1>4 DEF Promos!InsertRide, Promos!RideEnds, Promos!Redeem, Promos!CountRedeemed, Promos!code, Promos!uses
  <1>5. ASSUME NEW r \in PromoRides, Promos!Release(r) \/ Promos!GiveBack(r)
        PROVE  NothingLeaks'
    BY <1>5 DEF Promos!Release, Promos!GiveBack, Promos!code, Promos!uses, Promos!Releasable
  <1>6. ASSUME NEW r \in PromoRides, Promos!Crash(r)
        PROVE  NothingLeaks'
    BY <1>6 DEF Promos!Crash, Promos!code, Promos!uses
  <1> QED BY <1>1, <1>2, <1>3, <1>4, <1>5, <1>6 DEF Promos!Next

\* A set that changes at one element only is counted one more or one less.
Bit(b) == IF b THEN 1 ELSE 0
LEMMA CountOne ==
  ASSUME NEW S, NEW T, NEW x, IsFiniteSet(S), S \ {x} = T \ {x}
  PROVE  /\ IsFiniteSet(T) /\ Cardinality(S) \in Nat /\ Cardinality(T) \in Nat
         /\ Cardinality(T) + Bit(x \in S) = Cardinality(S) + Bit(x \in T)
  <1>1. T \subseteq S \cup {x} /\ IsFiniteSet(S \cup {x})
    BY FS_AddElement
  <1>2. IsFiniteSet(T)
    BY <1>1, FS_Subset
  <1>3. Cardinality(S) \in Nat /\ Cardinality(T) \in Nat
    BY <1>2, FS_CardinalityType
  <1>4. Cardinality(S \ {x}) = Cardinality(S) - Bit(x \in S)
    BY <1>3, FS_RemoveElement DEF Bit
  <1>5. Cardinality(T \ {x}) = Cardinality(T) - Bit(x \in T)
    BY <1>2, <1>3, FS_RemoveElement DEF Bit
  <1>6. Bit(x \in S) \in Nat /\ Bit(x \in T) \in Nat
    BY DEF Bit
  <1>7. Cardinality(S) - Bit(x \in S) = Cardinality(T) - Bit(x \in T)
    BY <1>4, <1>5
  <1> HIDE DEF Bit
  <1> QED BY <1>2, <1>3, <1>6, <1>7

\* The uses and claims belong to bookings that have begun.
LEMMA UsesHaveBegun ==
  ASSUME PromoTypes, HandlersAgree, IsFiniteSet(Begun)
  PROVE  /\ IsFiniteSet(Promos!Counted) /\ IsFiniteSet(Claims) /\ IsFiniteSet(Returns)
         /\ IsFiniteSet(Redeemed) /\ IsFiniteSet(Counting)
  <1>1. /\ Promos!Counted \subseteq Begun /\ Claims \subseteq Begun /\ Returns \subseteq Begun
        /\ Redeemed \subseteq Begun /\ Counting \subseteq Begun
    BY DEF Promos!Counted, Promos!Uses, Claims, Returns, Redeemed, Counting, Begun, HandlersAgree, PromoTypes,
           Promos!ACTIVE_USE
  <1> QED BY <1>1, FS_Subset

\* What a step of ride r does to the uses and the claims, by what it does to r.
LEMMA RideCounts ==
  ASSUME PromoTypes, HandlersAgree, IsFiniteSet(Begun), NEW r \in PromoRides, RideMoves(r)
  PROVE  /\ Cardinality(Promos!Counted') + Bit(r \in Promos!Counted) = Cardinality(Promos!Counted) + Bit(r \in Promos!Counted')
         /\ Cardinality(Claims') + Bit(r \in Claims) = Cardinality(Claims) + Bit(r \in Claims')
         /\ Cardinality(Returns') + Bit(r \in Returns) = Cardinality(Returns) + Bit(r \in Returns')
         /\ Cardinality(Redeemed') + Bit(r \in Redeemed) = Cardinality(Redeemed) + Bit(r \in Redeemed')
         /\ Cardinality(Counting') + Bit(r \in Counting) = Cardinality(Counting) + Bit(r \in Counting')
         /\ Cardinality(Promos!Counted) \in Nat /\ Cardinality(Claims) \in Nat /\ Cardinality(Returns) \in Nat
         /\ Cardinality(Promos!Counted') \in Nat /\ Cardinality(Claims') \in Nat /\
            Cardinality(Returns') \in Nat
         /\ Cardinality(Redeemed) \in Nat /\ Cardinality(Redeemed') \in Nat
         /\ Cardinality(Counting) \in Nat /\ Cardinality(Counting') \in Nat
  <1>1. \A q \in PromoRides : q # r => /\ booking'[q] = booking[q] /\ listener'[q] = listener[q]
                                       /\ redemption'[q] = redemption[q]
                                       /\ q \in forgotten' <=> q \in forgotten
    BY DEF RideMoves, Promos!Evaluate, Promos!Claim, Promos!CreateRedemption, Promos!CreateFails,
           Promos!InsertRide, Promos!RideEnds,
           Promos!Redeem, Promos!CountRedeemed, Promos!Release, Promos!GiveBack, Promos!Crash,
           Promos!Books, Promos!Hears, Promos!Calls, PromoTypes, Promos!Moves,
           Promos!uses
  <1>2. /\ Promos!Counted \ {r} = Promos!Counted' \ {r} /\ Claims \ {r} = Claims' \ {r}
        /\ Returns \ {r} = Returns' \ {r} /\ Redeemed \ {r} = Redeemed' \ {r}
        /\ Counting \ {r} = Counting' \ {r}
    BY <1>1 DEF Promos!Counted, Promos!Uses, Claims, Returns, Redeemed, Counting
  <1>3. /\ IsFiniteSet(Promos!Counted) /\ IsFiniteSet(Claims) /\ IsFiniteSet(Returns)
        /\ IsFiniteSet(Redeemed) /\ IsFiniteSet(Counting)
    BY UsesHaveBegun
  <1> QED BY <1>2, <1>3, CountOne

\* How much of ride r the count has to cover: its use and the claims of its handlers.
Covered(r) == Bit(r \in Promos!Counted) + Bit(r \in Claims) + Bit(r \in Returns)

\* Every step but giving back covers what it adds.
LEMMA CoverMoves ==
  ASSUME PromoTypes, HandlersAgree, NEW r \in PromoRides, RideMoves(r), ~Promos!GiveBack(r)
  PROVE  /\ Covered(r)' - Covered(r) <= usedCount' - usedCount
         /\ promoFailures' = 0 =>
              promoFailures = 0 /\ Covered(r)' - Covered(r) = usedCount' - usedCount
  <1> USE DEF PromoTypes, HandlersAgree, Promos!ACTIVE_USE, Promos!Books, Promos!Hears,
              Promos!Calls, Promos!Moves, Promos!Released, Promos!Fails,
              Covered, Bit, Promos!Counted, Promos!Uses, Claims, Returns
  <1>1. CASE Promos!Evaluate(r)
    BY <1>1 DEF Promos!Evaluate, Promos!code, Promos!uses
  <1>2. CASE Promos!Claim(r)
    BY <1>2 DEF Promos!Claim, Promos!code, Promos!uses
  <1>3. CASE Promos!CreateRedemption(r)
    BY <1>3 DEF Promos!CreateRedemption, Promos!code, Promos!uses
  <1>4. CASE Promos!CreateFails(r)
    BY <1>4 DEF Promos!CreateFails, Promos!code, Promos!uses
  <1>5. CASE Promos!InsertRide(r)
    BY <1>5 DEF Promos!InsertRide, Promos!code, Promos!uses
  <1>6. CASE Promos!RideEnds(r)
    BY <1>6 DEF Promos!RideEnds, Promos!code, Promos!uses
  <1>7. CASE Promos!Redeem(r)
    BY <1>7 DEF Promos!Redeem, Promos!code, Promos!uses
  <1>8. CASE Promos!CountRedeemed(r)
    BY <1>8 DEF Promos!CountRedeemed, Promos!code, Promos!uses
  <1>9. CASE Promos!Release(r)
    BY <1>9 DEF Promos!Release, Promos!Releasable, Promos!code, Promos!uses
  <1>10. CASE Promos!Crash(r)
    BY <1>10 DEF Promos!Crash, Promos!code, Promos!uses
  <1> QED BY <1>1, <1>2, <1>3, <1>4, <1>5, <1>6, <1>7, <1>8, <1>9, <1>10 DEF RideMoves

\* Giving back takes a claim off, and one off the count, which is positive.
LEMMA GiveBackMoves ==
  ASSUME PromoTypes, HandlersAgree, NEW r \in PromoRides, Promos!GiveBack(r)
  PROVE  /\ Covered(r)' + 1 = Covered(r)
         /\ usedCount' = Promos!Dec(usedCount) /\ promoFailures' = promoFailures
  BY DEF PromoTypes, HandlersAgree, Promos!ACTIVE_USE, Promos!Books, Promos!Hears, Promos!Calls,
         Covered, Bit, Promos!Counted, Promos!Uses, Claims,
         Returns, Promos!GiveBack, Promos!uses

LEMMA CoverStep ==
  ASSUME PromoTypes, HandlersAgree, IsFiniteSet(Begun), CountCovers, [Promos!Next]_(Promos!promoVars)
  PROVE  CountCovers'
  <1>1. CASE UNCHANGED Promos!promoVars \/ Promos!SetStatus \/ Promos!CheckLimit \/ Promos!WriteLimit
    <2>1. /\ Promos!Counted' = Promos!Counted /\ Claims' = Claims /\ Returns' = Returns
          /\ usedCount' = usedCount /\ promoFailures' = promoFailures
      BY <1>1 DEF Promos!promoVars, Promos!code, Promos!uses, Promos!SetStatus, Promos!CheckLimit,
                  Promos!WriteLimit, Promos!Counted, Promos!Uses, Claims, Returns
    <2> QED BY <2>1 DEF CountCovers
  <1>2. ASSUME NEW r \in PromoRides, RideMoves(r)
        PROVE  CountCovers'
    <2> DEFINE u == Cardinality(Promos!Counted)
               c == Cardinality(Claims)
               t == Cardinality(Returns)
               v == Cardinality(Promos!Counted')
               d == Cardinality(Claims')
               w == Cardinality(Returns')
    <2>1. /\ v + Bit(r \in Promos!Counted) = u + Bit(r \in Promos!Counted')
          /\ d + Bit(r \in Claims) = c + Bit(r \in Claims')
          /\ w + Bit(r \in Returns) = t + Bit(r \in Returns')
      BY <1>2, RideCounts
    <2>2. u \in Nat /\ c \in Nat /\ t \in Nat /\ v \in Nat /\ d \in Nat /\ w \in Nat
      BY <1>2, RideCounts
    <2>3. /\ Bit(r \in Promos!Counted) \in Nat /\ Bit(r \in Claims) \in Nat /\ Bit(r \in Returns) \in Nat
          /\ Bit(r \in Promos!Counted') \in Nat /\ Bit(r \in Claims') \in Nat /\ Bit(r \in Returns') \in Nat
      BY DEF Bit
    <2>4. /\ Covered(r) = Bit(r \in Promos!Counted) + Bit(r \in Claims) + Bit(r \in Returns)
          /\ Covered(r)' = Bit(r \in Promos!Counted') + Bit(r \in Claims') + Bit(r \in Returns')
      BY DEF Covered
    <2>5. u + c + t <= usedCount /\ (promoFailures = 0 => u + c + t = usedCount)
      BY DEF CountCovers
    <2>6. usedCount \in Nat /\ usedCount' \in Nat
      BY <1>2, PromoTypesStep DEF PromoTypes, Promos!Next, RideMoves
    <2> HIDE DEF u, c, t, v, d, w, Covered, Bit
    <2>7. v + d + w - (u + c + t) = Covered(r)' - Covered(r)
      BY <2>1, <2>2, <2>3, <2>4
    <2>8. /\ v + d + w <= usedCount'
          /\ promoFailures' = 0 => v + d + w = usedCount'
      <3>1. Covered(r) \in Nat /\ Covered(r)' \in Nat
        BY <2>3, <2>4
      <3>2. CASE ~Promos!GiveBack(r)
        BY <1>2, <2>2, <2>5, <2>6, <2>7, <3>1, <3>2, CoverMoves
      <3>3. CASE Promos!GiveBack(r)
        BY <2>2, <2>5, <2>6, <2>7, <3>1, <3>3, GiveBackMoves DEF Promos!Dec
      <3> QED BY <3>2, <3>3
    <2> QED BY <2>8 DEF CountCovers, u, c, t, v, d, w
  <1> QED BY <1>1, <1>2 DEF Promos!Next, RideMoves

\* A redemption that is under way is redeemed and not yet counted.
LEMMA RedeemedMoves ==
  ASSUME PromoTypes, HandlersAgree, NEW r \in PromoRides, RideMoves(r), promoFailures' = 0
  PROVE  /\ promoFailures = 0
         /\ redeemedCount' + Bit(r \in Counting') + Bit(r \in Redeemed)
              = redeemedCount + Bit(r \in Counting) + Bit(r \in Redeemed')
  <1> USE DEF PromoTypes, HandlersAgree, Promos!ACTIVE_USE, Promos!Books, Promos!Hears,
              Promos!Calls, Promos!Moves, Promos!Released, Promos!Fails,
              Bit, Redeemed, Counting
  <1>1. CASE Promos!Evaluate(r) \/ Promos!Claim(r) \/ Promos!CreateRedemption(r) \/ Promos!CreateFails(r)
    BY <1>1 DEF Promos!Evaluate, Promos!Claim, Promos!CreateRedemption, Promos!CreateFails, Promos!code, Promos!uses
  <1>2. CASE Promos!InsertRide(r) \/ Promos!RideEnds(r)
    BY <1>2 DEF Promos!InsertRide, Promos!RideEnds, Promos!code, Promos!uses
  <1>3. CASE Promos!Redeem(r)
    BY <1>3 DEF Promos!Redeem, Promos!code, Promos!uses
  <1>4. CASE Promos!CountRedeemed(r)
    BY <1>4 DEF Promos!CountRedeemed, Promos!code, Promos!uses
  <1>5. CASE Promos!Release(r) \/ Promos!GiveBack(r)
    BY <1>5 DEF Promos!Release, Promos!Releasable, Promos!GiveBack, Promos!code, Promos!uses
  <1>6. CASE Promos!Crash(r)
    BY <1>6 DEF Promos!Crash, Promos!code, Promos!uses
  <1> QED BY <1>1, <1>2, <1>3, <1>4, <1>5, <1>6 DEF RideMoves

LEMMA RedeemedStep ==
  ASSUME PromoTypes, HandlersAgree, IsFiniteSet(Begun), RedeemedAreCounted,
  [Promos!Next]_(Promos!promoVars)
  PROVE  RedeemedAreCounted'
  <1>1. CASE UNCHANGED Promos!promoVars \/ Promos!SetStatus \/ Promos!CheckLimit \/ Promos!WriteLimit
    <2>1. /\ Redeemed' = Redeemed /\ Counting' = Counting
          /\ redeemedCount' = redeemedCount /\ promoFailures' = promoFailures
      BY <1>1 DEF Promos!promoVars, Promos!code, Promos!uses, Promos!SetStatus, Promos!CheckLimit,
                  Promos!WriteLimit, Redeemed, Counting
    <2> QED BY <2>1 DEF RedeemedAreCounted
  <1>2. ASSUME NEW r \in PromoRides, RideMoves(r), promoFailures' = 0
        PROVE  redeemedCount' + Cardinality(Counting') = Cardinality(Redeemed')
    <2> DEFINE n == Cardinality(Counting)
               m == Cardinality(Counting')
               e == Cardinality(Redeemed)
               f == Cardinality(Redeemed')
               bitR == Bit(r \in Redeemed)
               nextR == Bit(r \in Redeemed')
               bitC == Bit(r \in Counting)
               nextC == Bit(r \in Counting')
               k == redeemedCount
               next == redeemedCount'
    <2>1. /\ f + bitR = e + nextR
          /\ m + bitC = n + nextC
          /\ n \in Nat /\ m \in Nat /\ e \in Nat /\ f \in Nat
      BY <1>2, RideCounts
    <2>2. /\ bitR \in Nat /\ nextR \in Nat
          /\ bitC \in Nat /\ nextC \in Nat
      BY DEF Bit, bitR, nextR, bitC, nextC
    <2>3. k \in Nat /\ next \in Nat
      BY <1>2, PromoTypesStep DEF PromoTypes, Promos!Next, RideMoves
    <2>4. /\ k + n = e
          /\ next + nextC + bitR = k + bitC + nextR
      BY <1>2, RedeemedMoves DEF RedeemedAreCounted
    <2> HIDE DEF n, m, e, f, bitR, nextR, bitC, nextC, k, next
    <2>5. next + m = f
      BY <2>1, <2>2, <2>3, <2>4
    <2> QED BY <2>5 DEF m, f, next
  <1> QED BY <1>1, <1>2 DEF Promos!Next, RideMoves, RedeemedAreCounted

LEMMA UsesBegin == Promos!Init => UsesInv
  <1> SUFFICES ASSUME Promos!Init PROVE UsesInv
    OBVIOUS
  <1>1. PromoTypes
    BY DEF Promos!Init, PromoTypes, Promos!PromoRedemptionStatus
  <1>2. HandlersAgree /\ NothingLeaks
    BY DEF Promos!Init, HandlersAgree, NothingLeaks
  <1>3. Begun = {} /\ Promos!Counted = {} /\ Claims = {} /\ Returns = {} /\ Redeemed = {} /\ Counting = {}
    BY DEF Promos!Init, Begun, Promos!Counted, Promos!Uses, Claims, Returns, Redeemed, Counting, Promos!ACTIVE_USE
  <1>4. IsFiniteSet({}) /\ Cardinality({}) = 0
    BY FS_EmptySet
  <1>5. CountCovers /\ RedeemedAreCounted
    BY <1>3, <1>4 DEF Promos!Init, CountCovers, RedeemedAreCounted
  <1> QED BY <1>1, <1>2, <1>3, <1>4, <1>5 DEF UsesInv

\* The inductive invariant holds in every reachable state, for any number of bookings,
\* handlers that die and edits of the code.
THEOREM UsesInvariance == Promos!Spec => []UsesInv
  <1>1. Promos!Init => UsesInv
    BY UsesBegin
  <1>2. UsesInv /\ [Promos!Next]_(Promos!promoVars) => UsesInv'
    BY PromoTypesStep, BegunStep, HandlersStep, LeaksStep, CoverStep, RedeemedStep DEF UsesInv
  <1> QED BY <1>1, <1>2, PTL DEF Promos!Spec

\* usedCount covers every reserved and redeemed use in every reachable state but those whose
\* insert was reported as failed and written all the same: what evaluate() and the conditional
\* increment compare with the limit misses no other, and none that has a ride.
THEOREM UsesStayCounted == Promos!Spec => []Promos!UsesAreCounted
  <1>1. UsesInv => Promos!UsesAreCounted
    <2> SUFFICES ASSUME UsesInv
                 PROVE  /\ Cardinality(Promos!Counted) <= usedCount
                        /\ \A r \in forgotten : redemption[r] = "RESERVED" /\ ride[r] = "none"
      BY UsesAreNumbered DEF Promos!UsesAreCounted
    <2>1. /\ Cardinality(Promos!Counted) \in Nat /\ Cardinality(Claims) \in Nat
          /\ Cardinality(Returns) \in Nat /\ usedCount \in Nat
      BY UsesHaveBegun, FS_CardinalityType DEF UsesInv, PromoTypes
    <2>2. Cardinality(Promos!Counted) + Cardinality(Claims) + Cardinality(Returns) <= usedCount
      BY DEF UsesInv, CountCovers
    <2>3. \A r \in forgotten : redemption[r] = "RESERVED" /\ ride[r] = "none"
      BY DEF UsesInv, PromoTypes, HandlersAgree
    <2> QED BY <2>1, <2>2, <2>3
  <1> QED BY <1>1, UsesInvariance, PTL

\* When no handler died and none is under way, the two counters are exactly the uses and
\* the redeemed uses, and what is reserved belongs to an open ride: reserve, redeem and
\* release leak nothing, in whatever order the booking and the listener ran.
THEOREM CountersAgree == Promos!Spec => []Promos!CountersSettle
  <1>1. UsesInv => Promos!CountersSettle
    <2> SUFFICES ASSUME UsesInv, promoFailures = 0,
                        \A r \in PromoRides : /\ booking[r] \in {"new", "evaluated", "ended"}
                                              /\ listener[r] \in {"waiting", "ended"}
                 PROVE  /\ usedCount = Cardinality(Promos!Uses)
                        /\ redeemedCount = Cardinality(Redeemed)
                        /\ \A r \in PromoRides : redemption[r] = "RESERVED" => ride[r] = "open"
      BY UsesAreNumbered DEF Promos!CountersSettle, Redeemed
    <2>1. Claims = {} /\ Returns = {} /\ Counting = {}
      BY DEF Claims, Returns, Counting
    <2>2. Cardinality(Claims) = 0 /\ Cardinality(Returns) = 0 /\ Cardinality(Counting) = 0
      BY <2>1, FS_EmptySet
    <2>3. Cardinality(Promos!Counted) \in Nat /\ Cardinality(Redeemed) \in Nat
      BY UsesHaveBegun, FS_CardinalityType DEF UsesInv
    <2>4. usedCount = Cardinality(Promos!Uses)
      <3>1. Promos!Counted = Promos!Uses
        BY DEF UsesInv, NothingLeaks, Promos!Counted, Promos!Uses
      <3> QED BY <2>2, <2>3, <3>1 DEF UsesInv, PromoTypes, CountCovers
    <2>5. redeemedCount = Cardinality(Redeemed)
      BY <2>2, <2>3 DEF UsesInv, PromoTypes, RedeemedAreCounted
    <2>6. ASSUME NEW r \in PromoRides, redemption[r] = "RESERVED"
          PROVE  ride[r] = "open"
      BY <2>6 DEF UsesInv, PromoTypes, HandlersAgree, NothingLeaks
    <2> QED BY <2>4, <2>5, <2>6
  <1> QED BY <1>1, UsesInvariance, PTL

\* Of all handlers only an admin's write of a limit checked earlier takes the count past the
\* limit: the conditional increment of reserve() never does, however many bookings race.
THEOREM BookingsKeepTheLimit ==
  Promos!Spec => Promos!OnlyAdminExceedsLimit
  <1>1. UsesInv /\ [Promos!Next]_(Promos!promoVars) => [Promos!OnlyAdminExceedsLimitStep]_(Promos!promoVars)
    <2> SUFFICES ASSUME UsesInv, Promos!Next PROVE Promos!OnlyAdminExceedsLimitStep
      OBVIOUS
    <2> USE PromoBounds DEF UsesInv, PromoTypes, Promos!OnlyAdminExceedsLimitStep
    <2>1. CASE Promos!SetStatus \/ Promos!CheckLimit \/ Promos!WriteLimit
      BY <2>1 DEF Promos!SetStatus, Promos!CheckLimit, Promos!WriteLimit, Promos!code, Promos!uses
    <2>2. ASSUME NEW r \in PromoRides, RideMoves(r)
          PROVE  Promos!OnlyAdminExceedsLimitStep
      <3>1. CASE Promos!Claim(r)
        BY <3>1 DEF Promos!Claim, Promos!Claimable
      <3>2. CASE Promos!GiveBack(r)
        BY <3>2 DEF Promos!GiveBack, Promos!Dec
      <3>3. CASE ~Promos!Claim(r) /\ ~Promos!GiveBack(r)
        BY <2>2, <3>3 DEF RideMoves, Promos!Evaluate, Promos!CreateRedemption, Promos!CreateFails,
                          Promos!InsertRide, Promos!RideEnds,
                          Promos!Redeem, Promos!CountRedeemed, Promos!Release, Promos!Crash, Promos!code, Promos!uses
      <3> QED BY <3>1, <3>2, <3>3
    <2> QED BY <2>1, <2>2 DEF Promos!Next, RideMoves
  <1> QED BY <1>1, UsesInvariance, PTL DEF Promos!Spec, Promos!OnlyAdminExceedsLimit

-----------------------------------------------------------------------------
(* The codes of a trip: guesses that race, codes that are replaced while they are typed, and
   requests that are withdrawn and made again. *)

Codes == INSTANCE TripCodes WITH
  Attempts <- CodeAttempts, OtpMaxAttempts <- CodeMaxGuesses, EndOtpEnforced <- TRUE,
    MaxCodes <- CodeMaxCodes, MaxRequests <- CodeMaxRequests, MaxCodeFailures <- CodeMaxFailures

\* RIDE_END_OTP_ENFORCED is off.
NoCodes == INSTANCE TripCodes WITH
  Attempts <- CodeAttempts, OtpMaxAttempts <- NoCodeMaxGuesses, EndOtpEnforced <- FALSE,
    MaxCodes <- NoCodeMaxCodes, MaxRequests <- NoCodeMaxRequests,
    MaxCodeFailures <- NoCodeMaxFailures

\* Finitely many handlers are in flight, a code may be guessed once at least, and one was minted.
CodesAreLimited ==
  /\ IsFiniteSet(CodeAttempts) /\ CodeMaxGuesses \in Nat \ {0}
  /\ CodeMaxCodes \in Nat \ {0} /\ CodeMaxRequests \in Nat /\ CodeMaxFailures \in Nat


ASSUME CodesBounded == CodesAreLimited

LEMMA HandlersAreCounted == ASSUME NEW S PROVE Codes!Cardinality(S) = Cardinality(S)
  BY DEF Codes!Cardinality, Cardinality

-----------------------------------------------------------------------------
\* A code and a handler's reading are no newer than the last of their kind.
CodeTypes ==
  /\ Codes!TypeOK
  /\ \A p \in CodeAttempts : attempt[p].code \in 0..minted /\ attempt[p].asked \in 0..requests

\* What a handler goes on with.
LEMMA CodeReadings ==
  ASSUME CodesAreLimited, CodeTypes, trip \in {"DRIVER_ARRIVED", "RIDE_STARTED"},
         NEW pc \in {"rotate", "open", "count", "ask", "withdraw", "finish"},
         NEW mode \in Codes!RideCompletionMode \cup {"NONE"}
  PROVE  /\ Codes!Reads(pc, mode) \in Codes!Handler
         /\ Codes!Reads(pc, mode).code \in 0..minted /\ Codes!Reads(pc, mode).asked \in 0..requests
  BY DEF CodesAreLimited, CodeTypes, Codes!TypeOK, Codes!Reads, Codes!Handler, Codes!NoCode,
         Codes!NotAsked

LEMMA CodeIdle ==
  CodesAreLimited => Codes!Idle \in Codes!Handler /\ Codes!Idle.code = 0 /\ Codes!Idle.asked = 0 /\
  Codes!Idle.pc = "idle"
  BY DEF CodesAreLimited, Codes!Idle, Codes!Handler, Codes!RideCompletionMode, Codes!NoCode,
         Codes!NotAsked

LEMMA CodeTypesBegin == CodesAreLimited /\ Codes!Init => CodeTypes
  <1> SUFFICES ASSUME CodesAreLimited, Codes!Init PROVE CodeTypes
    OBVIOUS
  <1>1. attempt \in [CodeAttempts -> Codes!Handler] /\ \A p \in CodeAttempts : attempt[p] = Codes!Idle
    BY CodeIdle DEF Codes!Init
  <1>2. completion \in [mode : Codes!RideCompletionMode \cup {"NONE"}, at : 0..CodeMaxRequests]
    <2>1. Codes!NotAsked \in 0..CodeMaxRequests
      BY DEF CodesAreLimited, Codes!NotAsked
    <2>2. completion = [mode |-> "NONE", at |-> Codes!NotAsked]
      BY DEF Codes!Init, Codes!Open
    <2> QED BY <2>1, <2>2
  <1>3. /\ 1 \in 1..CodeMaxCodes /\ 0 \in 0..CodeMaxRequests /\ 0 \in 0..CodeMaxCodes /\
           0 \in 0..CodeMaxFailures
        /\ 1 \in 0..1 /\ 0 \in 0..1 /\ 0 \in 0..0
    BY DEF CodesAreLimited
  <1>4. \A p \in CodeAttempts : attempt[p].code \in 0..minted /\ attempt[p].asked \in 0..requests
    BY <1>1, <1>3, CodeIdle DEF Codes!Init
  <1> QED BY <1>1, <1>2, <1>3, <1>4 DEF Codes!Init, CodeTypes, Codes!TypeOK, Codes!NotAsked,
                                        Codes!NoCode

\* A handler takes its step and everybody else stays.
LEMMA CodeHandlerGoes ==
  ASSUME CodesAreLimited, CodeTypes, NEW p \in CodeAttempts, NEW a \in Codes!Handler, Codes!Goes(p, a),
         a.code \in 0..minted, a.asked \in 0..requests,
         minted' \in {minted, minted + 1}, requests' \in {requests, requests + 1}
  PROVE  /\ attempt' \in [CodeAttempts -> Codes!Handler]
         /\ attempt'[p] = a /\ \A q \in CodeAttempts : q # p => attempt'[q] = attempt[q]
         /\ \A q \in CodeAttempts : attempt'[q].code \in 0..minted' /\ attempt'[q].asked \in 0..requests'
  <1>1. /\ attempt' \in [CodeAttempts -> Codes!Handler]
        /\ attempt'[p] = a /\ \A q \in CodeAttempts : q # p => attempt'[q] = attempt[q]
    BY DEF Codes!Goes, CodeTypes, Codes!TypeOK
  <1>2. minted \in Nat /\ requests \in Nat
    BY DEF CodeTypes, Codes!TypeOK, CodesAreLimited
  <1>3. 0..minted \subseteq 0..minted' /\ 0..requests \subseteq 0..requests'
    BY <1>2
  <1>4. \A q \in CodeAttempts : attempt'[q].code \in 0..minted /\ attempt'[q].asked \in 0..requests
    BY <1>1 DEF CodeTypes
  <1> QED BY <1>1, <1>3, <1>4

\* What is left to show of a step that begins or ends a handler.
LEMMA CodeHandlerGoesOn ==
  ASSUME CodesAreLimited, CodeTypes, NEW p \in CodeAttempts,
         NEW a \in Codes!Handler, a.code \in 0..minted, a.asked \in 0..requests, Codes!Goes(p, a),
         UNCHANGED <<Codes!ride, waited, sosOpen, minted, requests, verified>>,
         tries' \in Nat, codeFailures' \in 0..CodeMaxFailures
  PROVE  CodeTypes'
  BY CodeHandlerGoes DEF CodeTypes, Codes!TypeOK, Codes!ride

LEMMA CodeTypesStep == ASSUME CodesAreLimited, CodeTypes, [Codes!Next]_(Codes!tripVars) PROVE CodeTypes'
  <1> USE CodesAreLimited
  <1>0. /\ minted \in Nat /\ requests \in Nat /\ tries \in Nat /\ otpAttempts \in Nat
        /\ 0..minted \subseteq 0..(minted + 1) /\ 0..requests \subseteq 0..(requests + 1)
        /\ 0 \in 0..minted /\ 0 \in 0..requests
    BY DEF CodesAreLimited, CodeTypes, Codes!TypeOK
  <1>t. /\ trip \in {"DRIVER_ARRIVED", "RIDE_STARTED", "COMPLETED", "CANCELLED"}
        /\ otp \in 0..minted /\ otpLapsed \in BOOLEAN /\ asked \in 0..requests /\
           verified \in 0..CodeMaxCodes
        /\ minted \in 1..CodeMaxCodes /\ requests \in 0..CodeMaxRequests
    BY DEF CodeTypes, Codes!TypeOK
  <1>m. minted < CodeMaxCodes => minted + 1 \in 1..CodeMaxCodes /\ minted + 1 \in 0..(minted + 1)
    BY <1>0, <1>t DEF CodesAreLimited
  <1>r. requests < CodeMaxRequests => requests + 1 \in 0..CodeMaxRequests /\
        requests + 1 \in 0..(requests + 1)
    BY <1>0, <1>t DEF CodesAreLimited
  <1>1. ASSUME NEW p \in CodeAttempts, Codes!Submit(p) PROVE CodeTypes'
    <2>1. trip \in {"DRIVER_ARRIVED", "RIDE_STARTED"} /\ "OTP" \in Codes!RideCompletionMode \cup {"NONE"}
      BY <1>1 DEF Codes!Submit, Codes!RideCompletionMode
    <2>2. PICK pc \in {"rotate", "open", "count"} : Codes!Goes(p, Codes!Reads(pc, "OTP")) /\ tries' \in Nat
      BY <1>0, <1>1 DEF Codes!Submit
    <2> QED BY <2>1, <2>2, <1>1, CodeHandlerGoesOn, CodeReadings DEF Codes!Submit, CodeTypes,
                                                                     Codes!TypeOK
  <1>2. ASSUME NEW p \in CodeAttempts,
               Codes!RequestEnd(p) \/ Codes!CancelEnd(p) \/ Codes!CompleteWithoutCode(p) \/
               Codes!Override(p) \/ Codes!CompleteAsAdmin(p)
        PROVE  CodeTypes'
    <2>1. trip = "RIDE_STARTED" /\
          UNCHANGED <<Codes!ride, waited, sosOpen, minted, requests, tries, verified, codeFailures>>
      BY <1>2 DEF Codes!RequestEnd, Codes!CancelEnd, Codes!CompleteWithoutCode, Codes!Override,
                  Codes!CompleteAsAdmin
    <2>2. PICK pc \in {"ask", "withdraw", "finish"}, mode \in Codes!RideCompletionMode \cup {"NONE"} : Codes!Goes(p, Codes!Reads(pc, mode))
      BY <1>2 DEF Codes!RequestEnd, Codes!CancelEnd, Codes!CompleteWithoutCode, Codes!Override,
                  Codes!CompleteAsAdmin, Codes!RideCompletionMode
    <2>3. tries' \in Nat /\ codeFailures' \in 0..CodeMaxFailures
      BY <1>0, <2>1 DEF CodeTypes, Codes!TypeOK
    <2>4. trip \in {"DRIVER_ARRIVED", "RIDE_STARTED"} /\
          pc \in {"rotate", "open", "count", "ask", "withdraw", "finish"}
      BY <2>1
    <2> QED BY <2>1, <2>2, <2>3, <2>4, CodeHandlerGoesOn, CodeReadings
  <1>3. ASSUME NEW p \in CodeAttempts, Codes!Dies(p) PROVE CodeTypes'
    <2>1. tries' \in Nat /\ codeFailures' \in 0..CodeMaxFailures
      BY <1>0, <1>3 DEF Codes!Dies, CodesAreLimited, CodeTypes, Codes!TypeOK
    <2> QED BY <2>1, <1>3, <1>0, CodeHandlerGoesOn, CodeIdle DEF Codes!Dies
  <1>4. ASSUME NEW p \in CodeAttempts, Codes!Count(p) PROVE CodeTypes'
    <2>1. PICK a \in {[attempt[p] EXCEPT !.pc = "rotate", !.code = Codes!NoCode], Codes!Idle} : Codes!Goes(p, a)
      BY <1>4 DEF Codes!Count
    <2>2. attempt[p] \in Codes!Handler
      BY DEF CodeTypes, Codes!TypeOK
    <2>3. a \in Codes!Handler /\ a.code \in 0..minted /\ a.asked \in 0..requests
      <3>1. [attempt[p] EXCEPT !.pc = "rotate", !.code = Codes!NoCode] \in Codes!Handler
        <4>1. "rotate" \in {"idle", "rotate", "open", "count", "ask", "withdraw", "finish"} /\
              Codes!NoCode \in 0..CodeMaxCodes
          BY DEF CodesAreLimited, Codes!NoCode
        <4> QED BY <2>2, <4>1 DEF Codes!Handler
      <3>2. attempt[p].asked \in 0..requests
        BY DEF CodeTypes
      <3>3. CASE a = Codes!Idle
        BY <3>3, <1>0, CodeIdle
      <3>4. CASE a = [attempt[p] EXCEPT !.pc = "rotate", !.code = Codes!NoCode]
        BY <2>2, <3>1, <3>2, <3>4, <1>0 DEF Codes!Handler, Codes!NoCode
      <3> QED BY <2>1, <3>3, <3>4
    <2>4. otpAttempts' \in Nat
      BY <1>0, <1>4 DEF Codes!Count
    <2> QED BY <2>1, <2>3, <2>4, <1>4, CodeHandlerGoes DEF Codes!Count, CodeTypes, Codes!TypeOK
  <1>5. ASSUME NEW p \in CodeAttempts, Codes!Rotate(p) PROVE CodeTypes'
    <2>1. minted' \in {minted, minted + 1} /\ minted' \in 1..CodeMaxCodes /\ otp' \in 0..minted' /\ otpLapsed' \in BOOLEAN
          /\ otpAttempts' \in Nat /\ tries' \in Nat
      <3>1. CASE Codes!Rotatable(attempt[p])
        <4>1. minted < CodeMaxCodes /\ minted' = minted + 1 /\ otp' = minted + 1 /\ otpLapsed' = FALSE
              /\ otpAttempts' = 0 /\ tries' = 0
          BY <1>5, <3>1 DEF Codes!Rotate, Codes!NewCode
        <4> QED BY <1>0, <1>m, <4>1
      <3>2. CASE ~Codes!Rotatable(attempt[p])
        BY <1>0, <1>5, <3>2 DEF Codes!Rotate, CodeTypes, Codes!TypeOK
      <3> QED BY <3>1, <3>2
    <2> QED BY <2>1, <1>5, <1>0, CodeHandlerGoes, CodeIdle DEF Codes!Rotate, CodeTypes, Codes!TypeOK
  <1>6. ASSUME NEW p \in CodeAttempts, Codes!Ask(p) PROVE CodeTypes'
    <2>1. /\ minted' \in {minted, minted + 1} /\ minted' \in 1..CodeMaxCodes /\ otp' \in 0..minted' /\
             otpLapsed' \in BOOLEAN
          /\ otpAttempts' \in Nat /\ tries' \in Nat
          /\ requests' \in {requests, requests + 1} /\ requests' \in 0..CodeMaxRequests /\
             asked' \in 0..requests'
      <3>0. attempt[p].asked \in 0..requests
        BY DEF CodeTypes
      <3>1. CASE Codes!AskAdmitted(attempt[p])
        <4>1. minted < CodeMaxCodes /\ minted' = minted + 1 /\ otp' = minted + 1 /\ otpLapsed' = FALSE
              /\ otpAttempts' = 0 /\ tries' = 0
          BY <1>6, <3>1 DEF Codes!Ask, Codes!NewCode
        <4>2. \/ asked' = attempt[p].asked /\ requests' = requests
              \/ requests < CodeMaxRequests /\ requests' = requests + 1 /\ asked' = requests + 1
          BY <1>6, <3>1 DEF Codes!Ask
        <4>3. requests' \in {requests, requests + 1} /\ requests' \in 0..CodeMaxRequests /\
              asked' \in 0..requests'
          BY <1>0, <1>t, <1>r, <3>0, <4>2
        <4> QED BY <1>0, <1>m, <4>1, <4>3
      <3>2. CASE ~Codes!AskAdmitted(attempt[p])
        BY <1>0, <1>6, <3>2 DEF Codes!Ask, CodeTypes, Codes!TypeOK
      <3> QED BY <3>1, <3>2
    <2>2. waited \subseteq 1..requests'
      BY <1>0, <2>1 DEF CodeTypes, Codes!TypeOK
    <2> QED BY <2>1, <2>2, <1>6, <1>0, CodeHandlerGoes, CodeIdle DEF Codes!Ask, CodeTypes, Codes!TypeOK
  <1>7. ASSUME NEW p \in CodeAttempts, Codes!Start(p) \/ Codes!Withdraw(p) PROVE CodeTypes'
    <2>1. /\ trip' \in {"DRIVER_ARRIVED", "RIDE_STARTED", "COMPLETED", "CANCELLED"}
          /\ otp' \in 0..minted /\ otpLapsed' \in BOOLEAN /\ otpAttempts' \in Nat /\ asked' \in 0..requests
          /\ verified' \in 0..CodeMaxCodes
      <3>1. attempt[p].code \in 0..CodeMaxCodes
        BY DEF CodesAreLimited, CodeTypes, Codes!TypeOK, Codes!Handler
      <3>2. CASE Codes!Start(p)
        BY <1>0, <1>t, <3>1, <3>2 DEF Codes!Start, Codes!NoCode
      <3>3. CASE Codes!Withdraw(p)
        <4>1. \/ asked' = asked /\ otp' = otp /\ otpLapsed' = otpLapsed /\ otpAttempts' = otpAttempts
              \/ asked' = 0 /\ otp' = 0 /\ otpLapsed' = FALSE /\ otpAttempts' = 0
          BY <3>3 DEF Codes!Withdraw, Codes!NoCode, Codes!NotAsked
        <4>2. trip' = trip /\ verified' = verified
          BY <3>3 DEF Codes!Withdraw
        <4>3. otpAttempts' \in Nat
          BY <1>0, <4>1
        <4>4. otp' \in 0..minted /\ otpLapsed' \in BOOLEAN /\ asked' \in 0..requests
          BY <1>0, <1>t, <4>1
        <4> QED BY <1>t, <4>2, <4>3, <4>4
      <3> QED BY <1>7, <3>2, <3>3
    <2>2. Codes!Goes(p, Codes!Idle) /\
          UNCHANGED <<completion, waited, sosOpen, minted, requests, tries, codeFailures>>
      BY <1>7 DEF Codes!Start, Codes!Withdraw
    <2> QED BY <2>1, <2>2, <1>0, CodeHandlerGoes, CodeIdle DEF CodeTypes, Codes!TypeOK
  <1>8. ASSUME NEW p \in CodeAttempts, Codes!Finish(p) PROVE CodeTypes'
    <2>1. /\ trip' \in {"DRIVER_ARRIVED", "RIDE_STARTED", "COMPLETED", "CANCELLED"}
          /\ otp' \in 0..minted /\ otpLapsed' \in BOOLEAN /\ verified' \in 0..CodeMaxCodes
          /\ completion' \in [mode : Codes!RideCompletionMode \cup {"NONE"}, at : 0..CodeMaxRequests]
      <3>1. attempt[p] \in Codes!Handler
        BY DEF CodeTypes, Codes!TypeOK
      <3>2. CASE Codes!Finishes(attempt[p])
        <4>1. attempt[p].mode \in Codes!RideCompletionMode \cup {"NONE"} /\ attempt[p].asked \in 0..CodeMaxRequests
              /\ attempt[p].code \in 0..CodeMaxCodes
          BY <3>1 DEF Codes!Handler
        <4>2. trip' = "COMPLETED" /\ otp' = 0 /\ otpLapsed' = FALSE
              /\ completion' = [mode |-> attempt[p].mode, at |-> attempt[p].asked]
              /\ verified' \in {attempt[p].code, verified}
          BY <1>8, <3>2 DEF Codes!Finish, Codes!NoCode
        <4> QED BY <1>0, <1>t, <4>1, <4>2
      <3>3. CASE ~Codes!Finishes(attempt[p])
        BY <1>8, <3>3 DEF Codes!Finish, CodeTypes, Codes!TypeOK
      <3> QED BY <3>2, <3>3
    <2> QED BY <2>1, <1>8, <1>0, CodeHandlerGoes, CodeIdle DEF Codes!Finish, CodeTypes, Codes!TypeOK
  <1>9. CASE Codes!CodeLapses \/ Codes!WaitElapses \/ Codes!SosToggles \/ Codes!Cancel
    <2>1. UNCHANGED <<otp, otpAttempts, asked, completion, minted, requests, tries, verified, attempt, codeFailures>>
      BY <1>9 DEF Codes!CodeLapses, Codes!WaitElapses, Codes!SosToggles, Codes!Cancel, Codes!ride
    <2>2. trip' \in {"DRIVER_ARRIVED", "RIDE_STARTED", "COMPLETED", "CANCELLED"} /\ otpLapsed' \in BOOLEAN
          /\ sosOpen' \in BOOLEAN
      BY <1>9, <1>t DEF Codes!CodeLapses, Codes!WaitElapses, Codes!SosToggles, Codes!Cancel,
                        Codes!ride, CodeTypes, Codes!TypeOK
    <2>3. waited' \subseteq 1..requests
      <3>1. waited \subseteq 1..requests /\ (asked # 0 => asked \in 1..requests)
        BY <1>0, <1>t DEF CodeTypes, Codes!TypeOK
      <3> QED BY <1>9, <3>1 DEF Codes!CodeLapses, Codes!WaitElapses, Codes!SosToggles,
                                Codes!Cancel, Codes!ride, Codes!NotAsked
    <2> QED BY <2>1, <2>2, <2>3 DEF CodeTypes, Codes!TypeOK
  <1>10. CASE UNCHANGED Codes!tripVars
    BY <1>10 DEF CodeTypes, Codes!TypeOK, Codes!tripVars, Codes!ride
  <1> QED BY <1>1, <1>2, <1>3, <1>4, <1>5, <1>6, <1>7, <1>8, <1>9, <1>10 DEF Codes!Next

-----------------------------------------------------------------------------
(* What a handler has read and what its write relies on.                   *)

\* The right code is one there was, and goes with the request that stands as long as it is
\* the code; who completes without one has its reason.
ReadingStands(p) ==
  LET a == attempt[p] IN
  /\ a.pc = "open" => a.mode = "OTP" /\ a.code # Codes!NoCode
  /\ a.pc = "open" /\ a.phase = "RIDE_STARTED" /\ a.code = otp => a.asked = asked
  /\ a.pc = "finish" => a.mode # "OTP"
  /\ a.pc = "finish" /\ a.mode = "DRIVER_OVERRIDE" => a.asked \in waited

\* A trip under way has an end code only while somebody asked to end it.
EndCodeIsAskedFor == trip = "RIDE_STARTED" /\ otp # Codes!NoCode => asked # Codes!NotAsked

EndInv ==
  /\ EndCodeIsAskedFor
  /\ completion.mode # "NONE" => trip = "COMPLETED"
  /\ Codes!CodeEndsTheStandingRequest /\ Codes!OverrideHasWaited
  /\ \A p \in CodeAttempts : ReadingStands(p)

\* A reading stands unless the code it holds is gone.
LEMMA ReadingStays ==
  ASSUME CodesAreLimited, CodeTypes, NEW p \in CodeAttempts, ReadingStands(p), attempt'[p] = attempt[p],
         waited \subseteq waited',
         (otp' = otp /\ asked' = asked) \/ otp' = Codes!NoCode \/ otp' = minted + 1
  PROVE  ReadingStands(p)'
  <1>1. attempt[p].code \in 0..minted /\ minted \in Nat
    BY DEF CodesAreLimited, CodeTypes, Codes!TypeOK
  <1>2. otp' = minted + 1 => attempt[p].code # otp'
    BY <1>1
  <1> QED BY <1>2 DEF ReadingStands, Codes!NoCode

LEMMA EndBegins == CodesAreLimited /\ Codes!Init => EndInv
  BY DEF Codes!Init, EndInv, EndCodeIsAskedFor, Codes!CodeEndsTheStandingRequest,
         Codes!OverrideHasWaited,
         ReadingStands, Codes!Idle, Codes!Open

\* Everybody but the one handler that moves.
LEMMA OthersStay ==
  ASSUME CodesAreLimited, CodeTypes, EndInv, NEW p \in CodeAttempts, NEW a, Codes!Goes(p, a), waited' = waited,
         (otp' = otp /\ asked' = asked) \/ otp' = Codes!NoCode \/ otp' = minted + 1
  PROVE  /\ attempt'[p] = a
         /\ \A q \in CodeAttempts : q # p => ReadingStands(q)'
  <1>1. attempt'[p] = a /\ \A q \in CodeAttempts : q # p => attempt'[q] = attempt[q]
    BY DEF Codes!Goes, CodeTypes, Codes!TypeOK
  <1>2. ASSUME NEW q \in CodeAttempts, q # p PROVE ReadingStands(q)'
    BY <1>1, <1>2, ReadingStays DEF EndInv
  <1> QED BY <1>1, <1>2

LEMMA EndInvStep == ASSUME CodesAreLimited, CodeTypes, EndInv, [Codes!Next]_(Codes!tripVars) PROVE EndInv'
  <1> USE CodesAreLimited
  <1>1. ASSUME NEW p \in CodeAttempts,
               \/ Codes!Submit(p) \/ Codes!RequestEnd(p) \/ Codes!CancelEnd(p) \/
                  Codes!CompleteWithoutCode(p) \/ Codes!Override(p)
               \/ Codes!CompleteAsAdmin(p) \/ Codes!Dies(p)
        PROVE  EndInv'
    <2>1. UNCHANGED <<Codes!ride, waited>>
      BY <1>1 DEF Codes!Submit, Codes!RequestEnd, Codes!CancelEnd, Codes!CompleteWithoutCode,
                  Codes!Override, Codes!CompleteAsAdmin, Codes!Dies
    <2>2. PICK a : Codes!Goes(p, a) /\ a.pc \in {"idle", "rotate", "open", "count", "ask", "withdraw", "finish"}
                   /\ (a.pc = "open" => a.mode = "OTP" /\ a.code = otp /\ otp # Codes!NoCode /\ a.asked = asked)
                   /\ (a.pc = "finish" => a.mode \in {"SOS", "NOT_REQUIRED", "ADMIN", "DRIVER_OVERRIDE"}
                                          /\ (a.mode = "DRIVER_OVERRIDE" => a.asked \in waited))
      <3>1. CASE Codes!Submit(p)
        BY <3>1 DEF Codes!Submit, Codes!Reads
      <3>2. CASE Codes!RequestEnd(p) \/ Codes!CancelEnd(p)
        BY <3>2 DEF Codes!RequestEnd, Codes!CancelEnd, Codes!Reads
      <3>3. CASE Codes!CompleteWithoutCode(p) \/ Codes!CompleteAsAdmin(p)
        BY <3>3 DEF Codes!CompleteWithoutCode, Codes!CompleteAsAdmin, Codes!Reads
      <3>4. CASE Codes!Override(p)
        BY <3>4 DEF Codes!Override, Codes!OverrideDue, Codes!Reads
      <3>5. CASE Codes!Dies(p)
        BY <3>5 DEF Codes!Dies, Codes!Idle
      <3> QED BY <1>1, <3>1, <3>2, <3>3, <3>4, <3>5
    <2>3. attempt'[p] = a /\ \A q \in CodeAttempts : q # p => ReadingStands(q)'
      BY <2>1, <2>2, OthersStay DEF Codes!ride
    <2>4. ReadingStands(p)'
      BY <2>1, <2>2, <2>3 DEF ReadingStands, Codes!ride
    <2> QED BY <2>1, <2>3, <2>4 DEF EndInv, EndCodeIsAskedFor, Codes!CodeEndsTheStandingRequest,
                                    Codes!OverrideHasWaited, Codes!ride
  <1>2. ASSUME NEW p \in CodeAttempts, Codes!Count(p) PROVE EndInv'
    <2>1. PICK a \in {[attempt[p] EXCEPT !.pc = "rotate", !.code = Codes!NoCode], Codes!Idle} : Codes!Goes(p, a)
      BY <1>2 DEF Codes!Count
    <2>2. a.pc \in {"rotate", "idle"}
      <3>1. attempt[p] \in Codes!Handler
        BY DEF CodeTypes, Codes!TypeOK
      <3>2. [attempt[p] EXCEPT !.pc = "rotate", !.code = Codes!NoCode].pc = "rotate"
        BY <3>1 DEF Codes!Handler
      <3>3. Codes!Idle.pc = "idle"
        BY DEF Codes!Idle
      <3>4. a = Codes!Idle \/ a = [attempt[p] EXCEPT !.pc = "rotate", !.code = Codes!NoCode]
        BY <2>1
      <3> QED BY <3>2, <3>3, <3>4
    <2>3. attempt'[p] = a /\ \A q \in CodeAttempts : q # p => ReadingStands(q)'
      BY <1>2, <2>1, OthersStay DEF Codes!Count
    <2>4. ReadingStands(p)'
      BY <2>2, <2>3 DEF ReadingStands
    <2> QED BY <1>2, <2>3, <2>4 DEF Codes!Count, EndInv, EndCodeIsAskedFor,
                                    Codes!CodeEndsTheStandingRequest, Codes!OverrideHasWaited
  <1>3. ASSUME NEW p \in CodeAttempts, Codes!Rotate(p) \/ Codes!Ask(p) \/ Codes!Start(p) \/ Codes!Withdraw(p) \/ Codes!Finish(p)
        PROVE  EndInv'
    <2>1. Codes!Goes(p, Codes!Idle) /\ UNCHANGED waited
      BY <1>3 DEF Codes!Rotate, Codes!Ask, Codes!Start, Codes!Withdraw, Codes!Finish
    <2>2. (otp' = otp /\ asked' = asked) \/ otp' = Codes!NoCode \/ otp' = minted + 1
      BY <1>3 DEF Codes!Rotate, Codes!Ask, Codes!Start, Codes!Withdraw, Codes!Finish, Codes!NewCode
    <2>3. attempt'[p] = Codes!Idle /\ \A q \in CodeAttempts : q # p => ReadingStands(q)'
      BY <2>1, <2>2, OthersStay
    <2>4. \A q \in CodeAttempts : ReadingStands(q)'
      BY <2>3 DEF ReadingStands, Codes!Idle
    <2>5. CASE Codes!Rotate(p)
      <3>1. (otp' = otp \/ (trip = "RIDE_STARTED" => asked # Codes!NotAsked)) /\
            UNCHANGED <<trip, asked, completion>>
        BY <2>5 DEF Codes!Rotate, Codes!Rotatable
      <3> QED BY <2>1, <2>4, <3>1 DEF EndInv, EndCodeIsAskedFor, Codes!CodeEndsTheStandingRequest,
                                      Codes!OverrideHasWaited
    <2>6. CASE Codes!Ask(p)
      <3>1. CASE Codes!AskAdmitted(attempt[p])
        <4>1. requests \in Nat
          BY DEF CodesAreLimited, CodeTypes, Codes!TypeOK
        <4>2. trip = "RIDE_STARTED" /\ trip' = trip /\ completion' = completion
          BY <2>6, <3>1 DEF Codes!Ask, Codes!AskAdmitted
        <4>3. asked' # Codes!NotAsked
          BY <2>6, <3>1, <4>1 DEF Codes!Ask, Codes!NotAsked
        <4> QED BY <2>1, <2>4, <4>2, <4>3
             DEF EndInv, EndCodeIsAskedFor, Codes!CodeEndsTheStandingRequest, Codes!OverrideHasWaited
      <3>2. CASE ~Codes!AskAdmitted(attempt[p])
        BY <2>4, <2>6, <3>2 DEF Codes!Ask, EndInv, EndCodeIsAskedFor,
                                Codes!CodeEndsTheStandingRequest, Codes!OverrideHasWaited
      <3> QED BY <3>1, <3>2
    <2>7. CASE Codes!Start(p)
      <3>1. \/ UNCHANGED <<trip, otp, asked, completion>>
            \/ trip = "DRIVER_ARRIVED" /\ otp' = Codes!NoCode /\ UNCHANGED <<asked, completion>>
        BY <2>7 DEF Codes!Start, Codes!Opens
      <3> QED BY <2>1, <2>4, <3>1 DEF EndInv, EndCodeIsAskedFor, Codes!CodeEndsTheStandingRequest,
                                      Codes!OverrideHasWaited
    <2>8. CASE Codes!Withdraw(p)
      <3>1. \/ UNCHANGED <<trip, otp, asked, completion>>
            \/ trip = "RIDE_STARTED" /\ trip' = trip /\ otp' = Codes!NoCode /\ completion' = completion
        BY <2>8 DEF Codes!Withdraw
      <3> QED BY <2>1, <2>4, <3>1 DEF EndInv, EndCodeIsAskedFor, Codes!CodeEndsTheStandingRequest,
                                      Codes!OverrideHasWaited
    <2>9. CASE Codes!Finish(p)
      <3>1. CASE Codes!Finishes(attempt[p])
        <4>1. /\ trip' = "COMPLETED" /\ asked' = asked
              /\ completion' = [mode |-> attempt[p].mode, at |-> attempt[p].asked]
          BY <2>9, <3>1 DEF Codes!Finish
        <4>2. ReadingStands(p)
          BY DEF EndInv
        <4>3. attempt[p].mode = "OTP" => attempt[p].asked = asked
          BY <2>9, <3>1, <4>2 DEF Codes!Finish, Codes!Finishes, Codes!Does, ReadingStands
        <4>4. attempt[p].mode = "DRIVER_OVERRIDE" => attempt[p].asked \in waited
          BY <2>9, <3>1, <4>2 DEF Codes!Finish, Codes!Finishes, Codes!Does, ReadingStands
        <4> QED BY <2>1, <2>4, <4>1, <4>3, <4>4
             DEF EndInv, EndCodeIsAskedFor, Codes!CodeEndsTheStandingRequest, Codes!OverrideHasWaited
      <3>2. CASE ~Codes!Finishes(attempt[p])
        BY <2>1, <2>4, <2>9, <3>2 DEF Codes!Finish, EndInv, EndCodeIsAskedFor,
                                      Codes!CodeEndsTheStandingRequest, Codes!OverrideHasWaited
      <3> QED BY <3>1, <3>2
    <2> QED BY <1>3, <2>5, <2>6, <2>7, <2>8, <2>9
  <1>4. CASE Codes!CodeLapses \/ Codes!WaitElapses \/ Codes!SosToggles \/ Codes!Cancel \/
             UNCHANGED Codes!tripVars
    <2>1. UNCHANGED <<otp, asked, completion, attempt>> /\ waited \subseteq waited'
      BY <1>4 DEF Codes!CodeLapses, Codes!WaitElapses, Codes!SosToggles, Codes!Cancel,
                  Codes!tripVars, Codes!ride
    <2>2. trip' = trip \/ (trip = "DRIVER_ARRIVED" /\ trip' = "CANCELLED")
      BY <1>4 DEF Codes!CodeLapses, Codes!WaitElapses, Codes!SosToggles, Codes!Cancel,
                  Codes!tripVars, Codes!ride
    <2>3. ASSUME NEW q \in CodeAttempts PROVE ReadingStands(q)'
      BY <2>1, ReadingStays DEF EndInv
    <2> QED BY <2>1, <2>2, <2>3 DEF EndInv, EndCodeIsAskedFor, Codes!CodeEndsTheStandingRequest,
                                    Codes!OverrideHasWaited
  <1> QED BY <1>1, <1>2, <1>3, <1>4 DEF Codes!Next

-----------------------------------------------------------------------------
(* How often a code is guessed: a wrong guess is compared, counted and, at *)
(* the limit, followed by a rotation.                                      *)

\* Handlers that have compared the present code and not counted it, and with them those
\* that are about to replace it.
Comparing == {p \in CodeAttempts : attempt[p].pc = "count" /\ Codes!SameCode(attempt[p])}
Concluding ==
  Comparing \cup {p \in CodeAttempts : attempt[p].pc = "rotate" /\ attempt[p].phase = trip}

\* Every guess at a code that still opens is counted or will be, and while the limit is not
\* reached or a rotation is due there are few of them; a handler that died is excused.
GuessesAreCovered ==
  otp # Codes!NoCode /\ trip \in {"DRIVER_ARRIVED", "RIDE_STARTED"} =>
    /\ tries <= otpAttempts + Cardinality(Comparing) + codeFailures
    /\ tries <= (CodeMaxGuesses - 1) + Cardinality(Concluding) + codeFailures

GuessInv == GuessesAreCovered /\ Codes!GuessesAreLimited

\* Two sets that differ in one handler at most.
LEMMA OneHandlerApart ==
  ASSUME CodesAreLimited, NEW p \in CodeAttempts, NEW S \in SUBSET CodeAttempts, NEW T \in SUBSET CodeAttempts,
         \A q \in CodeAttempts : q # p => (q \in S <=> q \in T)
  PROVE  /\ Cardinality(S) \in Nat /\ Cardinality(T) \in Nat
         /\ (p \in S <=> p \in T) => Cardinality(T) = Cardinality(S)
         /\ p \notin S /\ p \in T => Cardinality(T) = Cardinality(S) + 1
         /\ p \in S /\ p \notin T => Cardinality(T) = Cardinality(S) - 1
  <1>1. IsFiniteSet(S) /\ IsFiniteSet(T)
    BY FS_Subset DEF CodesAreLimited
  <1>2. Cardinality(S) \in Nat /\ Cardinality(T) \in Nat
    BY <1>1, FS_CardinalityType
  <1>3. (p \in S <=> p \in T) => S = T
    OBVIOUS
  <1>4. ASSUME p \notin S, p \in T PROVE Cardinality(T) = Cardinality(S) + 1
    <2>1. T = S \cup {p}
      BY <1>4
    <2> QED BY <1>1, <1>4, <2>1, FS_AddElement
  <1>5. ASSUME p \in S, p \notin T PROVE Cardinality(T) = Cardinality(S) - 1
    <2>1. T = S \ {p}
      BY <1>5
    <2> QED BY <1>1, <1>5, <2>1, FS_RemoveElement
  <1> QED BY <1>2, <1>3, <1>4, <1>5

\* A handler that is outside leaves room for itself.
LEMMA RoomForOne ==
  ASSUME CodesAreLimited, NEW p \in CodeAttempts, NEW S \in SUBSET CodeAttempts, p \notin S
  PROVE  Cardinality(S) <= Cardinality(CodeAttempts) - 1 /\ Cardinality(CodeAttempts) \in Nat
  <1>1. IsFiniteSet(CodeAttempts \ {p}) /\ Cardinality(CodeAttempts \ {p}) = Cardinality(CodeAttempts) - 1
    BY FS_RemoveElement DEF CodesAreLimited
  <1>2. S \subseteq CodeAttempts \ {p} /\ Cardinality(CodeAttempts) \in Nat
    BY FS_CardinalityType DEF CodesAreLimited
  <1> QED BY <1>1, <1>2, FS_Subset

\* What the sets of guesses do when one handler moves and the code stays.
LEMMA GuessesMove ==
  ASSUME CodesAreLimited, CodeTypes, NEW p \in CodeAttempts, NEW a, Codes!Goes(p, a), UNCHANGED <<trip, otp>>
  PROVE  /\ attempt'[p] = a
         /\ \A q \in CodeAttempts : q # p => (q \in Comparing <=> q \in Comparing')
                                       /\ (q \in Concluding <=> q \in Concluding')
         /\ Comparing' \in SUBSET CodeAttempts /\ Concluding' \in SUBSET CodeAttempts
         /\ Comparing \in SUBSET CodeAttempts /\ Concluding \in SUBSET CodeAttempts
  <1>1. attempt'[p] = a /\ \A q \in CodeAttempts : q # p => attempt'[q] = attempt[q]
    BY DEF Codes!Goes, CodeTypes, Codes!TypeOK
  <1>2. \A q \in CodeAttempts : q # p => (Codes!SameCode(attempt[q])' <=> Codes!SameCode(attempt[q]))
    BY <1>1 DEF Codes!SameCode
  <1> QED BY <1>1, <1>2 DEF Comparing, Concluding

\* The numbers involved are numbers.
LEMMA GuessNumbers ==
  ASSUME CodesAreLimited, CodeTypes
  PROVE  /\ tries \in Nat /\ otpAttempts \in Nat /\ codeFailures \in Nat /\ CodeMaxGuesses \in Nat
         /\ CodeMaxGuesses >= 1 /\ Cardinality(CodeAttempts) \in Nat
         /\ Cardinality(Comparing) \in Nat /\ Cardinality(Concluding) \in Nat
  <1>1. Cardinality(CodeAttempts) \in Nat
    BY FS_CardinalityType DEF CodesAreLimited
  <1>2. IsFiniteSet(Comparing) /\ IsFiniteSet(Concluding)
    BY FS_Subset DEF CodesAreLimited, Comparing, Concluding
  <1>3. Cardinality(Comparing) \in Nat /\ Cardinality(Concluding) \in Nat
    BY <1>2, FS_CardinalityType
  <1> QED BY <1>1, <1>3 DEF CodesAreLimited, CodeTypes, Codes!TypeOK

LEMMA GuessesBegin == CodesAreLimited /\ Codes!Init => GuessInv
  <1> SUFFICES ASSUME CodesAreLimited, Codes!Init PROVE GuessInv
    OBVIOUS
  <1>1. CodeTypes
    BY CodeTypesBegin
  <1>2. Cardinality(CodeAttempts) >= 0 /\ tries = 0 /\ otpAttempts = 0 /\ codeFailures = 0
    BY <1>1, GuessNumbers DEF Codes!Init
  <1> QED BY <1>1, <1>2, GuessNumbers, HandlersAreCounted DEF GuessInv, GuessesAreCovered,
                                                              Codes!GuessesAreLimited

\* A handler that is not in the middle of a guess leaves the others their room.
LEMMA OutsidersKeep ==
  ASSUME CodesAreLimited, CodeTypes, GuessInv, NEW p \in CodeAttempts, NEW a, Codes!Goes(p, a),
         UNCHANGED <<trip, otp, otpAttempts, tries, codeFailures>>,
         p \notin Concluding, p \notin Comparing'
  PROVE  GuessInv'
  <1>1. p \notin Comparing /\ Comparing' \in SUBSET CodeAttempts /\ Concluding' \in SUBSET CodeAttempts
    BY GuessesMove DEF Concluding
  <1>2. Cardinality(Comparing') = Cardinality(Comparing)
    BY <1>1, GuessesMove, OneHandlerApart
  <1>3. Cardinality(Concluding') >= Cardinality(Concluding) /\ Cardinality(Concluding') \in Nat
    BY <1>1, GuessesMove, GuessNumbers, OneHandlerApart
  <1> QED BY <1>2, <1>3, GuessNumbers, HandlersAreCounted DEF GuessInv, GuessesAreCovered,
                                                              Codes!GuessesAreLimited

\* A new code starts without guesses.
LEMMA NewCodeStartsAnew ==
  ASSUME CodesAreLimited, CodeTypes, CodeTypes', tries' = 0, NEW p \in CodeAttempts
  PROVE  GuessInv'
  <1>1. /\ tries' \in Nat /\ otpAttempts' \in Nat /\ codeFailures' \in Nat /\ CodeMaxGuesses \in Nat
        /\ CodeMaxGuesses >= 1
    BY DEF CodesAreLimited, CodeTypes, Codes!TypeOK
  <1>2. IsFiniteSet(Comparing') /\ IsFiniteSet(Concluding')
    BY FS_Subset DEF CodesAreLimited, Comparing, Concluding
  <1>3. Cardinality(Comparing') \in Nat /\ Cardinality(Concluding') \in Nat
    BY <1>2, FS_CardinalityType
  <1>4. Cardinality(CodeAttempts) \in Nat
    BY FS_CardinalityType DEF CodesAreLimited
  <1> QED BY <1>1, <1>3, <1>4, HandlersAreCounted DEF GuessInv, GuessesAreCovered,
                                                      Codes!GuessesAreLimited

\* A guess is admitted while the count is below the limit or a rotation is on its way.
LEMMA SubmitGuesses == ASSUME CodesAreLimited, CodeTypes, GuessInv, NEW p \in CodeAttempts, Codes!Submit(p)
                       PROVE  GuessInv'
  <1>1. UNCHANGED <<trip, otp, otpAttempts, codeFailures>> /\ attempt[p].pc = "idle"
        /\ trip \in {"DRIVER_ARRIVED", "RIDE_STARTED"}
    BY DEF Codes!Submit, Codes!ride, Codes!Does
  <1>2. p \notin Comparing /\ p \notin Concluding
    BY <1>1 DEF Comparing, Concluding
  <1>3. CASE Codes!Goes(p, Codes!Reads("rotate", "OTP")) /\ UNCHANGED tries
    <2>1. attempt'[p].pc = "rotate"
      BY <1>1, <1>3, GuessesMove DEF Codes!Reads
    <2>2. p \notin Comparing'
      BY <2>1 DEF Comparing
    <2> QED BY <1>1, <1>2, <1>3, <2>2, OutsidersKeep
  <1>4. CASE Codes!Goes(p, Codes!Reads("open", "OTP")) /\ UNCHANGED tries
    <2>1. attempt'[p].pc = "open"
      BY <1>1, <1>4, GuessesMove DEF Codes!Reads
    <2>2. p \notin Comparing'
      BY <2>1 DEF Comparing
    <2> QED BY <1>1, <1>2, <1>4, <2>2, OutsidersKeep
  <1>5. CASE Codes!Goes(p, Codes!Reads("count", "OTP")) /\ tries' = tries + 1 /\ otp # Codes!NoCode
    <2>1. attempt'[p] = Codes!Reads("count", "OTP")
      BY <1>1, <1>5, GuessesMove
    <2>2. p \in Comparing'
      BY <1>1, <2>1 DEF Comparing, Codes!SameCode, Codes!Reads
    <2>3. p \in Concluding' /\ Comparing' \in SUBSET CodeAttempts /\ Concluding' \in SUBSET CodeAttempts
      BY <2>2 DEF Concluding, Comparing
    <2>4. /\ Cardinality(Comparing') = Cardinality(Comparing) + 1
          /\ Cardinality(Concluding') = Cardinality(Concluding) + 1
      BY <1>1, <1>2, <1>5, <2>2, <2>3, GuessesMove, OneHandlerApart
    <2>5. Cardinality(Concluding) <= Cardinality(CodeAttempts) - 1
      BY <1>2, RoomForOne DEF Concluding, Comparing
    <2>6. /\ tries <= otpAttempts + Cardinality(Comparing) + codeFailures
          /\ tries <= (CodeMaxGuesses - 1) + Cardinality(Concluding) + codeFailures
      BY <1>1, <1>5 DEF GuessInv, GuessesAreCovered
    <2> QED BY <1>1, <1>5, <2>4, <2>5, <2>6, GuessNumbers, HandlersAreCounted DEF GuessInv,
                                                                                  GuessesAreCovered, Codes!GuessesAreLimited
  <1> QED BY <1>3, <1>4, <1>5 DEF Codes!Submit

\* Counting one lets go of a guess, or turns it into a rotation.
LEMMA CountGuesses == ASSUME CodesAreLimited, CodeTypes, GuessInv, NEW p \in CodeAttempts, Codes!Count(p)
                      PROVE  GuessInv'
  <1> DEFINE rotates == [attempt[p] EXCEPT !.pc = "rotate", !.code = Codes!NoCode]
  <1>1. UNCHANGED <<trip, otp, tries, codeFailures>> /\ attempt[p].pc = "count"
    BY DEF Codes!Count, Codes!Does
  <1>2. attempt[p] \in Codes!Handler
    BY DEF CodeTypes, Codes!TypeOK
  <1>3. rotates.pc = "rotate" /\ rotates.phase = attempt[p].phase /\ Codes!Idle.pc = "idle"
    BY <1>2 DEF Codes!Handler, Codes!Idle
  <1> HIDE DEF rotates
  <1>4. CASE Codes!SameCode(attempt[p])
    <2>1. otpAttempts' = otpAttempts + 1
      BY <1>4 DEF Codes!Count
    <2>2. p \in Comparing /\ p \in Concluding /\ attempt[p].phase = trip
      BY <1>1, <1>4 DEF Comparing, Concluding, Codes!SameCode
    <2>3. CASE otpAttempts + 1 >= CodeMaxGuesses
      <3>1. Codes!Goes(p, rotates)
        BY <1>4, <2>3 DEF Codes!Count, rotates
      <3>2. attempt'[p] = rotates
        BY <1>1, <3>1, GuessesMove
      <3>3. p \notin Comparing' /\ p \in Concluding'
        BY <1>1, <1>3, <2>2, <3>2 DEF Comparing, Concluding
      <3>4. /\ Cardinality(Comparing') = Cardinality(Comparing) - 1
            /\ Cardinality(Concluding') = Cardinality(Concluding)
        BY <1>1, <2>2, <3>1, <3>3, GuessesMove, OneHandlerApart
      <3> QED BY <1>1, <2>1, <3>4, GuessNumbers, HandlersAreCounted DEF GuessInv,
                                                                        GuessesAreCovered,
                                                                        Codes!GuessesAreLimited
    <2>4. CASE ~(otpAttempts + 1 >= CodeMaxGuesses)
      <3>1. Codes!Goes(p, Codes!Idle)
        BY <1>4, <2>4 DEF Codes!Count
      <3>2. attempt'[p] = Codes!Idle
        BY <1>1, <3>1, GuessesMove
      <3>3. p \notin Comparing' /\ p \notin Concluding'
        BY <1>3, <3>2 DEF Comparing, Concluding
      <3>4. Cardinality(Comparing') = Cardinality(Comparing) - 1
        BY <1>1, <2>2, <3>1, <3>3, GuessesMove, OneHandlerApart
      <3>5. IsFiniteSet(Concluding') /\ Comparing' \subseteq Concluding'
        BY FS_Subset DEF CodesAreLimited, Comparing, Concluding
      <3>6. Cardinality(Comparing') <= Cardinality(Concluding') /\ Cardinality(Concluding') \in Nat
        BY <3>5, FS_Subset, FS_CardinalityType
      <3> QED BY <1>1, <2>1, <2>4, <3>4, <3>6, GuessNumbers, HandlersAreCounted DEF GuessInv,
                                                                                    GuessesAreCovered, Codes!GuessesAreLimited
    <2> QED BY <2>3, <2>4
  <1>5. CASE ~Codes!SameCode(attempt[p])
    <2>1. otpAttempts' = otpAttempts /\ Codes!Goes(p, rotates)
      BY <1>5, GuessNumbers DEF Codes!Count, rotates
    <2>2. attempt'[p] = rotates
      BY <1>1, <2>1, GuessesMove
    <2>3. p \notin Concluding /\ p \notin Comparing'
      BY <1>1, <1>3, <1>5, <2>2 DEF Comparing, Concluding
    <2> QED BY <1>1, <2>1, <2>3, OutsidersKeep
  <1> QED BY <1>4, <1>5

\* Who dies takes one guess along at most.
LEMMA DeathIsExcused == ASSUME CodesAreLimited, CodeTypes, GuessInv, NEW p \in CodeAttempts, Codes!Dies(p)
                        PROVE  GuessInv'
  <1>1. UNCHANGED <<trip, otp, otpAttempts, tries>> /\ codeFailures' = codeFailures + 1 /\
        Codes!Goes(p, Codes!Idle)
    BY DEF Codes!Dies, Codes!ride
  <1>2. Comparing' \in SUBSET CodeAttempts /\ Concluding' \in SUBSET CodeAttempts
    BY <1>1, GuessesMove
  <1>3. /\ Cardinality(Comparing') \in Nat /\ Cardinality(Comparing') >= Cardinality(Comparing) - 1
        /\ Cardinality(Concluding') \in Nat /\ Cardinality(Concluding') >= Cardinality(Concluding) - 1
    BY <1>1, <1>2, GuessesMove, GuessNumbers, OneHandlerApart
  <1> QED BY <1>1, <1>3, GuessNumbers, HandlersAreCounted DEF GuessInv, GuessesAreCovered,
                                                              Codes!GuessesAreLimited

LEMMA GuessInvStep ==
  ASSUME CodesAreLimited, CodeTypes, CodeTypes', EndInv, GuessInv,
  [Codes!Next]_(Codes!tripVars) PROVE GuessInv'
  <1> USE CodesAreLimited
  <1>1. ASSUME NEW p \in CodeAttempts,
               Codes!RequestEnd(p) \/ Codes!CancelEnd(p) \/ Codes!CompleteWithoutCode(p) \/
               Codes!Override(p) \/ Codes!CompleteAsAdmin(p)
        PROVE  GuessInv'
    <2>1. UNCHANGED <<trip, otp, otpAttempts, tries, codeFailures>> /\ attempt[p].pc = "idle"
      BY <1>1 DEF Codes!RequestEnd, Codes!CancelEnd, Codes!CompleteWithoutCode, Codes!Override,
                  Codes!CompleteAsAdmin, Codes!ride, Codes!Does
    <2>2. PICK a : Codes!Goes(p, a) /\ a.pc \in {"ask", "withdraw", "finish"}
      BY <1>1 DEF Codes!RequestEnd, Codes!CancelEnd, Codes!CompleteWithoutCode, Codes!Override,
                  Codes!CompleteAsAdmin, Codes!Reads
    <2>3. attempt'[p] = a
      BY <2>1, <2>2, GuessesMove
    <2>4. p \notin Concluding /\ p \notin Comparing'
      BY <2>1, <2>2, <2>3 DEF Comparing, Concluding
    <2> QED BY <2>1, <2>2, <2>4, OutsidersKeep
  <1>2. ASSUME NEW p \in CodeAttempts, Codes!Rotate(p) PROVE GuessInv'
    <2>1. CASE Codes!Rotatable(attempt[p])
      BY <1>2, <2>1, NewCodeStartsAnew DEF Codes!Rotate, Codes!NewCode
    <2>2. CASE ~Codes!Rotatable(attempt[p])
      <3>1. UNCHANGED <<trip, otp, otpAttempts, tries, codeFailures, asked>> /\
            Codes!Goes(p, Codes!Idle) /\ attempt[p].pc = "rotate"
        BY <1>2, <2>2 DEF Codes!Rotate, Codes!Does
      <3>2. attempt'[p] = Codes!Idle
        BY <3>1, GuessesMove
      <3>3. CASE attempt[p].phase = trip
        <4>1. otp = Codes!NoCode
          BY <2>2, <3>3 DEF Codes!Rotatable, EndInv, EndCodeIsAskedFor
        <4> QED BY <3>1, <4>1, HandlersAreCounted DEF GuessInv, GuessesAreCovered,
                                                      Codes!GuessesAreLimited
      <3>4. CASE attempt[p].phase # trip
        <4>1. p \notin Concluding /\ p \notin Comparing'
          BY <3>1, <3>2, <3>4 DEF Comparing, Concluding, Codes!Idle
        <4> QED BY <3>1, <4>1, OutsidersKeep
      <3> QED BY <3>3, <3>4
    <2> QED BY <2>1, <2>2
  <1>3. ASSUME NEW p \in CodeAttempts, Codes!Ask(p), Codes!AskAdmitted(attempt[p]) PROVE GuessInv'
    BY <1>3, NewCodeStartsAnew DEF Codes!Ask, Codes!NewCode
  <1>4. ASSUME NEW p \in CodeAttempts, (Codes!Ask(p) /\ ~Codes!AskAdmitted(attempt[p])) \/
               Codes!Start(p) \/ Codes!Withdraw(p) \/ Codes!Finish(p)
        PROVE  GuessInv'
    <2>1. UNCHANGED <<tries, codeFailures>> /\ Codes!Goes(p, Codes!Idle) /\
          attempt[p].pc \in {"ask", "open", "withdraw", "finish"}
      BY <1>4 DEF Codes!Ask, Codes!Start, Codes!Withdraw, Codes!Finish, Codes!Does
    <2>2. otp' = Codes!NoCode \/ UNCHANGED <<trip, otp, otpAttempts>>
      BY <1>4 DEF Codes!Ask, Codes!Start, Codes!Withdraw, Codes!Finish
    <2>3. CASE otp' = Codes!NoCode
      BY <2>1, <2>3, HandlersAreCounted DEF GuessInv, GuessesAreCovered, Codes!GuessesAreLimited
    <2>4. CASE UNCHANGED <<trip, otp, otpAttempts>>
      <3>1. attempt'[p] = Codes!Idle
        BY <2>1, <2>4, GuessesMove
      <3>2. p \notin Concluding /\ p \notin Comparing'
        BY <2>1, <3>1 DEF Comparing, Concluding, Codes!Idle
      <3> QED BY <2>1, <2>4, <3>2, OutsidersKeep
    <2> QED BY <2>2, <2>3, <2>4
  <1>5. CASE Codes!CodeLapses \/ Codes!WaitElapses \/ Codes!SosToggles \/ UNCHANGED Codes!tripVars
    <2>1. UNCHANGED <<trip, otp, otpAttempts, tries, codeFailures, attempt>>
      BY <1>5 DEF Codes!CodeLapses, Codes!WaitElapses, Codes!SosToggles, Codes!tripVars, Codes!ride
    <2>2. Comparing' = Comparing /\ Concluding' = Concluding
      BY <2>1 DEF Comparing, Concluding, Codes!SameCode
    <2> QED BY <2>1, <2>2, HandlersAreCounted DEF GuessInv, GuessesAreCovered, Codes!GuessesAreLimited
  <1>6. CASE Codes!Cancel
    BY <1>6, HandlersAreCounted DEF Codes!Cancel, GuessInv, GuessesAreCovered, Codes!GuessesAreLimited
  <1> QED BY <1>1, <1>2, <1>3, <1>4, <1>5, <1>6, SubmitGuesses, CountGuesses, DeathIsExcused DEF Codes!Next

-----------------------------------------------------------------------------
(* What the runs check of the codes, for any number of handlers and codes. *)

CodeInv == CodeTypes /\ EndInv /\ GuessInv

LEMMA CodesBegin == ASSUME CodesAreLimited PROVE Codes!Init => CodeInv
  BY CodeTypesBegin, EndBegins, GuessesBegin DEF CodeInv

LEMMA CodesStep == ASSUME CodesAreLimited, CodeInv, [Codes!Next]_(Codes!tripVars) PROVE CodeInv'
  BY CodeTypesStep, EndInvStep, GuessInvStep DEF CodeInv

\* The present code is the only one that opens, and the request that stands keeps its moment.
LEMMA CodeSteps == CodeInv /\ [Codes!Next]_(Codes!tripVars) => Codes!ReplacedCodeOpensNothingStep /\
      Codes!RequestStandsStep
  <1> SUFFICES ASSUME CodeInv, [Codes!Next]_(Codes!tripVars)
               PROVE  Codes!ReplacedCodeOpensNothingStep /\ Codes!RequestStandsStep
    OBVIOUS
  <1>1. ASSUME NEW p \in CodeAttempts, Codes!Start(p) \/ Codes!Finish(p)
        PROVE  verified' \in {verified, otp} /\ asked' = asked
    <2>1. ReadingStands(p)
      BY DEF CodeInv, EndInv
    <2> QED BY <1>1, <2>1 DEF Codes!Start, Codes!Finish, Codes!Finishes, Codes!Opens
  <1>2. ASSUME NEW p \in CodeAttempts, Codes!Ask(p) \/ Codes!Withdraw(p)
        PROVE  verified' = verified /\ Codes!RequestStandsStep
    BY <1>2 DEF Codes!Ask, Codes!AskAdmitted, Codes!Withdraw, Codes!RequestStandsStep
  <1>3. ASSUME NEW p \in CodeAttempts, Codes!Submit(p) \/ Codes!Count(p) \/ Codes!Rotate(p) \/ Codes!RequestEnd(p) \/ Codes!CancelEnd(p)
               \/ Codes!CompleteWithoutCode(p) \/ Codes!Override(p) \/ Codes!CompleteAsAdmin(p) \/
                  Codes!Dies(p)
        PROVE  verified' = verified /\ asked' = asked
    BY <1>3 DEF Codes!Submit, Codes!Count, Codes!Rotate, Codes!RequestEnd, Codes!CancelEnd,
                Codes!CompleteWithoutCode, Codes!Override, Codes!CompleteAsAdmin,
            Codes!Dies, Codes!ride
  <1>4. CASE Codes!CodeLapses \/ Codes!WaitElapses \/ Codes!SosToggles \/ Codes!Cancel \/
             UNCHANGED Codes!tripVars
    BY <1>4 DEF Codes!CodeLapses, Codes!WaitElapses, Codes!SosToggles, Codes!Cancel,
                Codes!tripVars, Codes!ride,
            Codes!ReplacedCodeOpensNothingStep, Codes!RequestStandsStep
  <1> QED BY <1>1, <1>2, <1>3, <1>4 DEF Codes!Next, Codes!ReplacedCodeOpensNothingStep,
                                        Codes!RequestStandsStep

-----------------------------------------------------------------------------
\* The same limits, and the same types.
NoCodesAreLimited ==
  /\ IsFiniteSet(CodeAttempts) /\ NoCodeMaxGuesses \in Nat \ {0}
  /\ NoCodeMaxCodes \in Nat \ {0} /\ NoCodeMaxRequests \in Nat /\ NoCodeMaxFailures \in Nat

ASSUME NoCodesBounded == NoCodesAreLimited

\* A code and a handler's reading are no newer than the last of their kind.
NoCodeTypes ==
  /\ NoCodes!TypeOK
  /\ \A p \in CodeAttempts : attempt[p].code \in 0..minted /\ attempt[p].asked \in 0..requests

\* What a handler goes on with.
LEMMA NoCodeReadings ==
  ASSUME NoCodesAreLimited, NoCodeTypes, trip \in {"DRIVER_ARRIVED", "RIDE_STARTED"},
         NEW pc \in {"rotate", "open", "count", "ask", "withdraw", "finish"},
         NEW mode \in NoCodes!RideCompletionMode \cup {"NONE"}
  PROVE  /\ NoCodes!Reads(pc, mode) \in NoCodes!Handler
         /\ NoCodes!Reads(pc, mode).code \in 0..minted /\ NoCodes!Reads(pc, mode).asked \in 0..requests
  BY DEF NoCodesAreLimited, NoCodeTypes, NoCodes!TypeOK, NoCodes!Reads, NoCodes!Handler,
         NoCodes!NoCode, NoCodes!NotAsked

LEMMA NoCodeIdle ==
  NoCodesAreLimited => NoCodes!Idle \in NoCodes!Handler /\ NoCodes!Idle.code = 0 /\
  NoCodes!Idle.asked = 0 /\ NoCodes!Idle.pc = "idle"
  BY DEF NoCodesAreLimited, NoCodes!Idle, NoCodes!Handler, NoCodes!RideCompletionMode,
         NoCodes!NoCode, NoCodes!NotAsked

LEMMA NoCodeTypesBegin == NoCodesAreLimited /\ NoCodes!Init => NoCodeTypes
  <1> SUFFICES ASSUME NoCodesAreLimited, NoCodes!Init PROVE NoCodeTypes
    OBVIOUS
  <1>1. attempt \in [CodeAttempts -> NoCodes!Handler] /\ \A p \in CodeAttempts : attempt[p] = NoCodes!Idle
    BY NoCodeIdle DEF NoCodes!Init
  <1>2. completion \in [mode : NoCodes!RideCompletionMode \cup {"NONE"}, at : 0..NoCodeMaxRequests]
    <2>1. NoCodes!NotAsked \in 0..NoCodeMaxRequests
      BY DEF NoCodesAreLimited, NoCodes!NotAsked
    <2>2. completion = [mode |-> "NONE", at |-> NoCodes!NotAsked]
      BY DEF NoCodes!Init, NoCodes!Open
    <2> QED BY <2>1, <2>2
  <1>3. /\ 1 \in 1..NoCodeMaxCodes /\ 0 \in 0..NoCodeMaxRequests /\ 0 \in 0..NoCodeMaxCodes /\
           0 \in 0..NoCodeMaxFailures
        /\ 1 \in 0..1 /\ 0 \in 0..1 /\ 0 \in 0..0
    BY DEF NoCodesAreLimited
  <1>4. \A p \in CodeAttempts : attempt[p].code \in 0..minted /\ attempt[p].asked \in 0..requests
    BY <1>1, <1>3, NoCodeIdle DEF NoCodes!Init
  <1> QED BY <1>1, <1>2, <1>3, <1>4 DEF NoCodes!Init, NoCodeTypes, NoCodes!TypeOK,
                                        NoCodes!NotAsked, NoCodes!NoCode

\* A handler takes its step and everybody else stays.
LEMMA NoCodeHandlerGoes ==
  ASSUME NoCodesAreLimited, NoCodeTypes, NEW p \in CodeAttempts, NEW a \in NoCodes!Handler, NoCodes!Goes(p, a),
         a.code \in 0..minted, a.asked \in 0..requests,
         minted' \in {minted, minted + 1}, requests' \in {requests, requests + 1}
  PROVE  /\ attempt' \in [CodeAttempts -> NoCodes!Handler]
         /\ attempt'[p] = a /\ \A q \in CodeAttempts : q # p => attempt'[q] = attempt[q]
         /\ \A q \in CodeAttempts : attempt'[q].code \in 0..minted' /\ attempt'[q].asked \in 0..requests'
  <1>1. /\ attempt' \in [CodeAttempts -> NoCodes!Handler]
        /\ attempt'[p] = a /\ \A q \in CodeAttempts : q # p => attempt'[q] = attempt[q]
    BY DEF NoCodes!Goes, NoCodeTypes, NoCodes!TypeOK
  <1>2. minted \in Nat /\ requests \in Nat
    BY DEF NoCodeTypes, NoCodes!TypeOK, NoCodesAreLimited
  <1>3. 0..minted \subseteq 0..minted' /\ 0..requests \subseteq 0..requests'
    BY <1>2
  <1>4. \A q \in CodeAttempts : attempt'[q].code \in 0..minted /\ attempt'[q].asked \in 0..requests
    BY <1>1 DEF NoCodeTypes
  <1> QED BY <1>1, <1>3, <1>4

\* What is left to show of a step that begins or ends a handler.
LEMMA NoCodeHandlerGoesOn ==
  ASSUME NoCodesAreLimited, NoCodeTypes, NEW p \in CodeAttempts,
         NEW a \in NoCodes!Handler, a.code \in 0..minted, a.asked \in 0..requests, NoCodes!Goes(p, a),
         UNCHANGED <<NoCodes!ride, waited, sosOpen, minted, requests, verified>>,
         tries' \in Nat, codeFailures' \in 0..NoCodeMaxFailures
  PROVE  NoCodeTypes'
  BY NoCodeHandlerGoes DEF NoCodeTypes, NoCodes!TypeOK, NoCodes!ride

LEMMA NoCodeTypesStep == ASSUME NoCodesAreLimited, NoCodeTypes, [NoCodes!Next]_(NoCodes!tripVars)
                         PROVE  NoCodeTypes'
  <1> USE NoCodesAreLimited
  <1>0. /\ minted \in Nat /\ requests \in Nat /\ tries \in Nat /\ otpAttempts \in Nat
        /\ 0..minted \subseteq 0..(minted + 1) /\ 0..requests \subseteq 0..(requests + 1)
        /\ 0 \in 0..minted /\ 0 \in 0..requests
    BY DEF NoCodesAreLimited, NoCodeTypes, NoCodes!TypeOK
  <1>t. /\ trip \in {"DRIVER_ARRIVED", "RIDE_STARTED", "COMPLETED", "CANCELLED"}
        /\ otp \in 0..minted /\ otpLapsed \in BOOLEAN /\ asked \in 0..requests /\
           verified \in 0..NoCodeMaxCodes
        /\ minted \in 1..NoCodeMaxCodes /\ requests \in 0..NoCodeMaxRequests
    BY DEF NoCodeTypes, NoCodes!TypeOK
  <1>m. minted < NoCodeMaxCodes => minted + 1 \in 1..NoCodeMaxCodes /\ minted + 1 \in 0..(minted + 1)
    BY <1>0, <1>t DEF NoCodesAreLimited
  <1>r. requests < NoCodeMaxRequests => requests + 1 \in 0..NoCodeMaxRequests /\
        requests + 1 \in 0..(requests + 1)
    BY <1>0, <1>t DEF NoCodesAreLimited
  <1>1. ASSUME NEW p \in CodeAttempts, NoCodes!Submit(p) PROVE NoCodeTypes'
    <2>1. trip \in {"DRIVER_ARRIVED", "RIDE_STARTED"} /\ "OTP" \in NoCodes!RideCompletionMode \cup {"NONE"}
      BY <1>1 DEF NoCodes!Submit, NoCodes!RideCompletionMode
    <2>2. PICK pc \in {"rotate", "open", "count"} : NoCodes!Goes(p, NoCodes!Reads(pc, "OTP")) /\
               tries' \in Nat
      BY <1>0, <1>1 DEF NoCodes!Submit
    <2> QED BY <2>1, <2>2, <1>1, NoCodeHandlerGoesOn, NoCodeReadings DEF NoCodes!Submit,
                                                                         NoCodeTypes, NoCodes!TypeOK
  <1>2. ASSUME NEW p \in CodeAttempts,
               NoCodes!RequestEnd(p) \/ NoCodes!CancelEnd(p) \/ NoCodes!CompleteWithoutCode(p) \/
               NoCodes!Override(p) \/ NoCodes!CompleteAsAdmin(p)
        PROVE  NoCodeTypes'
    <2>1. trip = "RIDE_STARTED" /\
          UNCHANGED <<NoCodes!ride, waited, sosOpen, minted, requests, tries, verified, codeFailures>>
      BY <1>2 DEF NoCodes!RequestEnd, NoCodes!CancelEnd, NoCodes!CompleteWithoutCode,
                  NoCodes!Override, NoCodes!CompleteAsAdmin
    <2>2. PICK pc \in {"ask", "withdraw", "finish"}, mode \in NoCodes!RideCompletionMode \cup {"NONE"} : NoCodes!Goes(p, NoCodes!Reads(pc, mode))
      BY <1>2 DEF NoCodes!RequestEnd, NoCodes!CancelEnd, NoCodes!CompleteWithoutCode,
                  NoCodes!Override, NoCodes!CompleteAsAdmin, NoCodes!RideCompletionMode
    <2>3. tries' \in Nat /\ codeFailures' \in 0..NoCodeMaxFailures
      BY <1>0, <2>1 DEF NoCodeTypes, NoCodes!TypeOK
    <2>4. trip \in {"DRIVER_ARRIVED", "RIDE_STARTED"} /\
          pc \in {"rotate", "open", "count", "ask", "withdraw", "finish"}
      BY <2>1
    <2> QED BY <2>1, <2>2, <2>3, <2>4, NoCodeHandlerGoesOn, NoCodeReadings
  <1>3. ASSUME NEW p \in CodeAttempts, NoCodes!Dies(p) PROVE NoCodeTypes'
    <2>1. tries' \in Nat /\ codeFailures' \in 0..NoCodeMaxFailures
      BY <1>0, <1>3 DEF NoCodes!Dies, NoCodesAreLimited, NoCodeTypes, NoCodes!TypeOK
    <2> QED BY <2>1, <1>3, <1>0, NoCodeHandlerGoesOn, NoCodeIdle DEF NoCodes!Dies
  <1>4. ASSUME NEW p \in CodeAttempts, NoCodes!Count(p) PROVE NoCodeTypes'
    <2>1. PICK a \in {[attempt[p] EXCEPT !.pc = "rotate", !.code = NoCodes!NoCode], NoCodes!Idle} : NoCodes!Goes(p, a)
      BY <1>4 DEF NoCodes!Count
    <2>2. attempt[p] \in NoCodes!Handler
      BY DEF NoCodeTypes, NoCodes!TypeOK
    <2>3. a \in NoCodes!Handler /\ a.code \in 0..minted /\ a.asked \in 0..requests
      <3>1. [attempt[p] EXCEPT !.pc = "rotate", !.code = NoCodes!NoCode] \in NoCodes!Handler
        <4>1. "rotate" \in {"idle", "rotate", "open", "count", "ask", "withdraw", "finish"} /\
              NoCodes!NoCode \in 0..NoCodeMaxCodes
          BY DEF NoCodesAreLimited, NoCodes!NoCode
        <4> QED BY <2>2, <4>1 DEF NoCodes!Handler
      <3>2. attempt[p].asked \in 0..requests
        BY DEF NoCodeTypes
      <3>3. CASE a = NoCodes!Idle
        BY <3>3, <1>0, NoCodeIdle
      <3>4. CASE a = [attempt[p] EXCEPT !.pc = "rotate", !.code = NoCodes!NoCode]
        BY <2>2, <3>1, <3>2, <3>4, <1>0 DEF NoCodes!Handler, NoCodes!NoCode
      <3> QED BY <2>1, <3>3, <3>4
    <2>4. otpAttempts' \in Nat
      BY <1>0, <1>4 DEF NoCodes!Count
    <2> QED BY <2>1, <2>3, <2>4, <1>4, NoCodeHandlerGoes DEF NoCodes!Count, NoCodeTypes, NoCodes!TypeOK
  <1>5. ASSUME NEW p \in CodeAttempts, NoCodes!Rotate(p) PROVE NoCodeTypes'
    <2>1. minted' \in {minted, minted + 1} /\ minted' \in 1..NoCodeMaxCodes /\ otp' \in 0..minted' /\ otpLapsed' \in BOOLEAN
          /\ otpAttempts' \in Nat /\ tries' \in Nat
      <3>1. CASE NoCodes!Rotatable(attempt[p])
        <4>1. minted < NoCodeMaxCodes /\ minted' = minted + 1 /\ otp' = minted + 1 /\ otpLapsed' = FALSE
              /\ otpAttempts' = 0 /\ tries' = 0
          BY <1>5, <3>1 DEF NoCodes!Rotate, NoCodes!NewCode
        <4> QED BY <1>0, <1>m, <4>1
      <3>2. CASE ~NoCodes!Rotatable(attempt[p])
        BY <1>0, <1>5, <3>2 DEF NoCodes!Rotate, NoCodeTypes, NoCodes!TypeOK
      <3> QED BY <3>1, <3>2
    <2> QED BY <2>1, <1>5, <1>0, NoCodeHandlerGoes, NoCodeIdle DEF NoCodes!Rotate, NoCodeTypes,
                                                                   NoCodes!TypeOK
  <1>6. ASSUME NEW p \in CodeAttempts, NoCodes!Ask(p) PROVE NoCodeTypes'
    <2>1. /\ minted' \in {minted, minted + 1} /\ minted' \in 1..NoCodeMaxCodes /\ otp' \in 0..minted' /\
             otpLapsed' \in BOOLEAN
          /\ otpAttempts' \in Nat /\ tries' \in Nat
          /\ requests' \in {requests, requests + 1} /\ requests' \in 0..NoCodeMaxRequests /\
             asked' \in 0..requests'
      <3>0. attempt[p].asked \in 0..requests
        BY DEF NoCodeTypes
      <3>1. CASE NoCodes!AskAdmitted(attempt[p])
        <4>1. minted < NoCodeMaxCodes /\ minted' = minted + 1 /\ otp' = minted + 1 /\ otpLapsed' = FALSE
              /\ otpAttempts' = 0 /\ tries' = 0
          BY <1>6, <3>1 DEF NoCodes!Ask, NoCodes!NewCode
        <4>2. \/ asked' = attempt[p].asked /\ requests' = requests
              \/ requests < NoCodeMaxRequests /\ requests' = requests + 1 /\ asked' = requests + 1
          BY <1>6, <3>1 DEF NoCodes!Ask
        <4>3. requests' \in {requests, requests + 1} /\ requests' \in 0..NoCodeMaxRequests /\
              asked' \in 0..requests'
          BY <1>0, <1>t, <1>r, <3>0, <4>2
        <4> QED BY <1>0, <1>m, <4>1, <4>3
      <3>2. CASE ~NoCodes!AskAdmitted(attempt[p])
        BY <1>0, <1>6, <3>2 DEF NoCodes!Ask, NoCodeTypes, NoCodes!TypeOK
      <3> QED BY <3>1, <3>2
    <2>2. waited \subseteq 1..requests'
      BY <1>0, <2>1 DEF NoCodeTypes, NoCodes!TypeOK
    <2> QED BY <2>1, <2>2, <1>6, <1>0, NoCodeHandlerGoes, NoCodeIdle DEF NoCodes!Ask, NoCodeTypes,
                                                                         NoCodes!TypeOK
  <1>7. ASSUME NEW p \in CodeAttempts, NoCodes!Start(p) \/ NoCodes!Withdraw(p) PROVE NoCodeTypes'
    <2>1. /\ trip' \in {"DRIVER_ARRIVED", "RIDE_STARTED", "COMPLETED", "CANCELLED"}
          /\ otp' \in 0..minted /\ otpLapsed' \in BOOLEAN /\ otpAttempts' \in Nat /\ asked' \in 0..requests
          /\ verified' \in 0..NoCodeMaxCodes
      <3>1. attempt[p].code \in 0..NoCodeMaxCodes
        BY DEF NoCodesAreLimited, NoCodeTypes, NoCodes!TypeOK, NoCodes!Handler
      <3>2. CASE NoCodes!Start(p)
        BY <1>0, <1>t, <3>1, <3>2 DEF NoCodes!Start, NoCodes!NoCode
      <3>3. CASE NoCodes!Withdraw(p)
        <4>1. \/ asked' = asked /\ otp' = otp /\ otpLapsed' = otpLapsed /\ otpAttempts' = otpAttempts
              \/ asked' = 0 /\ otp' = 0 /\ otpLapsed' = FALSE /\ otpAttempts' = 0
          BY <3>3 DEF NoCodes!Withdraw, NoCodes!NoCode, NoCodes!NotAsked
        <4>2. trip' = trip /\ verified' = verified
          BY <3>3 DEF NoCodes!Withdraw
        <4>3. otpAttempts' \in Nat
          BY <1>0, <4>1
        <4>4. otp' \in 0..minted /\ otpLapsed' \in BOOLEAN /\ asked' \in 0..requests
          BY <1>0, <1>t, <4>1
        <4> QED BY <1>t, <4>2, <4>3, <4>4
      <3> QED BY <1>7, <3>2, <3>3
    <2>2. NoCodes!Goes(p, NoCodes!Idle) /\
          UNCHANGED <<completion, waited, sosOpen, minted, requests, tries, codeFailures>>
      BY <1>7 DEF NoCodes!Start, NoCodes!Withdraw
    <2> QED BY <2>1, <2>2, <1>0, NoCodeHandlerGoes, NoCodeIdle DEF NoCodeTypes, NoCodes!TypeOK
  <1>8. ASSUME NEW p \in CodeAttempts, NoCodes!Finish(p) PROVE NoCodeTypes'
    <2>1. /\ trip' \in {"DRIVER_ARRIVED", "RIDE_STARTED", "COMPLETED", "CANCELLED"}
          /\ otp' \in 0..minted /\ otpLapsed' \in BOOLEAN /\ verified' \in 0..NoCodeMaxCodes
          /\ completion' \in [mode : NoCodes!RideCompletionMode \cup {"NONE"}, at : 0..NoCodeMaxRequests]
      <3>1. attempt[p] \in NoCodes!Handler
        BY DEF NoCodeTypes, NoCodes!TypeOK
      <3>2. CASE NoCodes!Finishes(attempt[p])
        <4>1. attempt[p].mode \in NoCodes!RideCompletionMode \cup {"NONE"} /\ attempt[p].asked \in 0..NoCodeMaxRequests
              /\ attempt[p].code \in 0..NoCodeMaxCodes
          BY <3>1 DEF NoCodes!Handler
        <4>2. trip' = "COMPLETED" /\ otp' = 0 /\ otpLapsed' = FALSE
              /\ completion' = [mode |-> attempt[p].mode, at |-> attempt[p].asked]
              /\ verified' \in {attempt[p].code, verified}
          BY <1>8, <3>2 DEF NoCodes!Finish, NoCodes!NoCode
        <4> QED BY <1>0, <1>t, <4>1, <4>2
      <3>3. CASE ~NoCodes!Finishes(attempt[p])
        BY <1>8, <3>3 DEF NoCodes!Finish, NoCodeTypes, NoCodes!TypeOK
      <3> QED BY <3>2, <3>3
    <2> QED BY <2>1, <1>8, <1>0, NoCodeHandlerGoes, NoCodeIdle DEF NoCodes!Finish, NoCodeTypes,
                                                                   NoCodes!TypeOK
  <1>9. CASE NoCodes!CodeLapses \/ NoCodes!WaitElapses \/ NoCodes!SosToggles \/ NoCodes!Cancel
    <2>1. UNCHANGED <<otp, otpAttempts, asked, completion, minted, requests, tries, verified, attempt, codeFailures>>
      BY <1>9 DEF NoCodes!CodeLapses, NoCodes!WaitElapses, NoCodes!SosToggles, NoCodes!Cancel,
                  NoCodes!ride
    <2>2. trip' \in {"DRIVER_ARRIVED", "RIDE_STARTED", "COMPLETED", "CANCELLED"} /\ otpLapsed' \in BOOLEAN
          /\ sosOpen' \in BOOLEAN
      BY <1>9, <1>t DEF NoCodes!CodeLapses, NoCodes!WaitElapses, NoCodes!SosToggles,
                        NoCodes!Cancel, NoCodes!ride, NoCodeTypes, NoCodes!TypeOK
    <2>3. waited' \subseteq 1..requests
      <3>1. waited \subseteq 1..requests /\ (asked # 0 => asked \in 1..requests)
        BY <1>0, <1>t DEF NoCodeTypes, NoCodes!TypeOK
      <3> QED BY <1>9, <3>1 DEF NoCodes!CodeLapses, NoCodes!WaitElapses, NoCodes!SosToggles,
                                NoCodes!Cancel, NoCodes!ride, NoCodes!NotAsked
    <2> QED BY <2>1, <2>2, <2>3 DEF NoCodeTypes, NoCodes!TypeOK
  <1>10. CASE UNCHANGED NoCodes!tripVars
    BY <1>10 DEF NoCodeTypes, NoCodes!TypeOK, NoCodes!tripVars, NoCodes!ride
  <1> QED BY <1>1, <1>2, <1>3, <1>4, <1>5, <1>6, <1>7, <1>8, <1>9, <1>10 DEF NoCodes!Next

-----------------------------------------------------------------------------
(* Reconciliation.  What a run holds between two steps is old, and a bill only gains: what was found
   stays true. *)

Recon == INSTANCE Reconciliation WITH
  Runs <- ReconRuns, Pages <- ReconPages, MAX_PAGES <- ReconMaxPages,
    MaxFailures <- ReconMaxFailures

\* A payment has a name of its own.
ASSUME PaymentsAreNamed == Recon!None \notin Recon!Items /\ "cash" \notin Recon!Items

Listed == UNION {[S -> Recon!PaymentsSeen \ {Recon!None}] : S \in SUBSET Recon!Items}
RunJob ==
  [pc : {"idle", "asked", "due", "list", "find", "compare", "recorded", "over"}, page : Nat,
   list : Listed, doc : Recon!Book, todo : SUBSET Recon!Items, seen : SUBSET Recon!Items,
   found : SUBSET Recon!ReconciliationException, lost : SUBSET Recon!Items]
RunTypes ==
  /\ item \in [Recon!Items -> Recon!PaymentsSeen] /\ bill \in Recon!Book /\ failures \in Nat
  /\ run \in [ReconRuns -> Recon!PaymentReconciliationRun] /\ job \in [ReconRuns -> RunJob]
ListsAreWhole == \A m \in ReconRuns : job[m].todo \subseteq DOMAIN job[m].list

\* A bill only gains: it keeps its payment, its duplicates and its refunds.
Keeps(old, new) ==
  /\ old.paid # Recon!None => new.paid = old.paid
  /\ old.dups \subseteq new.dups /\ old.refunds \subseteq new.refunds
\* A payment only moves on: a capture stays one, and what was there stays there.
MovesOn(old, new) == new # Recon!None /\ (Recon!Captured(old) => Recon!Captured(new))
CopiesAreOld ==
  \A m \in ReconRuns :
    /\ Keeps(job[m].doc, bill)
    /\ \A x \in DOMAIN job[m].list : MovesOn(job[m].list[x], item[x])
PaidIsCaptured == bill.paid \in Recon!Items => Recon!Captured(item[bill.paid])
SeenAreRecorded == \A m \in ReconRuns : \A x \in job[m].seen \ job[m].lost : Recon!Recorded(x)
Heals(e, b) ==
  e.healed => (e.item = b.paid \/ e.item \in b.dups) /\ (e.type = "REFUND_MISMATCH" => e.item \in b.refunds)
FindsAreTrue ==
  \A m \in ReconRuns : \A e \in job[m].found \cup run[m].exceptions :
    /\ e.item \notin job[m].lost => Heals(e, bill)
    /\ failures = 0 => e.type # "RECORDED_PAID_NOT_AT_GATEWAY"
OneDaily == \A m, n \in ReconRuns : run[m].key = "daily" /\ run[n].key = "daily" => m = n

RunInv ==
  /\ RunTypes /\ ListsAreWhole /\ CopiesAreOld /\ PaidIsCaptured /\ SeenAreRecorded
  /\ FindsAreTrue /\ OneDaily

LEMMA NoListIsListed == Recon!NoList \in Listed /\ DOMAIN Recon!NoList = {}
  <1>1. Recon!NoList \in [{} -> Recon!PaymentsSeen \ {Recon!None}] /\ DOMAIN Recon!NoList = {}
    BY DEF Recon!NoList
  <1> QED BY <1>1 DEF Listed

LEMMA NoBookIsABook == Recon!NoBook \in Recon!Book
  BY DEF Recon!NoBook, Recon!Book

LEMMA RunsBegin == ASSUME PaymentsAreNamed PROVE Recon!Init => RunInv
  <1> SUFFICES ASSUME Recon!Init PROVE RunInv
    OBVIOUS
  <1> USE DEF Recon!Init
  <1>1. RunTypes
    <2>1. Recon!Idle \in RunJob
      BY NoListIsListed, NoBookIsABook DEF Recon!Idle, RunJob
    <2>2. item \in [Recon!Items -> Recon!PaymentsSeen]
      BY DEF Recon!PaymentsSeen
    <2>3. run \in [ReconRuns -> Recon!PaymentReconciliationRun]
      BY DEF Recon!PaymentReconciliationRun, Recon!ReconciliationRunStatus
    <2> QED BY <2>1, <2>2, <2>3, NoBookIsABook DEF RunTypes
  <1>2. ListsAreWhole
    BY DEF ListsAreWhole, Recon!Idle
  <1>3. CopiesAreOld
    BY NoListIsListed DEF CopiesAreOld, Recon!Idle, Keeps, Recon!NoBook
  <1>4. PaymentsAreNamed => PaidIsCaptured
    BY DEF PaidIsCaptured, Recon!NoBook, PaymentsAreNamed
  <1>5. SeenAreRecorded
    BY DEF SeenAreRecorded, Recon!Idle
  <1>6. FindsAreTrue
    BY DEF FindsAreTrue, Recon!Idle
  <1>7. OneDaily
    BY DEF OneDaily, Recon!None
  <1> QED BY <1>1, <1>2, <1>3, <1>4, <1>5, <1>6, <1>7 DEF RunInv

-----------------------------------------------------------------------------
LEMMA SettledKeeps ==
  ASSUME NEW b \in Recon!Book, NEW x \in Recon!Items
  PROVE  /\ Recon!Settled(b, x) \in Recon!Book /\ Keeps(b, Recon!Settled(b, x))
         /\ x = Recon!Settled(b, x).paid \/ x \in Recon!Settled(b, x).dups
         /\ Recon!Settled(b, x).paid \in {b.paid, x}
  <1>1. CASE b.paid = Recon!None
    <2>1. Recon!Settled(b, x) = [b EXCEPT !.paid = x]
      BY <1>1 DEF Recon!Settled
    <2> QED BY <1>1, <2>1 DEF Recon!Book, Keeps
  <1>2. CASE b.paid # Recon!None /\ b.paid = x
    <2>1. Recon!Settled(b, x) = b
      BY <1>2 DEF Recon!Settled
    <2> QED BY <1>2, <2>1 DEF Recon!Book, Keeps
  <1>3. CASE b.paid # Recon!None /\ b.paid # x
    <2>1. Recon!Settled(b, x) = [b EXCEPT !.dups = @ \cup {x}]
      BY <1>3 DEF Recon!Settled
    <2> QED BY <1>3, <2>1 DEF Recon!Book, Keeps
  <1> QED BY <1>1, <1>2, <1>3

LEMMA SyncedKeeps ==
  ASSUME NEW b \in Recon!Book
  PROVE  /\ Recon!Synced(b) \in Recon!Book /\ Keeps(b, Recon!Synced(b))
         /\ Recon!Synced(b).paid = b.paid /\ Recon!Synced(b).dups = b.dups
  BY DEF Recon!Synced, Recon!Book, Keeps

LEMMA KeepsOn ==
  ASSUME NEW a \in Recon!Book, NEW b \in Recon!Book, NEW c \in Recon!Book, Keeps(a, b), Keeps(b, c)
  PROVE  Keeps(a, c)
  BY DEF Keeps

LEMMA AppliedKeeps ==
  ASSUME NEW doc, NEW x \in Recon!Items, NEW ends, bill \in Recon!Book
  PROVE  /\ Recon!Applied(doc, x, ends) \in Recon!Book /\ Keeps(bill, Recon!Applied(doc, x, ends))
         /\ Recon!Captured(ends) \/ Recon!Captures(doc, ends) =>
              /\ x = Recon!Applied(doc, x, ends).paid \/ x \in Recon!Applied(doc, x, ends).dups
              /\ Recon!Applied(doc, x, ends).paid \in {bill.paid, x}
         /\ ~(Recon!Captured(ends) \/ Recon!Captures(doc, ends)) => Recon!Applied(doc, x, ends) = bill
         /\ Recon!Captured(ends) \/ Recon!Captures(doc, ends) =>
            Keeps(Recon!Settled(bill, x), Recon!Applied(doc, x, ends))
  <1>1. CASE ~(Recon!Captured(ends) \/ Recon!Captures(doc, ends))
    BY <1>1 DEF Recon!Applied, Keeps, Recon!Book
  <1>2. CASE (Recon!Captured(ends) \/ Recon!Captures(doc, ends)) /\ ends = "refunded"
    <2>1. Recon!Applied(doc, x, ends) = Recon!Synced(Recon!Settled(bill, x))
      BY <1>2 DEF Recon!Applied
    <2> QED BY <1>2, <2>1, SettledKeeps, SyncedKeeps, KeepsOn
  <1>3. CASE (Recon!Captured(ends) \/ Recon!Captures(doc, ends)) /\ ends # "refunded"
    <2>1. Recon!Applied(doc, x, ends) = Recon!Settled(bill, x)
      BY <1>3 DEF Recon!Applied
    <2>2. Keeps(Recon!Settled(bill, x), Recon!Settled(bill, x))
      BY SettledKeeps DEF Keeps, Recon!Book
    <2> QED BY <1>3, <2>1, <2>2, SettledKeeps
  <1> QED BY <1>1, <1>2, <1>3

\* An item captured on somebody's word is captured, and no other item moves.
LEMMA CaptureMoves ==
  ASSUME NEW doc, NEW x \in Recon!Items, NEW ends, item \in [Recon!Items -> Recon!PaymentsSeen],
         Recon!Capture(doc, x, ends), MovesOn(ends, item[x])
  PROVE  /\ item' \in [Recon!Items -> Recon!PaymentsSeen]
         /\ \A y \in Recon!Items : item[y] # Recon!None => MovesOn(item[y], item'[y])
         /\ Recon!Captured(ends) \/ Recon!Captures(doc, ends) => Recon!Captured(item'[x])
  <1>1. CASE Recon!Captures(doc, ends) /\ item[x] = "authorized"
    <2>1. item' = [item EXCEPT ![x] = "captured"]
      BY <1>1 DEF Recon!Capture
    <2> QED BY <1>1, <2>1 DEF Recon!PaymentsSeen, MovesOn, Recon!Captured, Recon!None
  <1>2. CASE ~(Recon!Captures(doc, ends) /\ item[x] = "authorized")
    <2>1. item' = item
      BY <1>2 DEF Recon!Capture
    <2>2. Recon!Captures(doc, ends) => Recon!Captured(item[x])
      BY <1>2 DEF MovesOn, Recon!PaymentsSeen, Recon!Captured
    <2> QED BY <2>1, <2>2 DEF MovesOn
  <1> QED BY <1>1, <1>2

LEMMA MovesOnOn ==
  ASSUME NEW a, NEW b, NEW c, MovesOn(a, b), b # Recon!None => MovesOn(b, c)
  PROVE  MovesOn(a, c)
  BY DEF MovesOn

-----------------------------------------------------------------------------
\* The books and Razorpay go on while every run stays as it is.
LEMMA RecordedStays ==
  ASSUME PaymentsAreNamed, NEW b \in Recon!Book, NEW c \in Recon!Book, Keeps(b, c)
  PROVE  /\ \A x \in Recon!Items : x = b.paid \/ x \in b.dups => x = c.paid \/ x \in c.dups
         /\ \A e \in Recon!ReconciliationException : Heals(e, b) => Heals(e, c)
  <1>1. \A x \in Recon!Items : x = b.paid \/ x \in b.dups => x = c.paid \/ x \in c.dups
    BY DEF Keeps, PaymentsAreNamed
  <1>2. \A e \in Recon!ReconciliationException : e.item \in Recon!Items
    BY DEF Recon!ReconciliationException
  <1> QED BY <1>1, <1>2 DEF Heals, Keeps

LEMMA BooksGoOn ==
  ASSUME PaymentsAreNamed, RunInv, UNCHANGED <<run, job, failures>>,
         item' \in [Recon!Items -> Recon!PaymentsSeen], bill' \in Recon!Book, Keeps(bill, bill'),
         \A x \in Recon!Items : item[x] # Recon!None => MovesOn(item[x], item'[x]), PaidIsCaptured'
  PROVE  RunInv'
  <1> USE DEF RunInv
  <1>1. RunTypes'
    BY DEF RunTypes
  <1>2. ListsAreWhole'
    BY DEF ListsAreWhole
  <1>3. CopiesAreOld'
    <2> SUFFICES ASSUME NEW m \in ReconRuns
                 PROVE  /\ Keeps(job[m].doc, bill')
                        /\ \A x \in DOMAIN job[m].list : MovesOn(job[m].list[x], item'[x])
      BY DEF CopiesAreOld
    <2>1. job[m].doc \in Recon!Book /\ bill \in Recon!Book /\ job[m].list \in Listed
      BY DEF RunTypes, RunJob
    <2>2. Keeps(job[m].doc, bill')
      BY <2>1, KeepsOn DEF CopiesAreOld
    <2>3. DOMAIN job[m].list \subseteq Recon!Items
      BY <2>1 DEF Listed
    <2>4. \A x \in DOMAIN job[m].list : MovesOn(job[m].list[x], item[x])
      BY DEF CopiesAreOld
    <2> QED BY <2>2, <2>3, <2>4, MovesOnOn
  <1>4. SeenAreRecorded'
    <2> SUFFICES ASSUME NEW m \in ReconRuns, NEW x \in job[m].seen \ job[m].lost
                 PROVE  x = bill'.paid \/ x \in bill'.dups
      BY DEF SeenAreRecorded, Recon!Recorded
    <2>1. x \in Recon!Items /\ bill \in Recon!Book
      BY DEF RunTypes, RunJob
    <2>2. x = bill.paid \/ x \in bill.dups
      BY DEF SeenAreRecorded, Recon!Recorded
    <2> QED BY <2>1, <2>2, RecordedStays
  <1>5. FindsAreTrue'
    <2> SUFFICES ASSUME NEW m \in ReconRuns, NEW e \in job[m].found \cup run[m].exceptions
                 PROVE  /\ e.item \notin job[m].lost => Heals(e, bill')
                        /\ failures = 0 => e.type # "RECORDED_PAID_NOT_AT_GATEWAY"
      BY DEF FindsAreTrue, Heals
    <2>1. e \in Recon!ReconciliationException /\ bill \in Recon!Book
      BY DEF RunTypes, RunJob, Recon!PaymentReconciliationRun
    <2>2. /\ e.item \notin job[m].lost => Heals(e, bill)
          /\ failures = 0 => e.type # "RECORDED_PAID_NOT_AT_GATEWAY"
      BY DEF FindsAreTrue
    <2> QED BY <2>1, <2>2, RecordedStays
  <1>6. OneDaily'
    BY DEF OneDaily
  <1> QED BY <1>1, <1>2, <1>3, <1>4, <1>5, <1>6

LEMMA PayKeeps ==
  ASSUME PaymentsAreNamed, RunInv, NEW x \in Recon!Items, Recon!Pay(x) \/ Recon!Refund(x)
  PROVE  RunInv'
  <1> USE DEF RunInv, RunTypes
  <1>1. PICK s \in {"authorized", "captured", "refunded"} :
          /\ item' = [item EXCEPT ![x] = s]
          /\ item[x] = Recon!None \/ (item[x] = "captured" /\ s = "refunded")
    BY DEF Recon!Pay, Recon!Refund
  <1>2. item' \in [Recon!Items -> Recon!PaymentsSeen]
    BY <1>1 DEF Recon!PaymentsSeen
  <1>3. \A y \in Recon!Items : item[y] # Recon!None => MovesOn(item[y], item'[y])
    BY <1>1 DEF MovesOn, Recon!Captured, Recon!None
  <1>4. UNCHANGED <<bill, run, job, failures>>
    BY DEF Recon!Pay, Recon!Refund
  <1>5. Keeps(bill, bill')
    BY <1>4 DEF Keeps
  <1>6. PaidIsCaptured'
    BY <1>3, <1>4 DEF PaidIsCaptured, MovesOn, Recon!Captured, Recon!None
  <1> QED BY <1>2, <1>3, <1>4, <1>5, <1>6, BooksGoOn

\* What an application leaves is captured at Razorpay.
LEMMA AppliedIsCaptured ==
  ASSUME PaymentsAreNamed, RunInv, NEW doc, NEW x \in Recon!Items, NEW ends, MovesOn(ends, item[x]),
         bill' = Recon!Applied(doc, x, ends), Recon!Capture(doc, x, ends)
  PROVE  /\ item' \in [Recon!Items -> Recon!PaymentsSeen] /\ bill' \in Recon!Book /\ Keeps(bill, bill')
         /\ \A y \in Recon!Items : item[y] # Recon!None => MovesOn(item[y], item'[y])
         /\ PaidIsCaptured'
  <1> USE DEF RunInv, RunTypes
  <1>1. /\ item' \in [Recon!Items -> Recon!PaymentsSeen]
        /\ \A y \in Recon!Items : item[y] # Recon!None => MovesOn(item[y], item'[y])
        /\ Recon!Captured(ends) \/ Recon!Captures(doc, ends) => Recon!Captured(item'[x])
    BY CaptureMoves
  <1>2. bill' \in Recon!Book /\ Keeps(bill, bill')
    BY AppliedKeeps
  <1>3. bill'.paid = bill.paid \/ (bill'.paid = x /\ (Recon!Captured(ends) \/ Recon!Captures(doc, ends)))
    BY AppliedKeeps
  <1>4. PaidIsCaptured'
    <2>1. CASE bill'.paid = bill.paid
      BY <1>1, <2>1 DEF PaidIsCaptured, MovesOn, Recon!Captured, Recon!None
    <2>2. CASE bill'.paid = x /\ (Recon!Captured(ends) \/ Recon!Captures(doc, ends))
      BY <1>1, <2>2 DEF PaidIsCaptured
    <2> QED BY <1>3, <2>1, <2>2
  <1> QED BY <1>1, <1>2, <1>4

LEMMA WebhookKeeps ==
  ASSUME PaymentsAreNamed, RunInv, NEW x \in Recon!Items, Recon!Webhook(x)
  PROVE  RunInv'
  <1>1. MovesOn(item[x], item[x])
    BY DEF Recon!Webhook, MovesOn
  <1>2. bill' = Recon!Applied(bill, x, item[x]) /\ Recon!Capture(bill, x, item[x]) /\
        UNCHANGED <<run, job, failures>>
    BY DEF Recon!Webhook
  <1> QED BY <1>1, <1>2, AppliedIsCaptured, BooksGoOn

LEMMA PayCashKeeps ==
  ASSUME PaymentsAreNamed, RunInv, Recon!PayCash
  PROVE  RunInv'
  <1> USE DEF RunInv, RunTypes, Recon!PayCash
  <1>1. bill' \in Recon!Book /\ Keeps(bill, bill')
    BY DEF Recon!Book, Keeps
  <1>2. PaidIsCaptured'
    BY DEF PaidIsCaptured, PaymentsAreNamed, Recon!Book
  <1>3. \A y \in Recon!Items : item[y] # Recon!None => MovesOn(item[y], item'[y])
    BY DEF MovesOn
  <1> QED BY <1>1, <1>2, <1>3, BooksGoOn

-----------------------------------------------------------------------------
\* A run goes on while the books and Razorpay stay.
LEMMA RunGoesOn ==
  ASSUME RunInv, NEW m \in ReconRuns, NEW j \in RunJob, NEW r \in Recon!PaymentReconciliationRun,
         UNCHANGED <<item, bill>>, job' = [job EXCEPT ![m] = j], run' = [run EXCEPT ![m] = r],
         failures' \in Nat, failures' = 0 => failures = 0,
         j.todo \subseteq DOMAIN j.list, Keeps(j.doc, bill),
         \A x \in DOMAIN j.list : MovesOn(j.list[x], item[x]),
         j.seen = job[m].seen, j.lost = job[m].lost,
         \A e \in j.found \cup r.exceptions :
           \/ e \in job[m].found \cup run[m].exceptions
           \/ ~e.healed /\ (failures' = 0 => e.type # "RECORDED_PAID_NOT_AT_GATEWAY"),
         r.key = "daily" => \A n \in ReconRuns : run[n].key = "daily" => n = m
  PROVE  RunInv'
  <1> USE DEF RunInv, RunTypes
  <1>0. /\ job'[m] = j /\ run'[m] = r
        /\ \A n \in ReconRuns : n # m => job'[n] = job[n] /\ run'[n] = run[n]
    OBVIOUS
  <1>1. RunTypes'
    OBVIOUS
  <1>2. ListsAreWhole'
    BY <1>0 DEF ListsAreWhole
  <1>3. CopiesAreOld'
    BY <1>0 DEF CopiesAreOld
  <1>4. PaidIsCaptured'
    BY DEF PaidIsCaptured
  <1>5. SeenAreRecorded'
    BY <1>0 DEF SeenAreRecorded, Recon!Recorded
  <1>6. FindsAreTrue'
    <2> SUFFICES ASSUME NEW n \in ReconRuns, NEW e \in job'[n].found \cup run'[n].exceptions
                 PROVE  /\ e.item \notin job'[n].lost => Heals(e, bill)
                        /\ failures' = 0 => e.type # "RECORDED_PAID_NOT_AT_GATEWAY"
      BY DEF FindsAreTrue, Heals
    <2>1. CASE e \in job[n].found \cup run[n].exceptions
      BY <1>0, <2>1 DEF FindsAreTrue
    <2>2. CASE n = m /\ ~e.healed /\ (failures' = 0 => e.type # "RECORDED_PAID_NOT_AT_GATEWAY")
      BY <2>2 DEF Heals
    <2> QED BY <1>0, <2>1, <2>2
  <1>7. OneDaily'
    BY <1>0 DEF OneDaily
  <1> QED BY <1>1, <1>2, <1>3, <1>4, <1>5, <1>6, <1>7

LEMMA StartKeeps ==
  ASSUME RunInv, NEW m \in ReconRuns, Recon!Ask(m) \/ Recon!Start(m) \/ Recon!CheckDaily(m) \/
         Recon!EnsureDailyRun(m)
  PROVE  RunInv'
  <1> USE DEF RunInv, RunTypes
  <1>1. PICK pc \in {"asked", "list", "due", "over"},
             r \in {run[m], Recon!Started("admin"), Recon!Started("daily")} :
          /\ job' = [job EXCEPT ![m] = [job[m] EXCEPT !.pc = pc]]
          /\ run' = [run EXCEPT ![m] = r]
          /\ r \in {run[m], Recon!Started("admin")} \/
             (r = Recon!Started("daily") /\ ~Recon!KeyTaken("daily"))
    <2>1. run' = run => run' = [run EXCEPT ![m] = run[m]]
      OBVIOUS
    <2>2. CASE Recon!Ask(m)
      BY <2>1, <2>2 DEF Recon!Ask, Recon!Goes
    <2>3. CASE Recon!CheckDaily(m)
      BY <2>1, <2>3 DEF Recon!CheckDaily, Recon!Goes
    <2>4. CASE Recon!Start(m)
      BY <2>4 DEF Recon!Start, Recon!Goes
    <2>5. CASE Recon!EnsureDailyRun(m)
      <3>1. CASE Recon!KeyTaken("daily")
        BY <2>1, <2>5, <3>1 DEF Recon!EnsureDailyRun, Recon!Goes
      <3>2. CASE ~Recon!KeyTaken("daily")
        BY <2>5, <3>2 DEF Recon!EnsureDailyRun, Recon!Goes
      <3> QED BY <3>1, <3>2
    <2> QED BY <2>2, <2>3, <2>4, <2>5
  <1>2. [job[m] EXCEPT !.pc = pc] \in RunJob
    BY DEF RunJob
  <1>3. r \in Recon!PaymentReconciliationRun /\ (r = run[m] \/ r.exceptions = {})
    <2>1. Recon!Started("admin") \in Recon!PaymentReconciliationRun /\
          Recon!Started("daily") \in Recon!PaymentReconciliationRun
      BY DEF Recon!Started, Recon!PaymentReconciliationRun, Recon!ReconciliationRunStatus
    <2>2. Recon!Started("admin").exceptions = {} /\ Recon!Started("daily").exceptions = {}
      BY DEF Recon!Started
    <2> QED BY <2>1, <2>2
  <1>4. r.key = "daily" => \A n \in ReconRuns : run[n].key = "daily" => n = m
    BY <1>1 DEF OneDaily, Recon!Started, Recon!KeyTaken
  <1>5. UNCHANGED <<item, bill, failures>>
    BY DEF Recon!Ask, Recon!Start, Recon!CheckDaily, Recon!EnsureDailyRun
  <1>6. /\ job[m].todo \subseteq DOMAIN job[m].list /\ Keeps(job[m].doc, bill)
        /\ \A x \in DOMAIN job[m].list : MovesOn(job[m].list[x], item[x])
    BY DEF ListsAreWhole, CopiesAreOld
  <1> DEFINE j == [job[m] EXCEPT !.pc = pc]
  <1>8. /\ j.todo = job[m].todo /\ j.list = job[m].list /\ j.doc = job[m].doc
        /\ j.seen = job[m].seen /\ j.lost = job[m].lost /\ j.found = job[m].found
    BY DEF RunJob
  <1> HIDE DEF j
  <1> QED BY <1>1, <1>2, <1>3, <1>4, <1>5, <1>6, <1>8, RunGoesOn DEF j

LEMMA GrowsStaleKeeps ==
  ASSUME RunInv, NEW m \in ReconRuns, Recon!GrowsStale(m)
  PROVE  RunInv'
  <1> USE DEF RunInv, RunTypes
  <1> DEFINE r == [run[m] EXCEPT !.fresh = FALSE]
  <1>1. run' = [run EXCEPT ![m] = r] /\ job' = [job EXCEPT ![m] = job[m]]
    BY DEF Recon!GrowsStale
  <1>2. /\ r \in Recon!PaymentReconciliationRun /\ r.exceptions = run[m].exceptions /\ r.key = run[m].key
    BY DEF Recon!PaymentReconciliationRun
  <1>3. r.key = "daily" => \A n \in ReconRuns : run[n].key = "daily" => n = m
    BY <1>2 DEF OneDaily
  <1>4. UNCHANGED <<item, bill, failures>>
    BY DEF Recon!GrowsStale
  <1>5. /\ job[m].todo \subseteq DOMAIN job[m].list /\ Keeps(job[m].doc, bill)
        /\ \A x \in DOMAIN job[m].list : MovesOn(job[m].list[x], item[x])
    BY DEF ListsAreWhole, CopiesAreOld
  <1> HIDE DEF r
  <1> QED BY <1>1, <1>2, <1>3, <1>4, <1>5, RunGoesOn

\* The steps of a run that find nothing: the page it is told, the bills it copies.
LEMMA ReadKeeps ==
  ASSUME RunInv, NEW m \in ReconRuns, Recon!ListPage(m) \/ Recon!FindBills(m) \/ Recon!NextPage(m)
  PROVE  RunInv'
  <1> USE DEF RunInv, RunTypes
  <1> DEFINE p == job[m].page
             L == IF p \in DOMAIN ReconPages THEN {x \in ReconPages[p] : item[x] # Recon!None} ELSE {}
             word == [x \in L |-> item[x]]
  <1>1. L \subseteq Recon!Items
    BY DEF Recon!Items
  <1>2. word \in Listed /\ DOMAIN word = L /\ \A x \in L : MovesOn(word[x], item[x])
    <2>1. word \in [L -> Recon!PaymentsSeen \ {Recon!None}]
      BY <1>1
    <2> QED BY <1>1, <2>1 DEF Listed, MovesOn
  <1> HIDE DEF L, word
  <1>3. /\ job[m] \in RunJob /\ run[m] \in Recon!PaymentReconciliationRun
        /\ job[m].todo \subseteq DOMAIN job[m].list /\ Keeps(job[m].doc, bill)
        /\ \A x \in DOMAIN job[m].list : MovesOn(job[m].list[x], item[x])
    BY DEF ListsAreWhole, CopiesAreOld
  <1>4. run' = run => run' = [run EXCEPT ![m] = run[m]]
    OBVIOUS
  <1>5. run[m].key = "daily" => \A n \in ReconRuns : run[n].key = "daily" => n = m
    BY DEF OneDaily
  <1>6. UNCHANGED <<item, bill, failures>>
    BY DEF Recon!ListPage, Recon!FindBills, Recon!NextPage
  <1>7. CASE Recon!ListPage(m) /\ run' # run
    <2> DEFINE j == [job[m] EXCEPT !.pc = "recorded"]
               cut == p \in DOMAIN ReconPages
               r == [run[m] EXCEPT !.truncated = cut]
    <2>1. job' = [job EXCEPT ![m] = j] /\ run' = [run EXCEPT ![m] = r]
      BY <1>7 DEF Recon!ListPage, Recon!Goes
    <2>0. cut \in BOOLEAN
      OBVIOUS
    <2> HIDE DEF cut
    <2>2. /\ j \in RunJob /\ j.todo = job[m].todo /\ j.list = job[m].list /\ j.doc = job[m].doc
          /\ j.seen = job[m].seen /\ j.lost = job[m].lost /\ j.found = job[m].found
      BY <1>3 DEF RunJob
    <2>3. r \in Recon!PaymentReconciliationRun /\ r.exceptions = run[m].exceptions /\ r.key = run[m].key
      BY <1>3, <2>0 DEF Recon!PaymentReconciliationRun
    <2> HIDE DEF j, r
    <2> QED BY <1>3, <1>5, <1>6, <2>1, <2>2, <2>3, RunGoesOn
  <1>8. CASE Recon!ListPage(m) /\ run' = run
    <2> DEFINE j == [job[m] EXCEPT !.pc = "find", !.list = word, !.todo = L]
    <2>1. job' = [job EXCEPT ![m] = j] \/ job' = [job EXCEPT ![m] = [job[m] EXCEPT !.pc = "recorded"]]
      BY <1>8 DEF Recon!ListPage, Recon!Goes, L, word
    <2>2. /\ j \in RunJob /\ j.todo = L /\ j.list = word /\ j.doc = job[m].doc
          /\ j.seen = job[m].seen /\ j.lost = job[m].lost /\ j.found = job[m].found
      BY <1>1, <1>2, <1>3 DEF RunJob
    <2>3. CASE job' = [job EXCEPT ![m] = j]
      <3> HIDE DEF j
      <3>1. j.todo \subseteq DOMAIN j.list /\ \A x \in DOMAIN j.list : MovesOn(j.list[x], item[x])
        BY <1>2, <2>2
      <3> QED BY <3>1, <1>3, <1>4, <1>5, <1>6, <1>8, <2>2, <2>3, RunGoesOn
    <2>4. CASE job' = [job EXCEPT ![m] = [job[m] EXCEPT !.pc = "recorded"]]
      <3> DEFINE k == [job[m] EXCEPT !.pc = "recorded"]
      <3>1. /\ k \in RunJob /\ k.todo = job[m].todo /\ k.list = job[m].list /\ k.doc = job[m].doc
            /\ k.seen = job[m].seen /\ k.lost = job[m].lost /\ k.found = job[m].found
        BY <1>3 DEF RunJob
      <3>2. job' = [job EXCEPT ![m] = k]
        BY <2>4
      <3> HIDE DEF k
      <3> QED BY <1>3, <1>4, <1>5, <1>6, <1>8, <3>1, <3>2, RunGoesOn
    <2> QED BY <2>1, <2>3, <2>4
  <1>9. CASE Recon!FindBills(m)
    <2> DEFINE j == [job[m] EXCEPT !.pc = "compare", !.doc = bill]
    <2>1. job' = [job EXCEPT ![m] = j] /\ run' = run
      BY <1>9 DEF Recon!FindBills, Recon!Goes
    <2>2. /\ j \in RunJob /\ j.todo = job[m].todo /\ j.list = job[m].list /\ j.doc = bill
          /\ j.seen = job[m].seen /\ j.lost = job[m].lost /\ j.found = job[m].found
      BY <1>3 DEF RunJob
    <2>3. Keeps(bill, bill)
      BY DEF Keeps
    <2> HIDE DEF j
    <2> QED BY <1>3, <1>4, <1>5, <1>6, <2>1, <2>2, <2>3, RunGoesOn
  <1>10. CASE Recon!NextPage(m)
    <2> DEFINE j == [job[m] EXCEPT !.pc = "list", !.page = @ + 1, !.list = Recon!NoList, !.doc = Recon!NoBook]
    <2>1. job' = [job EXCEPT ![m] = j] /\ run' = run /\ job[m].todo = {}
      BY <1>10 DEF Recon!NextPage, Recon!Goes
    <2>4. job[m].page + 1 \in Nat
      BY <1>3 DEF RunJob
    <2>2. /\ j \in RunJob /\ j.todo = {} /\ j.list = Recon!NoList /\ j.doc = Recon!NoBook
          /\ j.seen = job[m].seen /\ j.lost = job[m].lost /\ j.found = job[m].found
      BY <1>3, <2>1, <2>4, NoListIsListed, NoBookIsABook DEF RunJob
    <2>3. Keeps(Recon!NoBook, bill)
      BY DEF Keeps, Recon!NoBook
    <2> HIDE DEF j
    <2> QED BY <1>3, <1>4, <1>5, <1>6, <2>1, <2>2, <2>3, NoListIsListed, RunGoesOn
  <1> QED BY <1>7, <1>8, <1>9, <1>10

LEMMA SaveKeeps ==
  ASSUME RunInv, NEW m \in ReconRuns, NEW ends \in {"COMPLETED", "FAILED"},
         NEW more \in SUBSET Recon!ReconciliationException, Recon!Save(m, ends, job[m].found \cup more),
         UNCHANGED <<item, bill>>, failures' \in Nat, failures' = 0 => failures = 0,
         \A e \in more : ~e.healed /\ (failures' = 0 => e.type # "RECORDED_PAID_NOT_AT_GATEWAY")
  PROVE  RunInv'
  <1> USE DEF RunInv, RunTypes
  <1> DEFINE j == [job[m] EXCEPT !.pc = "over", !.found = {}]
             r == [run[m] EXCEPT !.status = ends, !.exceptions = job[m].found \cup more]
  <1>1. job' = [job EXCEPT ![m] = j] /\ run' = [run EXCEPT ![m] = r]
    BY DEF Recon!Save, Recon!Goes
  <1>2. job[m] \in RunJob /\ run[m] \in Recon!PaymentReconciliationRun /\ run[m].key = "daily" =>
        \A n \in ReconRuns : run[n].key = "daily" => n = m
    BY DEF OneDaily
  <1>3. /\ j \in RunJob /\ j.todo = job[m].todo /\ j.list = job[m].list /\ j.doc = job[m].doc
        /\ j.seen = job[m].seen /\ j.lost = job[m].lost /\ j.found = {}
    BY DEF RunJob
  <1>4. r \in Recon!PaymentReconciliationRun /\ r.exceptions = job[m].found \cup more /\ r.key = run[m].key
    <2>1. job[m].found \in SUBSET Recon!ReconciliationException /\ run[m] \in Recon!PaymentReconciliationRun
      BY DEF RunJob
    <2> QED BY <2>1 DEF Recon!PaymentReconciliationRun, Recon!ReconciliationRunStatus
  <1>5. /\ job[m].todo \subseteq DOMAIN job[m].list /\ Keeps(job[m].doc, bill)
        /\ \A x \in DOMAIN job[m].list : MovesOn(job[m].list[x], item[x])
    BY DEF ListsAreWhole, CopiesAreOld
  <1>6. r.key = "daily" => \A n \in ReconRuns : run[n].key = "daily" => n = m
    BY <1>4 DEF OneDaily
  <1> HIDE DEF j, r
  <1> QED BY <1>1, <1>3, <1>4, <1>5, <1>6, RunGoesOn

LEMMA CheckRecordedKeeps ==
  ASSUME PaymentsAreNamed, RunInv, NEW m \in ReconRuns, Recon!CheckRecorded(m)
  PROVE  RunInv'
  <1> USE DEF RunInv, RunTypes
  <1>1. PICK fetched \in BOOLEAN :
          /\ IF fetched THEN UNCHANGED failures ELSE failures' = failures + 1
          /\ Recon!Save(m, "COMPLETED", job[m].found \cup Recon!Missing(m, fetched))
    BY DEF Recon!CheckRecorded
  <1>2. Recon!Missing(m, fetched) \in SUBSET Recon!ReconciliationException
    BY DEF Recon!Missing, Recon!ReconciliationException, Recon!ReconciliationExceptionType
  <1>3. \A e \in Recon!Missing(m, fetched) : ~e.healed /\ ~fetched
    BY DEF Recon!Missing, PaidIsCaptured
  <1>4. failures' \in Nat /\ (failures' = 0 => failures = 0) /\ (~fetched => failures' # 0)
    BY <1>1
  <1>5. UNCHANGED <<item, bill>>
    BY DEF Recon!CheckRecorded
  <1> QED BY <1>1, <1>2, <1>3, <1>4, <1>5, SaveKeeps

LEMMA ListFailsKeeps ==
  ASSUME RunInv, NEW m \in ReconRuns, Recon!ListFails(m)
  PROVE  RunInv'
  <1>1. Recon!Save(m, "FAILED", job[m].found \cup {}) /\ UNCHANGED <<item, bill>>
    BY DEF Recon!ListFails
  <1>2. failures' \in Nat /\ (failures' = 0 => failures = 0)
    BY DEF Recon!ListFails, RunInv, RunTypes
  <1>3. {} \in SUBSET Recon!ReconciliationException /\ "FAILED" \in {"COMPLETED", "FAILED"}
    OBVIOUS
  <1>4. \A e \in {} : ~e.healed /\ (failures' = 0 => e.type # "RECORDED_PAID_NOT_AT_GATEWAY")
    OBVIOUS
  <1> QED BY <1>1, <1>2, <1>3, <1>4, SaveKeeps

-----------------------------------------------------------------------------
\* What a comparison leaves: the bill it applied the item to, and what it says of the item.
LEMMA ComparedKeeps ==
  ASSUME PaymentsAreNamed, RunInv, NEW m \in ReconRuns, NEW x \in job[m].todo
  PROVE  /\ Recon!Compared(m, x) \in Recon!Book /\ Keeps(bill, Recon!Compared(m, x))
         /\ Recon!Captured(job[m].list[x]) => x = Recon!Compared(m, x).paid \/
            x \in Recon!Compared(m, x).dups
  <1> USE DEF RunInv, RunTypes
  <1> DEFINE doc == job[m].doc
             word == job[m].list[x]
  <1>1. x \in Recon!Items /\ doc \in Recon!Book /\ Keeps(doc, bill)
    BY DEF RunJob, CopiesAreOld
  <1>2. Keeps(bill, bill)
    BY DEF Keeps
  <1>3. CASE Recon!Applies(m, x)
    <2>1. Recon!Compared(m, x) = Recon!Applied(doc, x, word)
      BY <1>3 DEF Recon!Compared
    <2> QED BY <1>1, <2>1, AppliedKeeps
  <1>4. CASE ~Recon!Applies(m, x)
    <2>1. Recon!Compared(m, x) \in {Recon!Synced(bill), bill}
      BY <1>4 DEF Recon!Compared
    <2>2. Recon!Captured(word) => x = doc.paid \/ x \in doc.dups
      BY <1>4 DEF Recon!Applies
    <2>3. Recon!Captured(word) => x = bill.paid \/ x \in bill.dups
      BY <1>1, <2>2, RecordedStays
    <2> QED BY <1>2, <2>1, <2>3, SyncedKeeps
  <1> QED BY <1>3, <1>4

LEMMA FoundIsOfTheItem ==
  ASSUME NEW m \in ReconRuns, NEW x \in Recon!Items, NEW after
  PROVE  /\ Recon!Found(m, x, after) \in SUBSET Recon!ReconciliationException
         /\ \A e \in Recon!Found(m, x, after) : e.item = x /\ e.type # "RECORDED_PAID_NOT_AT_GATEWAY"
  <1> DEFINE Is(type, healed) == {[item |-> x, type |-> type, healed |-> healed]}
             one == (job[m].list[x] = "refunded") = (x \in after.refunds)
             two == x \in after.dups
             three == after.paid # Recon!None
             four == job[m].doc.paid = Recon!None /\ after.paid = x
  <1>1. one \in BOOLEAN /\ two \in BOOLEAN /\ three \in BOOLEAN /\ four \in BOOLEAN
    OBVIOUS
  <1>2. Recon!Found(m, x, after) \in {{}, Is("REFUND_MISMATCH", one), Is("UNTRACKED_DUPLICATE", two),
                                Is("GATEWAY_PAID_NOT_RECORDED", three),
                                Is("AUTHORIZED_NOT_CAPTURED", four)}
    BY DEF Recon!Found
  <1> HIDE DEF one, two, three, four
  <1> QED BY <1>1, <1>2 DEF Recon!ReconciliationException, Recon!ReconciliationExceptionType

LEMMA FoundHeals ==
  ASSUME PaymentsAreNamed, RunInv, NEW m \in ReconRuns, NEW x \in job[m].todo,
         NEW e \in Recon!Found(m, x, Recon!Compared(m, x))
  PROVE  Heals(e, Recon!Compared(m, x))
  <1> USE DEF RunInv, RunTypes
  <1> DEFINE doc == job[m].doc
             word == job[m].list[x]
             after == Recon!Compared(m, x)
  <1>1. /\ x \in Recon!Items /\ doc \in Recon!Book /\ Keeps(doc, bill) /\ after \in Recon!Book /\
           Keeps(bill, after)
        /\ Recon!Captured(word) => x = after.paid \/ x \in after.dups
    BY ComparedKeeps DEF RunJob, CopiesAreOld
  <1>2. e.item = x
    BY <1>1, FoundIsOfTheItem
  <1> HIDE DEF after
  <1>3. CASE Recon!Captured(word) /\ doc.paid = x
    <2>1. e.type = "REFUND_MISMATCH" /\ (word = "refunded") # (x \in bill.refunds)
      BY <1>3 DEF Recon!Found, after
    <2> DEFINE one == (word = "refunded") = (x \in after.refunds)
    <2>4. e \in {[item |-> x, type |-> "REFUND_MISMATCH", healed |-> one]}
      BY <1>3 DEF Recon!Found, after
    <2>5. one \in BOOLEAN
      OBVIOUS
    <2>2. e.healed => one
      <3> HIDE DEF one
      <3> QED BY <2>4, <2>5
    <2>3. e.healed => x \in after.refunds
      BY <1>1, <2>1, <2>2 DEF Keeps
    <2> QED BY <1>1, <1>2, <1>3, <2>3 DEF Heals, after
  <1>4. CASE Recon!Captured(word) /\ doc.paid # x
    <2>1. e.type # "REFUND_MISMATCH"
      BY <1>4 DEF Recon!Found
    <2> QED BY <1>1, <1>2, <1>4, <2>1 DEF Heals, after
  <1>5. CASE ~Recon!Captured(word)
    <2>1. e.type # "REFUND_MISMATCH"
      BY <1>5 DEF Recon!Found
    <2> DEFINE four == doc.paid = Recon!None /\ after.paid = x
    <2>3. e \in {[item |-> x, type |-> "AUTHORIZED_NOT_CAPTURED", healed |-> four]}
      BY <1>5 DEF Recon!Found, after
    <2>4. four \in BOOLEAN
      OBVIOUS
    <2>5. e.healed => four
      <3> HIDE DEF four
      <3> QED BY <2>3, <2>4
    <2>2. e.healed => after.paid = x
      BY <2>5
    <2> QED BY <1>2, <2>1, <2>2 DEF Heals, after
  <1> QED BY <1>3, <1>4, <1>5

LEMMA CompareKeeps ==
  ASSUME PaymentsAreNamed, RunInv, NEW m \in ReconRuns, NEW x \in Recon!Items, Recon!Compare(m, x)
  PROVE  RunInv'
  <1> USE DEF RunInv, RunTypes
  <1> DEFINE doc == job[m].doc
             word == job[m].list[x]
             found == Recon!Found(m, x, Recon!Compared(m, x))
             j == [job[m] EXCEPT !.todo = @ \ {x},
                                 !.seen = IF Recon!Captured(word) THEN @ \cup {x} ELSE @,
                                 !.found = @ \cup found]
  <1>1. /\ x \in job[m].todo /\ bill' = Recon!Compared(m, x) /\ job' = [job EXCEPT ![m] = j]
        /\ UNCHANGED <<run, failures>>
        /\ IF Recon!Applies(m, x) THEN Recon!Capture(doc, x, word) ELSE UNCHANGED item
    BY DEF Recon!Compare, Recon!Goes
  <1>2. /\ job[m] \in RunJob /\ doc \in Recon!Book /\ Keeps(doc, bill) /\ MovesOn(word, item[x])
        /\ job[m].todo \subseteq DOMAIN job[m].list
    <2>1. job[m] \in RunJob
      OBVIOUS
    <2>2. doc \in Recon!Book
      BY <2>1 DEF RunJob
    <2>3. Keeps(doc, bill) /\ \A y \in DOMAIN job[m].list : MovesOn(job[m].list[y], item[y])
      BY DEF CopiesAreOld
    <2>4. job[m].todo \subseteq DOMAIN job[m].list
      BY DEF ListsAreWhole
    <2> QED BY <1>1, <2>1, <2>2, <2>3, <2>4
  <1>3. /\ bill' \in Recon!Book /\ Keeps(bill, bill')
        /\ Recon!Captured(word) => x = bill'.paid \/ x \in bill'.dups
    BY <1>1, ComparedKeeps
  <1>4. /\ item' \in [Recon!Items -> Recon!PaymentsSeen] /\ PaidIsCaptured'
        /\ \A y \in Recon!Items : item[y] # Recon!None => MovesOn(item[y], item'[y])
    <2>1. CASE Recon!Applies(m, x)
      <3>1. bill' = Recon!Applied(doc, x, word) /\ Recon!Capture(doc, x, word)
        BY <1>1, <2>1 DEF Recon!Compared
      <3> QED BY <1>2, <3>1, AppliedIsCaptured
    <2>2. CASE ~Recon!Applies(m, x)
      <3>1. item' = item /\ Recon!Compared(m, x) \in {Recon!Synced(bill), bill}
        BY <1>1, <2>2 DEF Recon!Compared
      <3>2. bill'.paid = bill.paid
        BY <1>1, <3>1, SyncedKeeps
      <3> QED BY <3>1, <3>2 DEF PaidIsCaptured, MovesOn
    <2> QED BY <2>1, <2>2
  <1>5. /\ found \in SUBSET Recon!ReconciliationException
        /\ \A e \in found : Heals(e, bill') /\ e.type # "RECORDED_PAID_NOT_AT_GATEWAY"
    BY <1>1, FoundIsOfTheItem, FoundHeals
  <1> HIDE DEF found
  <1>6. /\ j \in RunJob /\ j.todo \subseteq job[m].todo /\ j.list = job[m].list /\ j.doc = doc
        /\ j.seen \subseteq job[m].seen \cup {x} /\ (x \in j.seen \ job[m].seen => Recon!Captured(word))
        /\ j.lost = job[m].lost /\ j.found = job[m].found \cup found
    <2>1. job[m].found \cup found \in SUBSET Recon!ReconciliationException
      BY <1>2, <1>5 DEF RunJob
    <2> QED BY <1>2, <2>1 DEF RunJob
  <1> HIDE DEF j
  <1>7. job'[m] = j /\ \A n \in ReconRuns : n # m => job'[n] = job[n]
    BY <1>1
  <1>8. RunTypes'
    BY <1>1, <1>3, <1>4, <1>6
  <1>9. ListsAreWhole'
    BY <1>2, <1>6, <1>7 DEF ListsAreWhole
  <1>10. CopiesAreOld'
    <2> SUFFICES ASSUME NEW n \in ReconRuns
                 PROVE  /\ Keeps(job'[n].doc, bill')
                        /\ \A y \in DOMAIN job'[n].list : MovesOn(job'[n].list[y], item'[y])
      BY DEF CopiesAreOld
    <2>1. job'[n].doc = job[n].doc /\ job'[n].list = job[n].list
      BY <1>6, <1>7
    <2>2. /\ job[n].doc \in Recon!Book /\ Keeps(job[n].doc, bill) /\
             DOMAIN job[n].list \subseteq Recon!Items
          /\ \A y \in DOMAIN job[n].list : MovesOn(job[n].list[y], item[y])
      BY DEF CopiesAreOld, RunJob, Listed
    <2>3. Keeps(job[n].doc, bill')
      BY <1>3, <2>2, KeepsOn
    <2> QED BY <1>4, <2>1, <2>2, <2>3, MovesOnOn
  <1>11. SeenAreRecorded'
    <2> SUFFICES ASSUME NEW n \in ReconRuns, NEW y \in job'[n].seen \ job'[n].lost
                 PROVE  y = bill'.paid \/ y \in bill'.dups
      BY DEF SeenAreRecorded, Recon!Recorded
    <2>1. CASE y \in job[n].seen \ job[n].lost
      <3>1. y \in Recon!Items /\ (y = bill.paid \/ y \in bill.dups)
        BY <2>1 DEF RunJob, SeenAreRecorded, Recon!Recorded
      <3> QED BY <1>3, <3>1, RecordedStays
    <2>2. CASE n = m /\ y \notin job[m].seen
      BY <1>3, <1>6, <1>7, <2>2
    <2> QED BY <1>6, <1>7, <2>1, <2>2
  <1>12. FindsAreTrue'
    <2> SUFFICES ASSUME NEW n \in ReconRuns, NEW e \in job'[n].found \cup run[n].exceptions
                 PROVE  /\ e.item \notin job'[n].lost => Heals(e, bill')
                        /\ failures = 0 => e.type # "RECORDED_PAID_NOT_AT_GATEWAY"
      BY <1>1 DEF FindsAreTrue, Heals
    <2>1. CASE e \in job[n].found \cup run[n].exceptions
      <3>1. /\ e \in Recon!ReconciliationException
            /\ e.item \notin job[n].lost => Heals(e, bill)
            /\ failures = 0 => e.type # "RECORDED_PAID_NOT_AT_GATEWAY"
        BY <2>1 DEF FindsAreTrue, RunJob, Recon!PaymentReconciliationRun
      <3>2. job'[n].lost = job[n].lost
        BY <1>6, <1>7
      <3> QED BY <1>3, <3>1, <3>2, RecordedStays
    <2>2. CASE n = m /\ e \in found
      BY <1>5, <2>2
    <2> QED BY <1>6, <1>7, <2>1, <2>2
  <1>13. OneDaily'
    BY <1>1 DEF OneDaily
  <1> QED BY <1>4, <1>8, <1>9, <1>10, <1>11, <1>12, <1>13

LEMMA CompareFailsKeeps ==
  ASSUME PaymentsAreNamed, RunInv, NEW m \in ReconRuns, NEW x \in Recon!Items, Recon!CompareFails(m, x)
  PROVE  RunInv'
  <1> USE DEF RunInv, RunTypes
  <1> DEFINE doc == job[m].doc
             word == job[m].list[x]
             found == Recon!Found(m, x, bill)
             j == [job[m] EXCEPT !.todo = @ \ {x}, !.lost = @ \cup {x},
                                 !.seen = IF Recon!Captured(word) THEN @ \cup {x} ELSE @,
                                 !.found = @ \cup found]
  <1>1. /\ x \in job[m].todo /\ job' = [job EXCEPT ![m] = j] /\ failures' = failures + 1
        /\ UNCHANGED <<item, bill, run>>
    BY DEF Recon!CompareFails, Recon!Goes
  <1>2. job[m] \in RunJob /\ job[m].todo \subseteq DOMAIN job[m].list
    BY DEF ListsAreWhole
  <1>3. /\ found \in SUBSET Recon!ReconciliationException
        /\ \A e \in found : e.item = x /\ e.type # "RECORDED_PAID_NOT_AT_GATEWAY"
    BY FoundIsOfTheItem
  <1> HIDE DEF found
  <1>4. /\ j \in RunJob /\ j.todo \subseteq job[m].todo /\ j.list = job[m].list /\ j.doc = doc
        /\ j.seen \subseteq job[m].seen \cup {x}
        /\ j.lost = job[m].lost \cup {x} /\ j.found = job[m].found \cup found
    <2>1. job[m].found \cup found \in SUBSET Recon!ReconciliationException
      BY <1>2, <1>3 DEF RunJob
    <2> QED BY <1>2, <2>1 DEF RunJob
  <1> HIDE DEF j
  <1>5. job'[m] = j /\ \A n \in ReconRuns : n # m => job'[n] = job[n]
    BY <1>1
  <1>6. RunTypes'
    BY <1>1, <1>4
  <1>7. ListsAreWhole' /\ CopiesAreOld' /\ PaidIsCaptured' /\ OneDaily'
    <2>1. ListsAreWhole'
      BY <1>2, <1>4, <1>5 DEF ListsAreWhole
    <2>2. CopiesAreOld'
      BY <1>1, <1>4, <1>5 DEF CopiesAreOld
    <2>3. PaidIsCaptured' /\ OneDaily'
      BY <1>1 DEF PaidIsCaptured, OneDaily
    <2> QED BY <2>1, <2>2, <2>3
  <1>8. SeenAreRecorded'
    BY <1>1, <1>4, <1>5 DEF SeenAreRecorded, Recon!Recorded
  <1>9. FindsAreTrue'
    <2> SUFFICES ASSUME NEW n \in ReconRuns, NEW e \in job'[n].found \cup run[n].exceptions
                 PROVE  e.item \notin job'[n].lost => Heals(e, bill)
      BY <1>1 DEF FindsAreTrue, Heals
    <2>1. CASE e \in job[n].found \cup run[n].exceptions
      BY <1>4, <1>5, <2>1 DEF FindsAreTrue
    <2>2. CASE n = m /\ e \in found
      BY <1>3, <1>4, <1>5, <2>2
    <2> QED BY <1>4, <1>5, <2>1, <2>2
  <1> QED BY <1>6, <1>7, <1>8, <1>9

LEMMA RunStep ==
  ASSUME PaymentsAreNamed
  PROVE  RunInv /\ [Recon!Next]_(Recon!reconciliationVars) => RunInv'
  <1> SUFFICES ASSUME RunInv, [Recon!Next]_(Recon!reconciliationVars) PROVE RunInv'
    OBVIOUS
  <1>1. ASSUME NEW x \in Recon!Items, Recon!Pay(x) \/ Recon!Refund(x) \/ Recon!Webhook(x) PROVE RunInv'
    BY <1>1, PayKeeps, WebhookKeeps
  <1>2. CASE Recon!PayCash
    BY <1>2, PayCashKeeps
  <1>3. ASSUME NEW m \in ReconRuns, Recon!Ask(m) \/ Recon!Start(m) \/ Recon!CheckDaily(m) \/ Recon!EnsureDailyRun(m)
        PROVE  RunInv'
    BY <1>3, StartKeeps
  <1>4. ASSUME NEW m \in ReconRuns, Recon!GrowsStale(m) PROVE RunInv'
    BY <1>4, GrowsStaleKeeps
  <1>5. ASSUME NEW m \in ReconRuns, Recon!ListPage(m) \/ Recon!FindBills(m) \/ Recon!NextPage(m)
        PROVE  RunInv'
    BY <1>5, ReadKeeps
  <1>6. ASSUME NEW m \in ReconRuns, Recon!CheckRecorded(m) \/ Recon!ListFails(m) PROVE RunInv'
    BY <1>6, CheckRecordedKeeps, ListFailsKeeps
  <1>7. ASSUME NEW m \in ReconRuns, NEW x \in Recon!Items, Recon!Compare(m, x) \/ Recon!CompareFails(m, x)
        PROVE  RunInv'
    BY <1>7, CompareKeeps, CompareFailsKeeps
  <1>8. CASE UNCHANGED Recon!reconciliationVars
    BY <1>8 DEF Recon!reconciliationVars, RunInv, RunTypes, ListsAreWhole, CopiesAreOld, PaidIsCaptured,
       SeenAreRecorded, Recon!Recorded, FindsAreTrue, Heals, OneDaily
  <1> QED BY <1>1, <1>2, <1>3, <1>4, <1>5, <1>6, <1>7, <1>8 DEF Recon!Next

LEMMA RunsAreCounted == ASSUME NEW S PROVE Recon!Cardinality(S) = Cardinality(S)
  BY DEF Recon!Cardinality, Cardinality

LEMMA RunShows ==
  ASSUME RunInv
  PROVE  /\ Recon!TypeOK /\ Recon!NothingGoesUnnoticed /\ Recon!HealedIsRecorded /\
            Recon!PaidIsNotMissing /\ Recon!OneDailyRun
  <1> USE DEF RunInv, RunTypes
  <1>1. Recon!TypeOK
    BY DEF Recon!TypeOK, RunJob
  <1>2. Recon!NothingGoesUnnoticed
    BY DEF Recon!NothingGoesUnnoticed, SeenAreRecorded
  <1>3. Recon!HealedIsRecorded
    BY DEF Recon!HealedIsRecorded, FindsAreTrue, Heals, Recon!Recorded
  <1>4. Recon!PaidIsNotMissing
    BY DEF Recon!PaidIsNotMissing, FindsAreTrue
  <1>5. Recon!OneDailyRun
    <2> DEFINE D == {m \in ReconRuns : run[m].key = "daily"}
    <2>1. \A m, n \in D : m = n
      BY DEF OneDaily
    <2>2. Cardinality(D) <= 1
      <3> HIDE DEF D
      <3>1. CASE D = {}
        BY <3>1, FS_EmptySet
      <3>2. CASE D # {}
        <4>1. PICK m \in D : TRUE
          BY <3>2
        <4>2. D = {m}
          BY <2>1, <4>1
        <4>3. Cardinality({m}) = 1
          BY FS_Singleton
        <4> QED BY <4>2, <4>3
      <3> QED BY <3>1, <3>2
    <2> QED BY <2>2, RunsAreCounted DEF Recon!OneDailyRun
  <1> QED BY <1>1, <1>2, <1>3, <1>4, <1>5

-----------------------------------------------------------------------------
Off == "off"   \* the state of the services this behaviour is not of

\* Of two requests that differ by name only and both rest, the first begins: renaming the
\* requests from there on gives the behaviours in which the second does.
InTurn(of, a, b) == of[a].pc = "idle" /\ of[b].pc = "idle" => of'[b].pc = "idle"

\* The provider lists its payments on one page.
OnePage == <<{"x1", "x2"}>>

PromoUser == [r \in {"r1", "r2", "r3"} |-> IF r = "r3" THEN "u2" ELSE "u1"]

NetOf3 == [l \in {"l1", "l2", "l3"} |-> CASE l = "l1" -> 3 [] l = "l2" -> 2 [] l = "l3" -> 1]

\* A fee from the second minute on, capped by the fare, and one of a late status only.
FeeRules ==
  {[enabled |-> TRUE, grace |-> 1, fixed |-> 10, percent |-> 10, max |-> 0,
    statuses |-> {"DRIVER_ACCEPTED", "DRIVER_ARRIVED"}],
   [enabled |-> TRUE, grace |-> 0, fixed |-> 40, percent |-> 0, max |-> 30,
    statuses |-> {"DRIVER_ARRIVED"}]}

\* A bound: the trip is measured on the way to the first stop and after the last, unless a stop was
\* blocked; one driver command is in flight then, and completes it (a stop command reads and writes
\* nothing the monitor writes; two that complete it cross before).
OneSide ==
  \/ travelled = 0 /\ \A m \in {"m1", "m2"} : monitor[m].pc = "idle"
  \/ /\ command["c1"].pc \in {"idle", "FINISH", "RELEASE"} /\ command["c2"].pc = "idle"
     /\ reports = 0 /\ (current > 3 \/ stop[1] = "ARRIVING")

\* Prices and keys are names: the first price asked for, and the first key used, are the first.
InOrder ==
  /\ packageStatus = "DRAFT" /\ priced["cab"] = 0 /\ (\A a \in {"a1", "a2"} : packageDesk[a].priced["cab"] = 0)
     => \A a \in {"a1", "a2"} : packageDesk'[a].priced["cab"] < 2
  /\ circuits = {} /\ (\A b \in {"b1", "b2"} : booker[b].pc = "idle")
     => \A b \in {"b1", "b2"} : booker'[b].pc = "insert" => booker'[b].key = "k1"

\* A bound: at most two requests about the package are in flight together.
TwoRequests ==
  Cardinality({a \in {"a1", "a2"} : packageDesk[a].pc # "idle"})
    + Cardinality({b \in {"b1", "b2"} : booker[b].pc # "idle"}) <= 2

\* A bound, of a part theorems cover: after a failure two customers' bookings no longer meet.
OneCustomer == promoFailures > 0 => booking["r3"] = "new"

\* A bound, of a part a theorem covers: after a failure, or an SOS, the handlers run one by one.
OneAfterAFailure == codeFailures > 0 \/ sosOpen => \A p, q \in {"p1", "p2"} : attempt[p].pc # "idle" /\ attempt[q].pc # "idle" => p = q

\* A bound, of a part a theorem covers: one run compares while the other lists, the second payment
\* is made after the first and to a bill not paid in cash, the second run is asked for after the first, when nothing has failed, and
\* beside a second run or a failure there is one payment.
OneAtWork ==
  /\ Cardinality({m \in {"m1", "m2"} :
                     \/ job[m].pc \in {"find", "compare", "recorded"}
                     \/ job[m].page > 1
                     \/ run[m].status \in {"COMPLETED", "FAILED"}}) <= 1
  /\ item["x1"] = "none" \/ bill.paid = "cash" => item["x2"] = "none"
  /\ run["m1"].status = "none" \/ failures > 0 => run["m2"].status = "none"
  /\ run["m2"].status # "none" \/ failures > 0 => item["x2"] = "none"

\* A restart is followed on the approach only; the driver finishes without asking for a code, and
\* goes offline with one checkpoint at most behind (who is offline has no use for them).
EarlyRestart ==
  /\ trackTrip.endAt = -1 /\ (tally.boot > 0 => trackTrip.status = "DRIVER_ACCEPTED")
  /\ measured.done => Len(points) <= 1

\* The fixes of the trip itself, by REST, each handled in the tick it arrives in, until it is measured.
OnTheTrip ==
  /\ trackTrip.status \in {"DRIVER_ACCEPTED", "DRIVER_ARRIVED"} => trackNow = 0 /\ tally.fixes = 0
  /\ store.accepted = -1 /\ ~measured.done
  /\ ingest["f1"].pc = "idle" \/ ingest["f1"].at = trackNow

Peak(name, start, end, hike, types) ==
  [name |-> name, start |-> start, end |-> end, hike |-> hike, types |-> types]
Peaks1 == {Peak("night", 2, 1, 50, {})}
Peaks2 == Peaks1 \cup {Peak("dawn", 0, 1, 20, {"auto"})}
Peaks4 ==
  {Peak("night", 3, 1, 50, {}), Peak("dawn", 0, 1, 20, {"auto"}), Peak("noon", 1, 3, 12, {"cab"}),
   Peak("noon", 2, 0, 30, {"auto"})}
Tariff1 == [base |-> 3000, perKm |-> 1850, perMinute |-> 100, minimum |-> 5000]
Tariff2 == [base |-> 2500, perKm |-> 1400, perMinute |-> 150, minimum |-> 4000]
Trip1 == [metres |-> 3333, seconds |-> 610]
Trip2 == [metres |-> 5000, seconds |-> 1200]

\* Until the first trip is billed, with the tariff edited before the slots.
TariffFirst ==
  /\ \A b \in {"b1", "b2"} : peakBooking[b].pc # "completed"
  /\ Len(tariffs) > 1 => writes = 0

Unbooked ==
  [status |-> "none", requestedAt |-> -1, endedAt |-> -1, left |-> "none", by |-> "none",
   recorded |-> FALSE, fee |-> "none", bill |-> "none", gateway |-> "none", paidAt |-> -1,
   refunded |-> 0, refundedAt |-> -1, paid |-> FALSE, credited |-> FALSE, promo |-> "none"]
Riding == [Unbooked EXCEPT !.status = "RIDE_STARTED", !.requestedAt = 2, !.promo = "RESERVED"]
Ridden == [Unbooked EXCEPT !.status = "COMPLETED", !.requestedAt = 0, !.endedAt = 2]
Settled ==
  [Ridden EXCEPT !.bill = "CAPTURED", !.gateway = "RAZORPAY", !.paidAt = 2, !.paid = TRUE,
                 !.credited = TRUE]
Dropped ==
  [Unbooked EXCEPT !.status = "CANCELLED", !.requestedAt = 1, !.endedAt = 2, !.by = "CUSTOMER",
                   !.left = "DRIVER_ACCEPTED"]
ReportBooks == {<<Riding, Ridden>>, <<Unbooked, Settled>>, <<Riding, Dropped>>}

\* The third write of a behaviour comes before a report is asked for or after it was answered.
TwoMeanwhile == bookWrites < 3 \/ report.pc # "open" \/ report.quiet

LiveStarts ==
  {[status |-> "SEARCHING", driver |-> "none"]}
    \cup [status : {"DRIVER_ACCEPTED", "RIDE_STARTED"}, driver : {"d1"}]

\* One of the two apps connects, and at most one thing fails, after that.
OneApp ==
  /\ \E s \in {"s1", "s2"} : socket[s].pc = "off" /\ app[s].version = 0
  /\ count.restarts + count.failures <= (IF count.connects > 0 THEN 1 ELSE 0)
  /\ count.connects = 2 => liveRide.version > 1 /\ \A s \in {"s1", "s2"} : socket[s].pc # "asked"

\* Quotes and polls of the approach, while the provider is in trouble.
OnTheApproach == routeTrip.status = "DRIVER_ACCEPTED"

PlaceAt(name, at) == [name |-> name, at |-> at]
Curated ==
  [g |-> <<PlaceAt("Gokul", 0), PlaceAt("Govardhan", 9)>>, gok |-> <<PlaceAt("Gokul", 0)>>]
ProviderLists ==
  [gok |-> {<<PlaceAt("Gokul", 4), PlaceAt("Gokul Road", 8), PlaceAt("Gokul", 30)>>,
            <<PlaceAt("Gokul", -1000), PlaceAt("Gokul Barrage", 1)>>}]
PlaceCell(at) == at \div 10

PlacePhotos ==
  [v1 |-> [bytes |-> 10, width |-> 800, height |-> 500],
   v2 |-> [bytes |-> 20, width |-> 400, height |-> 400],
   v3 |-> [bytes |-> 20, width |-> 400, height |-> 600]]
PhotoRule == [bytes |-> 20, width |-> 320, height |-> 200, minAspect |-> 40, maxAspect |-> 110]

\* The rows of the release before, and none.
OldRow(kind) == [kind |-> kind, slot |-> "none", label |-> "none", address |-> 0]
SavedStarts ==
  {[rows |-> 1 :> OldRow("home"), indexes |-> {"legacy"}], [rows |-> <<>>, indexes |-> {}]}

Square(at, side) ==
  <<<<at, at>>, <<at + side, at>>, <<at + side, at + side>>, <<at, at + side>>>>
TwoSquares == {Square(0, 2), Square(1, 2)}
\* Every outline of four points of a grid up to its place, and some that repeat a point, run back
\* along an edge, leave the globe or have a point too many.
Outlines ==
  {ring \in [1..4 -> (0..2) \X (0..2)] : ring[1] \in {<<0, 0>>, <<1, 0>>, <<1, 1>>}}
    \cup {<<<<0, 0>>, <<2, 0>>, <<1, 0>>, <<3, 0>>, <<3, 1>>>>, <<<<0, 0>>, <<0, 0>>, <<2, 0>>, <<2, 2>>, <<0, 0>>>>,
          <<<<0, 0>>, <<181, 0>>, <<0, 1>>>>, <<<<0, 0>>, <<2, 0>>, <<3, 1>>, <<2, 2>>, <<0, 2>>>>}

CircuitHours(opens, closes) ==
  [from |-> 0, until |-> 1, days |-> {0}, opensAt |-> opens, closesAt |-> closes]
CircuitWith(circuitStatus, legacy, types, prices, hours) ==
  [status |-> circuitStatus, legacy |-> legacy, rideTypes |-> types, prices |-> prices, allowance |-> TRUE,
   maxPassengers |-> 3, hours |-> hours, cover |-> "none"]
CircuitTypes == [auto |-> [active |-> TRUE, seats |-> 2], cab |-> [active |-> TRUE, seats |-> 4]]
\* Packages of the release before: one with a vehicle that is priced already, and a draft.
OnePrice ==
  {[packages |-> <<CircuitWith("ACTIVE", 5, {"auto", "cab"}, [cab |-> 7], CircuitHours(0, 2)),
                   CircuitWith("DRAFT", 6, {"cab"}, [none \in {} |-> 0], CircuitHours(2, 1))>>,
    rideTypes |-> CircuitTypes]}
\* A live circuit by night, one whose priced vehicle is no longer allowed, and a draft without an
\* allowance.
OwnPrices ==
  {[packages |-> <<circuit>>, rideTypes |-> CircuitTypes] :
     circuit \in {CircuitWith("ACTIVE", 0, {"auto", "cab"}, [cab |-> 7, auto |-> 4], CircuitHours(2, 1)),
                  CircuitWith("ACTIVE", 0, {"auto"}, [cab |-> 7], CircuitHours(0, 2)),
                  [CircuitWith("DRAFT", 0, {"auto"}, [auto |-> 7], CircuitHours(0, 2))
                     EXCEPT !.allowance = FALSE]}}
CircuitCovers ==
  [v1 |-> [bytes |-> 5, width |-> 640, height |-> 360], v2 |-> [bytes |-> 4, width |-> 700, height |-> 700],
   v3 |-> [bytes |-> 4, width |-> 700, height |-> 800]]
CircuitCoverRule ==
  [maxBytes |-> 5, minWidth |-> 640, minHeight |-> 360, minAspect |-> 40, maxAspect |-> 110]

StoredPair(pair, by) == [pair |-> pair, version |-> 1, by |-> by]
NotStored == [pair |-> <<0, 0>>, version |-> 0, by |-> "none"]
\* No ride type yet; one of an upgrade, without limits; one in service; and one with a row that was
\* spoilt by hand.
ConfigStarts ==
  {[type |-> "absent", tariff |-> FALSE, limits |-> NotStored, radii |-> NotStored],
   [type |-> "off", tariff |-> FALSE, limits |-> NotStored, radii |-> StoredPair(<<2, 1>>, "hand")],
   [type |-> "on", tariff |-> TRUE, limits |-> StoredPair(<<1, 4>>, "migration"),
    radii |-> StoredPair(<<2, 1>>, "migration")],
   [type |-> "on", tariff |-> TRUE, limits |-> StoredPair(<<1, 9>>, "hand"), radii |-> StoredPair(<<2, 1>>, "hand")]}

\* What the instances are given (a definition without parameters is evaluated once).
AtNode1 == [q \in {"q1", "q2"} |-> "n1"]
AtItsOwn == [q \in {"q1", "q2"} |-> q]
AtNode2 == [q \in {"q2"} |-> "n2"]
BookedAtNode1 == [b \in {"b1", "b2"} |-> "n1"]
SocketUsers == [s \in {"s1", "s2"} |-> IF s = "s1" THEN "customer" ELSE "d1"]
TwoAdmins == {"a1", "a2"}
OneAdmin == {"a1"}
TwoBookings == {"b1", "b2"}
OneBooking == {"b1"}
TwoCalls == {"c1", "c2"}
TwoQueries == {"q1", "q2"}
TwoFixes == {"f1", "f2"}
OneFix == {"f1"}
TwoHandlers == {"h1", "h2"}
TwoMonitors == {"m1", "m2"}
NodePair == {"n1", "n2"}
OneNode == {"n1"}
TwoPolls == {"p1", "p2"}
OnePoll == {"p1"}
OneQuery == {"q2"}
TwoSearches == {"r1", "r2"}
OneRide == {"r1"}
TwoSockets == {"s1", "s2"}
BothTypes == {"auto", "cab"}
AutoOnly == {"auto"}
TwoKeys == {"k1", "k2"}
ThreeLines == {"l1", "l2", "l3"}
FirstTwo == {1, 2}
FirstThree == {1, 2, 3}
FirstFour == {1, 2, 3, 4}
OnlyFirst == {1}

Circuit == INSTANCE CircuitRides WITH
  Commands <- TwoCalls, Admins <- OneAdmin, Monitors <- TwoMonitors, Stops <- 3, Included <- 2,
    Booked <- 1, MaxReports <- 1

PackageDesk == INSTANCE CircuitPackages WITH
  Admins <- TwoAdmins, Bookers <- TwoBookings, Vehicles <- {"cab"}, Prices <- FirstTwo,
    Keys <- TwoKeys, MIN_STOPS <- 2, MaxEdits <- 2, MaxBookings <- 2, status <- packageStatus,
    desk <- packageDesk

Moving == INSTANCE CircuitCatalogue WITH
  Packages <- FirstTwo, Vehicles <- BothTypes, Nodes <- NodePair, Starts <- OnePrice,
    Prices <- {9}, Covers <- CircuitCovers, CoverRule <- CircuitCoverRule, Admins <- {},
    Creators <- TwoCalls, DAY <- 3, WEEK <- 2, MaxAttempts <- 3, MaxEdits <- 1,
    MaxCrashes <- 1, MaxTime <- 0, package <- circuitOf, rideType <- vehicleOf, node <- instance,
    desk <- catalogueDesk, record <- lastRecord, counter <- codeCounter, now <- clock,
    edits <- catalogueEdits, crashes <- instanceCrashes

Offers == INSTANCE CircuitCatalogue WITH
  Packages <- OnlyFirst, Vehicles <- BothTypes, Nodes <- OneNode, Starts <- OwnPrices,
    Prices <- {9}, Covers <- CircuitCovers, CoverRule <- CircuitCoverRule, Admins <- TwoAdmins,
    Creators <- {}, DAY <- 3, WEEK <- 2, MaxAttempts <- 3, MaxEdits <- 2, MaxCrashes <- 0,
    MaxTime <- 6, package <- circuitOf, rideType <- vehicleOf, node <- instance,
    desk <- catalogueDesk, record <- lastRecord, counter <- codeCounter, now <- clock,
    edits <- catalogueEdits, crashes <- instanceCrashes

RateDesk == INSTANCE Earnings WITH
  Rides <- OneRide, Lines <- {}, Net <- <<>>, Adjs <- {}, Owed <- <<>>, Payouts <- {}, Asked <- {},
    Admins <- TwoAdmins, Rates <- {15, 20}, Tolerance <- 1, Boot <- 1, MaxTime <- 2, MaxVersions <- 3,
    Gross <- {0, 1, 3, 10, 33, 35050}

PayoutDesk == INSTANCE Earnings WITH
  Rides <- {}, Admins <- {}, Rates <- {15}, Tolerance <- 0, Boot <- 0, MaxTime <- 0, MaxVersions <- 1,
    Gross <- {}, Lines <- ThreeLines, Net <- NetOf3, Adjs <- FirstTwo, Owed <- <<4, 1>>,
    Payouts <- TwoQueries, Asked <- {{"l1", "l2"}, {"l2", "l3"}, {"l1"}}

Fees == INSTANCE CancellationFees WITH
  Cancellers <- TwoCalls, Admins <- TwoAdmins, Rules <- FeeRules, Fare <- 155, MaxTime <- 1,
    MaxVersions <- 2, MaxCrashes <- 1, ride <- feeRide, desk <- feeDesk, now <- feeNow,
    tries <- feeTries

Following == INSTANCE ShareLinks WITH
  Links <- FirstTwo, Creators <- TwoCalls, Viewers <- {"v1"}, MAX_ACTIVE_LINKS_PER_RIDE <- 1,
    MaxHours <- 2, MaxTime <- 2, now <- linkNow

Fixed == INSTANCE Tracking WITH
  Fixes <- TwoFixes, Positions <- OnlyFirst, Pickup <- 1, MinInterval <- 1, MaxFixAge <- 1,
    StaleAfter <- 2, PersistInterval <- 1, PersistDistance <- 1, CheckpointInterval <- 1,
    MaxGap <- 2, MaxFixes <- 2, MaxRestarts <- 1, MaxTime <- 1, now <- trackNow, trip <- trackTrip

Trail == INSTANCE Tracking WITH
  Fixes <- OneFix, Positions <- {0, 1}, Pickup <- 1, MinInterval <- 1, MaxFixAge <- 2,
    StaleAfter <- 2, PersistInterval <- 2, PersistDistance <- 2, CheckpointInterval <- 1,
    MaxGap <- 2, MaxFixes <- 3, MaxRestarts <- 0, MaxTime <- 3, now <- trackNow, trip <- trackTrip

Peaks == INSTANCE Pricing WITH
  Slots <- FirstTwo, Requests <- TwoQueries, Nodes <- OneNode,
    NodeOf <- AtNode1, Bookings <- {}, BookedAt <- [b \in {} |-> "n1"],
    Drafts <- Peaks4, RideTypes <- BothTypes, Tariffs <- {Tariff1}, BookedTrip <- Trip1,
    ActualTrips <- {Trip1}, MaxEstimateMultiplier <- 150, RULES_CACHE <- 1, DAY <- 4,
    MaxWrites <- 3, MaxTime <- 0, now <- peakNow, booking <- peakBooking

TwoNodes == INSTANCE Pricing WITH
  Slots <- OnlyFirst, Requests <- TwoQueries, Nodes <- TwoQueries,
    NodeOf <- AtItsOwn, Bookings <- {}, BookedAt <- [b \in {} |-> "q1"],
    Drafts <- Peaks2, RideTypes <- AutoOnly, Tariffs <- {Tariff1}, BookedTrip <- Trip1,
    ActualTrips <- {Trip1}, MaxEstimateMultiplier <- 150, RULES_CACHE <- 1, DAY <- 3,
    MaxWrites <- 3, MaxTime <- 0, now <- peakNow, booking <- peakBooking

Fares == INSTANCE Pricing WITH
  Slots <- OnlyFirst, Requests <- OneQuery, Nodes <- NodePair, NodeOf <- AtNode2,
    Bookings <- TwoBookings, BookedAt <- BookedAtNode1, Drafts <- Peaks1,
    RideTypes <- AutoOnly, Tariffs <- {Tariff1, Tariff2}, BookedTrip <- Trip1,
    ActualTrips <- {Trip2}, MaxEstimateMultiplier <- 150, RULES_CACHE <- 1, DAY <- 3,
    MaxWrites <- 2, MaxTime <- 2, now <- peakNow, booking <- peakBooking

Configs == INSTANCE RideConfig WITH
  Nodes <- OneNode, Admins <- TwoAdmins, Bookers <- OneBooking, Starts <- ConfigStarts,
    LimitChanges <- {<<3, 0>>, <<0, 2>>, <<2, 4>>},
    RadiusChanges <- {<<0, 3>>, <<1, 0>>, <<4, 0>>}, LongestMin <- 5, LongestMax <- 5,
    WidestRadius <- 3, DefaultLimits <- <<1, 4>>, DefaultRadii <- <<2, 1>>, Trips <- {3},
    MaxEdits <- 2, MaxBoots <- 1, MaxDeaths <- 1, type <- typeSwitch, tariff <- typeTariff,
    limits <- typeLimits, kept <- limitsOf, node <- configNode, desk <- configDesk,
    booking <- configBooking, edits <- configEdits

Figures == INSTANCE Reports WITH
  Rides <- FirstTwo, Histories <- ReportBooks, CustomerOf <- <<"u1", "u2">>,
    DriverOf <- <<"d1", "d1">>, TypeOf <- <<"auto", "cab">>, Fare <- <<5, 3>>,
    Discount <- <<1, 0>>, Commission <- <<2, 1>>, CancellationFee <- 2, DAY <- 2, OFFSET <- 1,
    MaxRangeDays <- 2, Asked <- {<<-1, -1>>, <<-1, 0>>}, FirstTick <- 3, MaxTime <- 4,
    MaxWrites <- 3, now <- reportNow, ride <- booked, writes <- bookWrites

Live == INSTANCE Realtime WITH
  Drivers <- {"d1"}, Sockets <- TwoSockets,
    UserOf <- SocketUsers,
    Handlers <- TwoHandlers, Starts <- LiveStarts, MaxVersion <- 3, MaxFailures <- 1,
    MaxRestarts <- 1, MaxConnects <- 2, ride <- liveRide, past <- livePast

Route == INSTANCE LiveRoutes WITH
  Polls <- TwoPolls, Quotes <- {}, Pickup <- 0, Destination <- 1, RefreshMs <- 2,
    RefreshMeters <- 1, CacheTtl <- 2, CacheMaxEntries <- 1, FailureThreshold <- 2, Cooldown <- 1,
    MaxPolls <- 3, MaxMoves <- 1, MaxFailures <- 0, MaxTime <- 2, trip <- routeTrip,
    cache <- routeCache, now <- routeNow, count <- routeCount

Outage == INSTANCE LiveRoutes WITH
  Polls <- OnePoll, Quotes <- TwoQueries, Pickup <- 0, Destination <- 1, RefreshMs <- 2,
    RefreshMeters <- 1, CacheTtl <- 2, CacheMaxEntries <- 1, FailureThreshold <- 2, Cooldown <- 2,
    MaxPolls <- 2, MaxMoves <- 0, MaxFailures <- 2, MaxTime <- 3, trip <- routeTrip,
    cache <- routeCache, now <- routeNow, count <- routeCount

Search == INSTANCE PlaceSearch WITH
  Requests <- TwoSearches, Queries <- {"g", "gok"}, Featured <- Curated, FeaturedSpots <- {0, 9},
    Provided <- ProviderLists, Nears <- {-1000, 3, 28}, Cell <- PlaceCell, Bias <- 0,
    FeaturedRadius <- 10, DuplicateRadius <- 1, SameNameRadius <- 5, MAX_FEATURED_IN_RESULTS <- 1,
    Limit <- 2, CacheTtl <- 1, CacheMaxEntries <- 1, MaxRequests <- 3, MaxFailures <- 1,
    MaxTime <- 1, inFlight <- searchInFlight, now <- searchNow, asked <- searchAsked

Popular == INSTANCE PopularPlaces WITH
  Seeds <- {[name |-> "Prem Mandir", at |-> 0, order |-> 1]}, Ids <- FirstTwo, Nodes <- OneNode,
    Admins <- TwoAdmins, Points <- {5}, Photos <- PlacePhotos, Rule <- PhotoRule,
    Riders <- OneRide, Nears <- {-1, 2}, Radius <- 3, Limit <- 2, MaxWrites <- 2, MaxViews <- 1,
    MaxRestarts <- 0, edit <- popularEdit, asked <- popularAsked, crossed <- popularCrossed,
    count <- popularCount

Seeding == INSTANCE PopularPlaces WITH
  Seeds <- {[name |-> "Prem Mandir", at |-> 0, order |-> 1]}, Ids <- FirstThree,
    Nodes <- NodePair, Admins <- OneAdmin, Points <- {5}, Photos <- PlacePhotos,
    Rule <- PhotoRule, Riders <- OneRide, Nears <- {-1, 2}, Radius <- 3, Limit <- 2, MaxWrites <- 1,
    MaxViews <- 0, MaxRestarts <- 1, edit <- popularEdit, asked <- popularAsked,
    crossed <- popularCrossed, count <- popularCount

Saved == INSTANCE SavedPlaces WITH
  Ids <- FirstFour, Starts <- SavedStarts, Requests <- TwoQueries, Labels <- {"gym", "mum"},
    MAX_OTHER_SAVED_PLACES <- 1, MaxRequests <- 4, MaxFailures <- 1, request <- savedRequest,
    count <- savedCount

Areas == INSTANCE Zones WITH
  Ids <- FirstTwo, Names <- FirstTwo, Drafts <- TwoSquares, Pickups <- {<<1, 1>>},
    Admins <- TwoAdmins, Bookings <- OneBooking, MaxVertices <- 4, MaxRequests <- 3,
    desk <- zoneDesk, booking <- areaBooking, answer <- drawn, record <- auditRecord,
    crossed <- zoneCrossed, requests <- zoneRequests

Shapes == INSTANCE Zones WITH
  Ids <- OnlyFirst, Names <- OnlyFirst, Drafts <- Outlines, Pickups <- {<<1, 1>>}, Admins <- OneAdmin,
    Bookings <- {}, MaxVertices <- 4, MaxRequests <- 1, desk <- zoneDesk, booking <- areaBooking,
    answer <- drawn, record <- auditRecord, crossed <- zoneCrossed, requests <- zoneRequests

promoVars == <<active, usageLimit, usedCount, redeemedCount, redemption, forgotten, ride, booking,
  listener, edit, promoFailures>>
codesVars == <<trip, otp, otpLapsed, otpAttempts, asked, waited, sosOpen, completion, minted,
  requests, tries, verified, attempt, codeFailures>>
circuitVars == <<status, stop, current, exception, command, desk, driverBusy, travelled, usage,
  monitor, flags, sent, reports, finishes>>
packageVars == <<exists, packageStatus, stops, priced, revision, hasBookings, packageDesk, booker,
  circuits, overlapped, edits>>
movingVars == <<circuitOf, vehicleOf, instance, due, catalogueDesk, lastRecord, crossed, drafts,
  codeCounter, clock, catalogueEdits, instanceCrashes>>
ratesVars == <<versions, now, change, credited, line, adj, payout>>
feesVars == <<policies, feeRide, left, copy, row, cancel, feeDesk, feeNow, feeTries, crashes>>
reconVars == <<item, bill, run, job, failures>>
linksVars == <<linkNow, shared, link, creator, viewer>>
fixesVars == <<trackNow, path, driver, trackTrip, store, ingest, points, measured, told, tally>>
peaksVars == <<peakNow, slot, request, cache, tariffs, peakBooking, past, writes>>
configsVars == <<typeSwitch, typeTariff, typeLimits, radii, limitsOf, configNode, configDesk,
  configBooking, stranded, configEdits, boots, deaths>>
reportVars == <<reportNow, booked, report, bookWrites>>
liveVars == <<liveRide, handler, queue, running, socket, app, count, livePast>>
routeVars == <<routeTrip, routes, inFlight, calls, routeCache, breaker, poll, quote, routeNow,
  failedAt, routeCount>>
searchVars == <<search, searchCache, searchInFlight, log, searchNow, searchAsked>>
popularVars == <<place, boot, popularEdit, rider, kept, popularAsked, popularCrossed, popularCount>>
savedVars == <<saved, indexes, prepare, savedRequest, fact, savedCount>>
zonesVars == <<zone, zoneDesk, areaBooking, drawn, auditRecord, zoneCrossed, zoneRequests>>

PromoOff == active = Off /\ usageLimit = Off /\ usedCount = Off /\ redeemedCount = Off /\
  redemption = Off /\ forgotten = Off /\ ride = Off /\ booking = Off /\ listener = Off /\ edit = Off /\
  promoFailures = Off
CodesOff == trip = Off /\ otp = Off /\ otpLapsed = Off /\ otpAttempts = Off /\ asked = Off /\
  waited = Off /\ sosOpen = Off /\ completion = Off /\ minted = Off /\ requests = Off /\
  tries = Off /\ verified = Off /\ attempt = Off /\ codeFailures = Off
CircuitOff == status = Off /\ stop = Off /\ current = Off /\ exception = Off /\ command = Off /\
  desk = Off /\ driverBusy = Off /\ travelled = Off /\ usage = Off /\ monitor = Off /\
  flags = Off /\ sent = Off /\ reports = Off /\ finishes = Off
PackageOff == exists = Off /\ packageStatus = Off /\ stops = Off /\ priced = Off /\
  revision = Off /\ hasBookings = Off /\ packageDesk = Off /\ booker = Off /\ circuits = Off /\
  overlapped = Off /\ edits = Off
MovingOff == circuitOf = Off /\ vehicleOf = Off /\ instance = Off /\ due = Off /\
  catalogueDesk = Off /\ lastRecord = Off /\ crossed = Off /\ drafts = Off /\ codeCounter = Off /\
  clock = Off /\ catalogueEdits = Off /\ instanceCrashes = Off
RatesOff == versions = Off /\ now = Off /\ change = Off /\ credited = Off /\ line = Off /\
  adj = Off /\ payout = Off
FeesOff == policies = Off /\ feeRide = Off /\ left = Off /\ copy = Off /\ row = Off /\
  cancel = Off /\ feeDesk = Off /\ feeNow = Off /\ feeTries = Off /\ crashes = Off
ReconOff == item = Off /\ bill = Off /\ run = Off /\ job = Off /\ failures = Off
LinksOff == linkNow = Off /\ shared = Off /\ link = Off /\ creator = Off /\ viewer = Off
FixesOff == trackNow = Off /\ path = Off /\ driver = Off /\ trackTrip = Off /\ store = Off /\
  ingest = Off /\ points = Off /\ measured = Off /\ told = Off /\ tally = Off
PeaksOff == peakNow = Off /\ slot = Off /\ request = Off /\ cache = Off /\ tariffs = Off /\
  peakBooking = Off /\ past = Off /\ writes = Off
ConfigsOff == typeSwitch = Off /\ typeTariff = Off /\ typeLimits = Off /\ radii = Off /\
  limitsOf = Off /\ configNode = Off /\ configDesk = Off /\ configBooking = Off /\
  stranded = Off /\ configEdits = Off /\ boots = Off /\ deaths = Off
ReportOff == reportNow = Off /\ booked = Off /\ report = Off /\ bookWrites = Off
LiveOff == liveRide = Off /\ handler = Off /\ queue = Off /\ running = Off /\ socket = Off /\
  app = Off /\ count = Off /\ livePast = Off
RouteOff == routeTrip = Off /\ routes = Off /\ inFlight = Off /\ calls = Off /\ routeCache = Off /\
  breaker = Off /\ poll = Off /\ quote = Off /\ routeNow = Off /\ failedAt = Off /\ routeCount = Off
SearchOff == search = Off /\ searchCache = Off /\ searchInFlight = Off /\ log = Off /\
  searchNow = Off /\ searchAsked = Off
PopularOff == place = Off /\ boot = Off /\ popularEdit = Off /\ rider = Off /\ kept = Off /\
  popularAsked = Off /\ popularCrossed = Off /\ popularCount = Off
SavedOff == saved = Off /\ indexes = Off /\ prepare = Off /\ savedRequest = Off /\ fact = Off /\
  savedCount = Off
ZonesOff == zone = Off /\ zoneDesk = Off /\ areaBooking = Off /\ drawn = Off /\
  auditRecord = Off /\ zoneCrossed = Off /\ zoneRequests = Off

Init ==
  \/ part = "promo" /\ Promos!Init /\ CodesOff /\ CircuitOff /\ PackageOff /\ MovingOff /\
    RatesOff /\ FeesOff /\ ReconOff /\ LinksOff /\ FixesOff /\ PeaksOff /\ ConfigsOff /\
    ReportOff /\ LiveOff /\ RouteOff /\ SearchOff /\ PopularOff /\ SavedOff /\ ZonesOff
  \/ part = "codes" /\ Codes!Init /\ PromoOff /\ CircuitOff /\ PackageOff /\ MovingOff /\
    RatesOff /\ FeesOff /\ ReconOff /\ LinksOff /\ FixesOff /\ PeaksOff /\ ConfigsOff /\
    ReportOff /\ LiveOff /\ RouteOff /\ SearchOff /\ PopularOff /\ SavedOff /\ ZonesOff
  \/ part = "noCodes" /\ NoCodes!Init /\ PromoOff /\ CircuitOff /\ PackageOff /\ MovingOff /\
    RatesOff /\ FeesOff /\ ReconOff /\ LinksOff /\ FixesOff /\ PeaksOff /\ ConfigsOff /\
    ReportOff /\ LiveOff /\ RouteOff /\ SearchOff /\ PopularOff /\ SavedOff /\ ZonesOff
  \/ part = "circuit" /\ Circuit!Init /\ PromoOff /\ CodesOff /\ PackageOff /\ MovingOff /\
    RatesOff /\ FeesOff /\ ReconOff /\ LinksOff /\ FixesOff /\ PeaksOff /\ ConfigsOff /\
    ReportOff /\ LiveOff /\ RouteOff /\ SearchOff /\ PopularOff /\ SavedOff /\ ZonesOff
  \/ part = "package" /\ PackageDesk!Init /\ PromoOff /\ CodesOff /\ CircuitOff /\ MovingOff /\
    RatesOff /\ FeesOff /\ ReconOff /\ LinksOff /\ FixesOff /\ PeaksOff /\ ConfigsOff /\
    ReportOff /\ LiveOff /\ RouteOff /\ SearchOff /\ PopularOff /\ SavedOff /\ ZonesOff
  \/ part = "moving" /\ Moving!Init /\ PromoOff /\ CodesOff /\ CircuitOff /\ PackageOff /\
    RatesOff /\ FeesOff /\ ReconOff /\ LinksOff /\ FixesOff /\ PeaksOff /\ ConfigsOff /\
    ReportOff /\ LiveOff /\ RouteOff /\ SearchOff /\ PopularOff /\ SavedOff /\ ZonesOff
  \/ part = "offers" /\ Offers!Init /\ PromoOff /\ CodesOff /\ CircuitOff /\ PackageOff /\
    RatesOff /\ FeesOff /\ ReconOff /\ LinksOff /\ FixesOff /\ PeaksOff /\ ConfigsOff /\
    ReportOff /\ LiveOff /\ RouteOff /\ SearchOff /\ PopularOff /\ SavedOff /\ ZonesOff
  \/ part = "rates" /\ RateDesk!Init /\ PromoOff /\ CodesOff /\ CircuitOff /\ PackageOff /\
    MovingOff /\ FeesOff /\ ReconOff /\ LinksOff /\ FixesOff /\ PeaksOff /\ ConfigsOff /\
    ReportOff /\ LiveOff /\ RouteOff /\ SearchOff /\ PopularOff /\ SavedOff /\ ZonesOff
  \/ part = "payouts" /\ PayoutDesk!Init /\ PromoOff /\ CodesOff /\ CircuitOff /\ PackageOff /\
    MovingOff /\ FeesOff /\ ReconOff /\ LinksOff /\ FixesOff /\ PeaksOff /\ ConfigsOff /\
    ReportOff /\ LiveOff /\ RouteOff /\ SearchOff /\ PopularOff /\ SavedOff /\ ZonesOff
  \/ part = "fees" /\ Fees!Init /\ PromoOff /\ CodesOff /\ CircuitOff /\ PackageOff /\ MovingOff /\
    RatesOff /\ ReconOff /\ LinksOff /\ FixesOff /\ PeaksOff /\ ConfigsOff /\ ReportOff /\
    LiveOff /\ RouteOff /\ SearchOff /\ PopularOff /\ SavedOff /\ ZonesOff
  \/ part = "recon" /\ Recon!Init /\ PromoOff /\ CodesOff /\ CircuitOff /\ PackageOff /\
    MovingOff /\ RatesOff /\ FeesOff /\ LinksOff /\ FixesOff /\ PeaksOff /\ ConfigsOff /\
    ReportOff /\ LiveOff /\ RouteOff /\ SearchOff /\ PopularOff /\ SavedOff /\ ZonesOff
  \/ part = "links" /\ Following!Init /\ PromoOff /\ CodesOff /\ CircuitOff /\ PackageOff /\
    MovingOff /\ RatesOff /\ FeesOff /\ ReconOff /\ FixesOff /\ PeaksOff /\ ConfigsOff /\
    ReportOff /\ LiveOff /\ RouteOff /\ SearchOff /\ PopularOff /\ SavedOff /\ ZonesOff
  \/ part = "fixes" /\ Fixed!Init /\ PromoOff /\ CodesOff /\ CircuitOff /\ PackageOff /\
    MovingOff /\ RatesOff /\ FeesOff /\ ReconOff /\ LinksOff /\ PeaksOff /\ ConfigsOff /\
    ReportOff /\ LiveOff /\ RouteOff /\ SearchOff /\ PopularOff /\ SavedOff /\ ZonesOff
  \/ part = "trail" /\ Trail!Init /\ PromoOff /\ CodesOff /\ CircuitOff /\ PackageOff /\
    MovingOff /\ RatesOff /\ FeesOff /\ ReconOff /\ LinksOff /\ PeaksOff /\ ConfigsOff /\
    ReportOff /\ LiveOff /\ RouteOff /\ SearchOff /\ PopularOff /\ SavedOff /\ ZonesOff
  \/ part = "peaks" /\ Peaks!Init /\ PromoOff /\ CodesOff /\ CircuitOff /\ PackageOff /\
    MovingOff /\ RatesOff /\ FeesOff /\ ReconOff /\ LinksOff /\ FixesOff /\ ConfigsOff /\
    ReportOff /\ LiveOff /\ RouteOff /\ SearchOff /\ PopularOff /\ SavedOff /\ ZonesOff
  \/ part = "nodes" /\ TwoNodes!Init /\ PromoOff /\ CodesOff /\ CircuitOff /\ PackageOff /\
    MovingOff /\ RatesOff /\ FeesOff /\ ReconOff /\ LinksOff /\ FixesOff /\ ConfigsOff /\
    ReportOff /\ LiveOff /\ RouteOff /\ SearchOff /\ PopularOff /\ SavedOff /\ ZonesOff
  \/ part = "fares" /\ Fares!Init /\ PromoOff /\ CodesOff /\ CircuitOff /\ PackageOff /\
    MovingOff /\ RatesOff /\ FeesOff /\ ReconOff /\ LinksOff /\ FixesOff /\ ConfigsOff /\
    ReportOff /\ LiveOff /\ RouteOff /\ SearchOff /\ PopularOff /\ SavedOff /\ ZonesOff
  \/ part = "configs" /\ Configs!Init /\ PromoOff /\ CodesOff /\ CircuitOff /\ PackageOff /\
    MovingOff /\ RatesOff /\ FeesOff /\ ReconOff /\ LinksOff /\ FixesOff /\ PeaksOff /\
    ReportOff /\ LiveOff /\ RouteOff /\ SearchOff /\ PopularOff /\ SavedOff /\ ZonesOff
  \/ part = "report" /\ Figures!Init /\ PromoOff /\ CodesOff /\ CircuitOff /\ PackageOff /\
    MovingOff /\ RatesOff /\ FeesOff /\ ReconOff /\ LinksOff /\ FixesOff /\ PeaksOff /\
    ConfigsOff /\ LiveOff /\ RouteOff /\ SearchOff /\ PopularOff /\ SavedOff /\ ZonesOff
  \/ part = "live" /\ Live!Init /\ PromoOff /\ CodesOff /\ CircuitOff /\ PackageOff /\ MovingOff /\
    RatesOff /\ FeesOff /\ ReconOff /\ LinksOff /\ FixesOff /\ PeaksOff /\ ConfigsOff /\
    ReportOff /\ RouteOff /\ SearchOff /\ PopularOff /\ SavedOff /\ ZonesOff
  \/ part = "route" /\ Route!Init /\ PromoOff /\ CodesOff /\ CircuitOff /\ PackageOff /\
    MovingOff /\ RatesOff /\ FeesOff /\ ReconOff /\ LinksOff /\ FixesOff /\ PeaksOff /\
    ConfigsOff /\ ReportOff /\ LiveOff /\ SearchOff /\ PopularOff /\ SavedOff /\ ZonesOff
  \/ part = "outage" /\ Outage!Init /\ PromoOff /\ CodesOff /\ CircuitOff /\ PackageOff /\
    MovingOff /\ RatesOff /\ FeesOff /\ ReconOff /\ LinksOff /\ FixesOff /\ PeaksOff /\
    ConfigsOff /\ ReportOff /\ LiveOff /\ SearchOff /\ PopularOff /\ SavedOff /\ ZonesOff
  \/ part = "search" /\ Search!Init /\ PromoOff /\ CodesOff /\ CircuitOff /\ PackageOff /\
    MovingOff /\ RatesOff /\ FeesOff /\ ReconOff /\ LinksOff /\ FixesOff /\ PeaksOff /\
    ConfigsOff /\ ReportOff /\ LiveOff /\ RouteOff /\ PopularOff /\ SavedOff /\ ZonesOff
  \/ part = "popular" /\ Popular!Init /\ PromoOff /\ CodesOff /\ CircuitOff /\ PackageOff /\
    MovingOff /\ RatesOff /\ FeesOff /\ ReconOff /\ LinksOff /\ FixesOff /\ PeaksOff /\
    ConfigsOff /\ ReportOff /\ LiveOff /\ RouteOff /\ SearchOff /\ SavedOff /\ ZonesOff
  \/ part = "seeding" /\ Seeding!Init /\ PromoOff /\ CodesOff /\ CircuitOff /\ PackageOff /\
    MovingOff /\ RatesOff /\ FeesOff /\ ReconOff /\ LinksOff /\ FixesOff /\ PeaksOff /\
    ConfigsOff /\ ReportOff /\ LiveOff /\ RouteOff /\ SearchOff /\ SavedOff /\ ZonesOff
  \/ part = "saved" /\ Saved!Init /\ PromoOff /\ CodesOff /\ CircuitOff /\ PackageOff /\
    MovingOff /\ RatesOff /\ FeesOff /\ ReconOff /\ LinksOff /\ FixesOff /\ PeaksOff /\
    ConfigsOff /\ ReportOff /\ LiveOff /\ RouteOff /\ SearchOff /\ PopularOff /\ ZonesOff
  \/ part = "zones" /\ Areas!Init /\ PromoOff /\ CodesOff /\ CircuitOff /\ PackageOff /\
    MovingOff /\ RatesOff /\ FeesOff /\ ReconOff /\ LinksOff /\ FixesOff /\ PeaksOff /\
    ConfigsOff /\ ReportOff /\ LiveOff /\ RouteOff /\ SearchOff /\ PopularOff /\ SavedOff
  \/ part = "shapes" /\ Shapes!Init /\ PromoOff /\ CodesOff /\ CircuitOff /\ PackageOff /\
    MovingOff /\ RatesOff /\ FeesOff /\ ReconOff /\ LinksOff /\ FixesOff /\ PeaksOff /\
    ConfigsOff /\ ReportOff /\ LiveOff /\ RouteOff /\ SearchOff /\ PopularOff /\ SavedOff

Next ==
  \/ /\ part = "promo" /\ Promos!Next
     /\ UNCHANGED <<part, codesVars, circuitVars, packageVars, movingVars, ratesVars, feesVars,
       reconVars, linksVars, fixesVars, peaksVars, configsVars, reportVars, liveVars, routeVars,
       searchVars, popularVars, savedVars, zonesVars>>
  \/ /\ part = "codes" /\ Codes!Next
     /\ UNCHANGED <<part, promoVars, circuitVars, packageVars, movingVars, ratesVars, feesVars,
       reconVars, linksVars, fixesVars, peaksVars, configsVars, reportVars, liveVars, routeVars,
       searchVars, popularVars, savedVars, zonesVars>>
  \/ /\ part = "noCodes" /\ NoCodes!Next
     /\ UNCHANGED <<part, promoVars, circuitVars, packageVars, movingVars, ratesVars, feesVars,
       reconVars, linksVars, fixesVars, peaksVars, configsVars, reportVars, liveVars, routeVars,
       searchVars, popularVars, savedVars, zonesVars>>
  \/ /\ part = "circuit" /\ Circuit!Next
     /\ UNCHANGED <<part, promoVars, codesVars, packageVars, movingVars, ratesVars, feesVars,
       reconVars, linksVars, fixesVars, peaksVars, configsVars, reportVars, liveVars, routeVars,
       searchVars, popularVars, savedVars, zonesVars>>
  \/ /\ part = "package" /\ PackageDesk!Next
     /\ UNCHANGED <<part, promoVars, codesVars, circuitVars, movingVars, ratesVars, feesVars,
       reconVars, linksVars, fixesVars, peaksVars, configsVars, reportVars, liveVars, routeVars,
       searchVars, popularVars, savedVars, zonesVars>>
  \/ /\ part = "moving" /\ Moving!Next
     /\ UNCHANGED <<part, promoVars, codesVars, circuitVars, packageVars, ratesVars, feesVars,
       reconVars, linksVars, fixesVars, peaksVars, configsVars, reportVars, liveVars, routeVars,
       searchVars, popularVars, savedVars, zonesVars>>
  \/ /\ part = "offers" /\ Offers!Next
     /\ UNCHANGED <<part, promoVars, codesVars, circuitVars, packageVars, ratesVars, feesVars,
       reconVars, linksVars, fixesVars, peaksVars, configsVars, reportVars, liveVars, routeVars,
       searchVars, popularVars, savedVars, zonesVars>>
  \/ /\ part = "rates" /\ RateDesk!Next
     /\ UNCHANGED <<part, promoVars, codesVars, circuitVars, packageVars, movingVars, feesVars,
       reconVars, linksVars, fixesVars, peaksVars, configsVars, reportVars, liveVars, routeVars,
       searchVars, popularVars, savedVars, zonesVars>>
  \/ /\ part = "payouts" /\ PayoutDesk!Next
     /\ UNCHANGED <<part, promoVars, codesVars, circuitVars, packageVars, movingVars, feesVars,
       reconVars, linksVars, fixesVars, peaksVars, configsVars, reportVars, liveVars, routeVars,
       searchVars, popularVars, savedVars, zonesVars>>
  \/ /\ part = "fees" /\ Fees!Next
     /\ UNCHANGED <<part, promoVars, codesVars, circuitVars, packageVars, movingVars, ratesVars,
       reconVars, linksVars, fixesVars, peaksVars, configsVars, reportVars, liveVars, routeVars,
       searchVars, popularVars, savedVars, zonesVars>>
  \/ /\ part = "recon" /\ Recon!Next
     /\ UNCHANGED <<part, promoVars, codesVars, circuitVars, packageVars, movingVars, ratesVars,
       feesVars, linksVars, fixesVars, peaksVars, configsVars, reportVars, liveVars, routeVars,
       searchVars, popularVars, savedVars, zonesVars>>
  \/ /\ part = "links" /\ Following!Next
     /\ UNCHANGED <<part, promoVars, codesVars, circuitVars, packageVars, movingVars, ratesVars,
       feesVars, reconVars, fixesVars, peaksVars, configsVars, reportVars, liveVars, routeVars,
       searchVars, popularVars, savedVars, zonesVars>>
  \/ /\ part = "fixes" /\ Fixed!Next
     /\ UNCHANGED <<part, promoVars, codesVars, circuitVars, packageVars, movingVars, ratesVars,
       feesVars, reconVars, linksVars, peaksVars, configsVars, reportVars, liveVars, routeVars,
       searchVars, popularVars, savedVars, zonesVars>>
  \/ /\ part = "trail" /\ Trail!Next
     /\ UNCHANGED <<part, promoVars, codesVars, circuitVars, packageVars, movingVars, ratesVars,
       feesVars, reconVars, linksVars, peaksVars, configsVars, reportVars, liveVars, routeVars,
       searchVars, popularVars, savedVars, zonesVars>>
  \/ /\ part = "peaks" /\ Peaks!Next
     /\ UNCHANGED <<part, promoVars, codesVars, circuitVars, packageVars, movingVars, ratesVars,
       feesVars, reconVars, linksVars, fixesVars, configsVars, reportVars, liveVars, routeVars,
       searchVars, popularVars, savedVars, zonesVars>>
  \/ /\ part = "nodes" /\ TwoNodes!Next
     /\ UNCHANGED <<part, promoVars, codesVars, circuitVars, packageVars, movingVars, ratesVars,
       feesVars, reconVars, linksVars, fixesVars, configsVars, reportVars, liveVars, routeVars,
       searchVars, popularVars, savedVars, zonesVars>>
  \/ /\ part = "fares" /\ Fares!Next
     /\ UNCHANGED <<part, promoVars, codesVars, circuitVars, packageVars, movingVars, ratesVars,
       feesVars, reconVars, linksVars, fixesVars, configsVars, reportVars, liveVars, routeVars,
       searchVars, popularVars, savedVars, zonesVars>>
  \/ /\ part = "configs" /\ Configs!Next
     /\ UNCHANGED <<part, promoVars, codesVars, circuitVars, packageVars, movingVars, ratesVars,
       feesVars, reconVars, linksVars, fixesVars, peaksVars, reportVars, liveVars, routeVars,
       searchVars, popularVars, savedVars, zonesVars>>
  \/ /\ part = "report" /\ Figures!Next
     /\ UNCHANGED <<part, promoVars, codesVars, circuitVars, packageVars, movingVars, ratesVars,
       feesVars, reconVars, linksVars, fixesVars, peaksVars, configsVars, liveVars, routeVars,
       searchVars, popularVars, savedVars, zonesVars>>
  \/ /\ part = "live" /\ Live!Next
     /\ UNCHANGED <<part, promoVars, codesVars, circuitVars, packageVars, movingVars, ratesVars,
       feesVars, reconVars, linksVars, fixesVars, peaksVars, configsVars, reportVars, routeVars,
       searchVars, popularVars, savedVars, zonesVars>>
  \/ /\ part = "route" /\ Route!Next
     /\ UNCHANGED <<part, promoVars, codesVars, circuitVars, packageVars, movingVars, ratesVars,
       feesVars, reconVars, linksVars, fixesVars, peaksVars, configsVars, reportVars, liveVars,
       searchVars, popularVars, savedVars, zonesVars>>
  \/ /\ part = "outage" /\ Outage!Next
     /\ UNCHANGED <<part, promoVars, codesVars, circuitVars, packageVars, movingVars, ratesVars,
       feesVars, reconVars, linksVars, fixesVars, peaksVars, configsVars, reportVars, liveVars,
       searchVars, popularVars, savedVars, zonesVars>>
  \/ /\ part = "search" /\ Search!Next
     /\ UNCHANGED <<part, promoVars, codesVars, circuitVars, packageVars, movingVars, ratesVars,
       feesVars, reconVars, linksVars, fixesVars, peaksVars, configsVars, reportVars, liveVars,
       routeVars, popularVars, savedVars, zonesVars>>
  \/ /\ part = "popular" /\ Popular!Next
     /\ UNCHANGED <<part, promoVars, codesVars, circuitVars, packageVars, movingVars, ratesVars,
       feesVars, reconVars, linksVars, fixesVars, peaksVars, configsVars, reportVars, liveVars,
       routeVars, searchVars, savedVars, zonesVars>>
  \/ /\ part = "seeding" /\ Seeding!Next
     /\ UNCHANGED <<part, promoVars, codesVars, circuitVars, packageVars, movingVars, ratesVars,
       feesVars, reconVars, linksVars, fixesVars, peaksVars, configsVars, reportVars, liveVars,
       routeVars, searchVars, savedVars, zonesVars>>
  \/ /\ part = "saved" /\ Saved!Next
     /\ UNCHANGED <<part, promoVars, codesVars, circuitVars, packageVars, movingVars, ratesVars,
       feesVars, reconVars, linksVars, fixesVars, peaksVars, configsVars, reportVars, liveVars,
       routeVars, searchVars, popularVars, zonesVars>>
  \/ /\ part = "zones" /\ Areas!Next
     /\ UNCHANGED <<part, promoVars, codesVars, circuitVars, packageVars, movingVars, ratesVars,
       feesVars, reconVars, linksVars, fixesVars, peaksVars, configsVars, reportVars, liveVars,
       routeVars, searchVars, popularVars, savedVars>>
  \/ /\ part = "shapes" /\ Shapes!Next
     /\ UNCHANGED <<part, promoVars, codesVars, circuitVars, packageVars, movingVars, ratesVars,
       feesVars, reconVars, linksVars, fixesVars, peaksVars, configsVars, reportVars, liveVars,
       routeVars, searchVars, popularVars, savedVars>>

vars == <<part, promoVars, codesVars, circuitVars, packageVars, movingVars, ratesVars, feesVars,
  reconVars, linksVars, fixesVars, peaksVars, configsVars, reportVars, liveVars, routeVars,
  searchVars, popularVars, savedVars, zonesVars>>

Spec == Init /\ [][Next]_vars

\* What bounds the instances beyond their constants: behaviours that leave these states are cut.
Bounds ==
  /\ part = "promo" => OneCustomer
  /\ part = "circuit" => OneSide
  /\ part = "package" => TwoRequests
  /\ part = "codes" => OneAfterAFailure
  /\ part = "recon" => OneAtWork
  /\ part = "fixes" => EarlyRestart
  /\ part = "trail" => OnTheTrip
  /\ part = "fares" => TariffFirst
  /\ part = "report" => TwoMeanwhile
  /\ part = "live" => OneApp
  /\ part = "outage" => OnTheApproach

\* Who begins, of two requests alike: no behaviour is lost but for its names.
Turns ==
  CASE part \in {"recon", "trail", "report", "payouts", "nodes"} -> TRUE
    [] part = "fixes" -> InTurn(ingest, "f1", "f2")
    [] part = "package" -> InTurn(packageDesk, "a1", "a2") /\ InTurn(booker, "b1", "b2") /\ InOrder
    [] part = "fees" -> InTurn(cancel, "c1", "c2") /\ InTurn(feeDesk, "a1", "a2")
    [] part = "live" -> InTurn(handler, "h1", "h2")
    [] part = "circuit" -> InTurn(command, "c1", "c2") /\ InTurn(monitor, "m1", "m2")
    [] part = "codes" -> InTurn(attempt, "p1", "p2")
    [] part = "promo" -> booking["r1"] = "new" => booking'["r2"] = "new"
    [] part = "noCodes" -> InTurn(attempt, "p1", "p2")
    [] part = "offers" -> InTurn(catalogueDesk, "a1", "a2")
    [] part = "rates" -> InTurn(change, "a1", "a2")
    [] part = "links" -> InTurn(creator, "c1", "c2")
    [] part = "fares" -> InTurn(peakBooking, "b1", "b2")
    [] part = "peaks" -> InTurn(request, "q1", "q2")
    [] part = "configs" -> InTurn(configDesk, "a1", "a2")
    [] part = "route" -> InTurn(poll, "p1", "p2")
    [] part = "outage" -> InTurn(quote, "q1", "q2")
    [] part = "search" -> InTurn(search, "r1", "r2")
    [] part = "popular" -> InTurn(popularEdit, "a1", "a2")
    [] part = "saved" -> InTurn(savedRequest, "q1", "q2")
    [] part = "zones" -> InTurn(zoneDesk, "a1", "a2")
    [] OTHER -> TRUE

\* A code stands a limited number of wrong guesses: the configured attempts, one
\* more for each further guess in flight, and one for each handler that died
\* before it had counted or rotated ("on lockout or expiry the code is rotated
\* so a stolen/guessed code is useless", ride-lifecycle.service.ts:193).
\* A trip ended with the rider's code is priced to the request that stands, even
\* when requests were withdrawn and made again while the code was typed.
\* The driver ends a trip without the rider only for a request whose wait is over.
\* A code that was replaced, withdrawn or used opens nothing: a ride is started
\* or completed only by the code its rider is shown at that moment.
\* Double taps make one request: while a request stands its moment stays, so the
\* fare stays frozen to it.
TripCodesHold ==
  /\ [](part = "codes" =>
       Codes!TypeOK /\ Codes!GuessesAreLimited /\ Codes!CodeEndsTheStandingRequest /\
         Codes!OverrideHasWaited)
  /\ [][part = "codes" => Codes!ReplacedCodeOpensNothingStep]_vars
  /\ [][part = "codes" => Codes!RequestStandsStep]_vars
  /\ [](part = "noCodes" =>
       NoCodes!TypeOK)

\* Whatever commands race, the stops before the current one are done, the current one is
\* being worked on and the later ones wait ("can never move the circuit twice",
\* circuit-execution.service.ts:71).
\* The exception is about the stop being worked on, and a circuit ends with none open.
\* A circuit is priced once, with every stop done, whoever ends it.
\* Each warning is sent once, whichever instance measures it.
\* "Progress stops until then": while the exception is open no stop moves unless the step
\* that moves it also closes the exception (circuit-execution.service.ts:133).
\* While the circuit runs, the measured distance shrinks in no other way than by an instance
\* that read it before another wrote more (circuit-monitor.service.ts:129 "Distance never goes
\* backwards"); the completion writes what it billed, and nothing overwrites that.
\* A live package stays publishable (circuit-packages.service.ts:300), unless an edit and a
\* publication crossed: the edit compares the revision only, the publication the status.
\* A package some ride was booked from is never deleted, also when markBooked was lost
\* (circuit-package.types.ts:9).
\* The revision a booking records names its price: two bookings of one revision and one
\* vehicle cost the same, whatever was edited between the quotes.
\* A repeated "Confirm & Book" never makes a second circuit, even when the first has ended.
\* Moving the prices of the release before changes no quote (migrateLegacyPricing): whenever an
\* instance serves, every vehicle of a package costs what was last set for it, whichever instances
\* boot, crash half-way and boot again while admins edit.
\* Packages created at once get codes of their own, and three attempts are always enough (nextCode).
\* What customers are offered is what a booking accepts (toCustomerView, assertBookable): a listed
\* circuit that is available now can be booked with each vehicle shown, at its price and with as
\* many passengers as it is shown to carry, nothing else can be booked, and its cover is served.
\* What the audit trail says last of a package is so (setCover, removeCover and remove, which record
\* whatever their write found), unless two requests about it were in flight together.
CircuitsHold ==
  /\ [](part = "circuit" =>
       Circuit!TypeOK /\ Circuit!StopsInSequence /\ Circuit!ExceptionIsCurrent /\
         Circuit!PricedOnce /\ Circuit!WarnedOnce)
  /\ [][part = "circuit" =>
         Circuit!NothingMovesWhileBlockedStep /\ Circuit!UsageShrinksOnlyByARaceStep /\
           Circuit!BilledUsageStandsStep]_vars
  /\ [](part = "package" =>
       PackageDesk!TypeOK /\ PackageDesk!LiveIsPublishable /\ PackageDesk!BookedIsKept /\
         PackageDesk!RevisionNamesThePrice /\ PackageDesk!OneBookingPerKey)
  /\ [](part = "moving" =>
       Moving!TypeOK /\ Moving!MigrationKeepsTheQuote /\ Moving!CodesDiffer)
  /\ [](part = "offers" =>
       Offers!TypeOK /\ Offers!OfferedIsBookable /\ Offers!AuditIsTrue)

\* A line has the rate in force when its ride completed, however long after that it was
\* paid, unless a change was back-dated onto that moment, or, for a ride older than the history,
\* before its start (earnings.service.ts:158).
\* The driver's share and the commission add back up to the fare, and neither is negative.
\* No change of the history, however it was timed, alters a rate that was taken from more
\* than the tolerance before the change was asked for: rides that had finished keep theirs,
\* paid or not ("history is not rewritable", commission.service.ts:32).  Rides older than the
\* history keep theirs from the tolerance after its start: until then a back-dated version
\* becomes the earliest one, which they take (:156).
\* "Two admins paying the same line concurrently settle it exactly once, and the payout
\* records only what it settled" (earnings-admin.service.ts:358): the saved payouts
\* transfer the net of the lines that point at them less the clawbacks that do.
\* The clawbacks recovered from a payout fit in it, so no payout is negative, whatever
\* was waived, clawed back or recovered elsewhere between the read and the update.
\* A clawback is settled or waived once: what one payout recovered, or an admin wrote
\* off, is not taken again or taken back.
\* "cohort outcomes add up, with ride-type, zone and day breakdowns" (phase7.e2e-spec.ts:1762),
\* also while rides move: every ride requested in the range is in exactly one outcome, one type
\* and one local day.
\* The days of a revenue report add up to its totals, though each is a query of its own: always
\* when nothing was written meanwhile, and for the trips and the money of a range that is over
\* even while payments, refunds and credits go on.
\* "Net platform revenue: commission - promo discounts" (docs/phase-7/README.md:191) and the
\* value of the trips agree with the ledger once every trip of the range is credited.
\* The drivers who were active are those the per-driver rows give a completed trip; the actors
\* of the cancellations are all of them, day by day; a customer who was active on a day of the
\* range was active in it.
\* What was completed and collected in a range that is over stays as it was reported, whatever is
\* paid, credited or refunded later.  (Earnings and refunds of such a range do still change.)
DriverMoneyHolds ==
  /\ [](part = "rates" =>
       RateDesk!TypeOK /\ RateDesk!CreditedAtCompletion /\ RateDesk!SharesAddUp)
  /\ [][part = "rates" => RateDesk!HistoryStandsStep]_vars
  /\ [](part = "payouts" =>
       PayoutDesk!TypeOK /\ PayoutDesk!PayoutsAddUp /\ PayoutDesk!DeductionsFit)
  /\ [][part = "payouts" => PayoutDesk!SettledOnceStep]_vars
  /\ [](part = "report" =>
       Figures!TypeOK /\ Figures!OutcomesAddUp /\ Figures!RevenueAddsUp /\
         Figures!LedgerAgrees /\ Figures!PartsAgree)
  /\ [][part = "report" => Figures!ClosedRangesStandStep]_vars

\* When a run has compared a whole window, every capture it was told of is the payment of its
\* bill, a flagged duplicate, or an exception somebody has to look at, although the bill it
\* compared may have been settled since by a webhook or by a second run.  The exception is a
\* payment whose application failed in that run (execute, compare).
\* What a run calls healed is in the books: the capture it speaks of is recorded, and refunds it
\* re-read are known (compare).
\* A payment we call paid is reported as absent from Razorpay only when Razorpay could not be
\* asked: captures are never taken back (execute, second pass).
\* A day is compared by one run at most, however many instances find it due at once
\* (ensureDailyRun).
ReconciliationHolds ==
  /\ part = "recon" =>
    Recon!TypeOK /\ Recon!NothingGoesUnnoticed /\ Recon!HealedIsRecorded /\
      Recon!PaidIsNotMissing /\ Recon!OneDailyRun

\* When no request for a link is in flight, no more than the newest few are live (retireExcess,
\* of two requests that each read before the other wrote).
\* Nobody is shown a ride that ended more than a grace period ago, also by a link that was made
\* while the ride was ending and that the listener never saw, or when it never ran
\* (effectiveShareExpiry).
\* A link that was stopped never works again: neither the end of the ride nor another request's
\* trimming revives it, and the rider's own stop leaves the incident's link alone.
\* The rider is told once that the driver is arriving, by whichever fix comes first, also when the
\* process starts again in between.
\* The trail of a ride under way is thin: two samples of one process lie an interval apart, however
\* many fixes are handled side by side.
\* The stored position of a driver who is offline stands: a fix that was in flight does not move it.
\* Time after the driver asked to end the trip is not billed: no point of the measured trail is later.
\* The rider never pays for more than the driver drove, in whatever order the fixes arrived.
\* Once nothing is being published, every app that is connected and has read its ride shows the
\* ride as it is, with the standing code for its customer, in whatever order changes, publications,
\* connects, drops and restarts came: unless a publication failed.  (The driver is not told of a
\* new code, so of the version it changes.  Whose offer was withdrawn is told without a version,
\* so of that driver only when no two changes were recorded at once.)
\* "strictly ordered per ride through a promise chain" (ride-events.service.ts:37): the transitions of a ride are
\* sent in the order they were committed in, unless two were being recorded at the same time.
\* "Everyone leaves a ride's room once the ride is over" (realtime.service.ts:88): but for a socket
\* that was let in on a read from before, or recovered with it, and for changes out of order.
\* The room, and with it the driver's position, is only ever the customer's and the driver's who
\* has accepted: a driver who is merely offered the ride is not a member (ride-room-access.service.ts:21).
\* "A socket must not outlive the access token it was opened with" (realtime.gateway.ts:230): also
\* one that was recovered has its timer set once it is ready.
\* A route is served for the leg the ride was on when it was asked for, from near where the driver
\* was, and not older than a refresh; only a poll that shares another's call may get the route of
\* the leg just left or of a place just left, and that one was computed while it waited.
\* The ride costs one call at a time, and every poll that waits has a call it waits for.
\* The straight line ends with the trouble: whoever is served one is served within a cooldown and a
\* refresh of a failure of the provider, however its routes are shared and kept.
\* While the breaker is open no one waits for the provider who was not waiting before (isDegraded).
FollowingHolds ==
  /\ [](part = "links" =>
       Following!TypeOK /\ Following!LinksAreFew)
  /\ [][part = "links" =>
         Following!NothingShownAfterGraceStep /\ Following!StoppedStaysStoppedStep]_vars
  /\ [](part = "fixes" =>
       Fixed!TypeOK /\ Fixed!ArrivingOnce /\ Fixed!TrailIsThin)
  /\ [][part = "fixes" => Fixed!OfflinePositionStandsStep]_vars
  /\ [](part = "trail" =>
       Trail!TypeOK /\ Trail!NothingAfterTheEnd /\ Trail!MeasuredIsTravelled)
  /\ [](part = "live" =>
       Live!TypeOK /\ Live!AppsConverge /\ Live!SentInOrder /\ Live!EndedRoomEmpties /\
         Live!RoomIsTheirs /\ Live!TimersAreSet)
  /\ [](part = "route" =>
       Route!TypeOK /\ Route!RoutesAreFresh /\ Route!OneCallAtATime)
  /\ [](part = "outage" =>
       Outage!TypeOK /\ Outage!RoutesAreFresh /\ Outage!StraightLineEnds /\
         Outage!OneCallAtATime)
  /\ [][part = "outage" => Outage!OutageCostsNoLatencyStep]_vars

\* The count misses a use in one case only, whatever dies half-way and whoever
\* releases a use at the same time: what the limit is compared with covers every
\* reserved and redeemed use (schemas/promo-code.schema.ts:65) but those whose
\* insert was reported as failed and written all the same (promotions.service.ts:477),
\* and no such use ever has a ride.
\* Without failures nothing leaks: once every handler has finished, the counters
\* are exactly the uses and the redeemed uses, and a use is held by an open ride only.
\* Concurrent bookings never take the code past its limit; only an admin's late
\* write of a limit it checked earlier leaves the count above it.
\* "The transition is conditional on that same status, so the fee cannot go stale"
\* (ride-lifecycle.service.ts:889): the fee on a cancelled ride is the one a published policy
\* gives for the status the ride was taken from, whatever moved during the cancellation.
\* No fee exceeds the fare or the rule's cap, for every rule an admin can save.
\* "Keep the ride's denormalised copy in step" (cancellations.service.ts:522): when no call is
\* at work and none died, the record and the ride tell the customer the same.
\* A fee is decided on once.
\* No two active slots claim a minute of the day for one ride type, those across midnight included,
\* when one API node takes the admins' writes; the writes are checked before they are made.
\* An edit replaces the slot its admin read, whatever the other nodes write.
\* A booking is priced with the peak of rules that were active at most RULES_CACHE before it,
\* whichever node wrote them last.
\* The version on a fare names the rates that produced it, whatever was edited meanwhile; the peak
\* moved nothing but the distance charge, and by what the fare says.
\* The trip the customer accepted costs what was shown: a bill for the booked route is the estimate,
\* and no trip costs more than the cap over it, nor less than the lowest fare of the booking.
\* Two admins that send one field each, from the same row, may undo one another's field, but never
\* store limits that nobody could use: what was judged is what is written, as a whole pair.
\* The policy that is stored on a ride tells the limits it was accepted under: the trip fits them,
\* they were in force at some moment of the request, and no other limits bear that version.
\* A type that may be booked has limits and a tariff, unless the request that creates it switched on
\* is under way or died there, or its row was spoilt by hand.
\* What an admin stored is replaced by an admin only: the migration of a later boot, which may have
\* listed the types long before it writes, leaves it alone.
ChargesHold ==
  /\ [](part = "promo" =>
       Promos!TypeOK /\ Promos!UsesAreCounted /\ Promos!CountersSettle)
  /\ [][part = "promo" => Promos!OnlyAdminExceedsLimitStep]_vars
  /\ [](part = "fees" =>
       Fees!TypeOK /\ Fees!FeeOfTheStatusLeft /\ Fees!FeesAreCapped /\ Fees!CopyInStep)
  /\ [][part = "fees" => Fees!DecidedOnceStep]_vars
  /\ [](part = "peaks" =>
       Peaks!TypeOK /\ Peaks!OnePeakAtATime)
  /\ [](part = "nodes" =>
       TwoNodes!TypeOK)
  /\ [][part = "nodes" => TwoNodes!EditIsOfWhatWasReadStep]_vars
  /\ [](part = "fares" =>
       Fares!TypeOK /\ Fares!PeaksAreFresh /\ Fares!FareIsTraceable /\ Fares!AcceptedFareStands)
  /\ [](part = "configs" =>
       Configs!TypeOK /\ Configs!StoredIsSound /\ Configs!PolicyTellsTheLimits /\
         Configs!BookableIsConfigured)
  /\ [][part = "configs" => Configs!EditsOutliveBootsStep]_vars

\* A list is its rider's own (autocomplete), also when it was fetched for somebody else: distances
\* are from where the rider is, the best match of the curated places leads in the service area
\* whether or not the provider answers, a name comes twice only for places far apart, and the
\* limit is kept.
\* What the provider answered for a query is served to riders of its area for a cache life and no
\* longer, and to nobody else: each place in a list is a curated one or one the provider had named
\* for that query within the life of the cache (or had not yet when the rider asked).
\* The provider is asked once at a time for a key, and whoever waits is waited for by that call.
\* A place is where the last admin who moved it put it, unless an edit that read the point before
\* the move wrote the old one back after it.
\* A photo that a phone keeps under a version is that photo, however the place changed between the
\* list and the request for the photo.
\* Every edit that was applied is audited or answered 404 because its place was deleted under it,
\* and every place that is gone has a record that says who deleted it.
\* Seeding is for the first boot: restarts do not add the seeds again to the places that are left,
\* though each of the instances that found the collection empty adds them (no unique index).
\* A rider has one Home and one Work, over rows of either release, while two phones save it for
\* the first time, and through a start that failed half way, unless one was saved when a failed
\* start had left no index at all.
\* No two of a rider's own places share a label, and there are more than the limit only if two
\* phones added at once (the count and the create are apart).
\* A Home or Work the rider sees is one the rider can replace: once a start has gone through, the
\* row has its slot, so that the next save finds it (backfill before the old index goes).
\* A rider whose pickup is served all the while is not turned away, unless the first zone came into
\* force between the two reads; and one who gets a ride was served at some moment between them.
\* The last audit record of a zone's status tells its status (setStatus and the admin endpoints, which
\* save first and record after), unless two switches of the zone were in flight together.
\* The boundary check is exact (polygonFromPoints): an outline that is simple is never refused for
\* its shape, and one that passes is simple unless it runs back along one of its own edges, which
\* the orientations cannot see and the index of MongoDB refuses.
PlacesHold ==
  /\ part = "search" =>
    Search!TypeOK /\ Search!ListIsTheirs /\ Search!ServedIsRecent /\ Search!OneCallPerKey
  /\ part = "popular" =>
    Popular!TypeOK /\ Popular!PlaceIsWhereItWasPut /\ Popular!KeptPhotosAreTheirs /\
      Popular!EditsAreAudited
  /\ part = "seeding" =>
    Seeding!TypeOK /\ Seeding!SeededByTheFirstBoots
  /\ part = "saved" =>
    Saved!TypeOK /\ Saved!OneOfEach /\ Saved!LabelsDiffer /\ Saved!OthersAreFew /\
      Saved!ShownIsReplaceable
  /\ part = "zones" =>
    Areas!TypeOK /\ Areas!ServedAreNotRefused /\ Areas!AuditTellsTheStatus
  /\ part = "shapes" =>
    Shapes!TypeOK /\ Shapes!BoundaryCheckIsExact

-----------------------------------------------------------------------------
(* Proofs about the composition, for any number of actors, any bounds, and the behaviours that
   Bounds cuts off too. *)

ReconPart == part = "recon" => RunInv
CodesPart == (part = "codes" => CodeInv) /\ (part = "noCodes" => NoCodeTypes)

\* A behaviour stays with its service, whose steps it takes.
LEMMA PartStays ==
  Next => /\ part' = part
          /\ part = "recon" => Recon!Next
          /\ part = "codes" => Codes!Next
          /\ part = "noCodes" => NoCodes!Next
  BY DEF Next

LEMMA ReconPartHolds == Spec => []ReconPart
  <1>1. Init => ReconPart
    BY PaymentsAreNamed, RunsBegin DEF Init, ReconPart
  <1>2. ReconPart /\ [Next]_vars => ReconPart'
    <2>1. ReconPart /\ Next => ReconPart'
      BY PartStays, PaymentsAreNamed, RunStep DEF ReconPart
    <2>2. ReconPart /\ UNCHANGED vars => ReconPart'
      BY PaymentsAreNamed, RunStep DEF ReconPart, vars, reconVars, Recon!reconciliationVars
    <2> QED BY <2>1, <2>2
  <1> QED BY <1>1, <1>2, PTL DEF Spec

\* A finished reconciliation names every capture the books lack, and heals and accuses only where
\* the bill and Razorpay say so, for any number of runs, pages and failures
\* (PaymentReconciliationService).
THEOREM ReconciliationIsSafe == Spec => []ReconciliationHolds
  <1>1. ReconPart => ReconciliationHolds
    BY PaymentsAreNamed, RunShows DEF ReconPart, ReconciliationHolds
  <1> QED BY <1>1, ReconPartHolds, PTL

LEMMA CodesPartHolds == Spec => []CodesPart
  <1>1. Init => CodesPart
    BY CodesBounded, NoCodesBounded, CodesBegin, NoCodeTypesBegin DEF Init, CodesPart
  <1>2. CodesPart /\ [Next]_vars => CodesPart'
    <2>1. CodesPart /\ Next => CodesPart'
      BY PartStays, CodesBounded, NoCodesBounded, CodesStep, NoCodeTypesStep DEF CodesPart
    <2>2. UNCHANGED vars => UNCHANGED Codes!tripVars /\ UNCHANGED NoCodes!tripVars /\ part' = part
      BY DEF vars, codesVars, Codes!tripVars, Codes!ride, NoCodes!tripVars, NoCodes!ride
    <2>3. CodesPart /\ UNCHANGED vars => CodesPart'
      BY <2>2, CodesBounded, NoCodesBounded, CodesStep, NoCodeTypesStep DEF CodesPart
    <2> QED BY <2>1, <2>3
  <1> QED BY <1>1, <1>2, PTL DEF Spec

\* Whichever guesses, requests and overrides overlap, lapse or die, a code is guessed a limited number
\* of times, a replaced one opens nothing, a code ends the request that stands, and the driver ends
\* alone only what has waited, for any number of handlers, codes and requests
\* (RideLifecycleService).
THEOREM TripCodesAreSafe == Spec => TripCodesHold
  <1>1. CodesPart => (part = "codes" =>
                        Codes!TypeOK /\ Codes!GuessesAreLimited /\ Codes!CodeEndsTheStandingRequest /\
                          Codes!OverrideHasWaited)
    BY DEF CodesPart, CodeInv, CodeTypes, EndInv, GuessInv
  <1>2. CodesPart /\ [Next]_vars => [part = "codes" => Codes!ReplacedCodeOpensNothingStep]_vars
    BY PartStays, CodeSteps DEF CodesPart
  <1>3. CodesPart /\ [Next]_vars => [part = "codes" => Codes!RequestStandsStep]_vars
    BY PartStays, CodeSteps DEF CodesPart
  <1>4. CodesPart => (part = "noCodes" => NoCodes!TypeOK)
    BY DEF CodesPart, NoCodeTypes
  <1> QED BY <1>1, <1>2, <1>3, <1>4, CodesPartHolds, PTL DEF Spec, TripCodesHold
=============================================================================
