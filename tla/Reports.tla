------------------------------ MODULE Reports ------------------------------
(***************************************************************************)
(* The admin's reports: a range of local days in the business time zone,   *)
(* and the figures that are aggregated over it from the rides, payments,   *)
(* earnings, cancellations and redemptions.  A report asks several queries *)
(* at once; each sees the books of its own moment while rides go on.       *)
(* Counts of users and driver profiles, averages, labels and the caps on   *)
(* the lists are left out: each is one query that nothing is compared with.*)
(***************************************************************************)
EXTENDS Integers, FiniteSets, FiniteSetsExt

CONSTANTS
  Rides, Histories, \* the rides, and what the books may say of them at first
  CustomerOf, DriverOf, TypeOf,
  Fare, Discount, Commission, CancellationFee,   \* rupees
  DAY, OFFSET,      \* ticks of a day; how far local time is ahead of UTC
  MaxRangeDays,     \* REPORT_MAX_RANGE_DAYS
  Asked,            \* the first and last days of the ranges that are asked for, counted from today
  FirstTick, MaxTime, MaxWrites

VARIABLES
  now,
  ride,      \* the books, ride by ride
  report,    \* the report being made: [pc, kind, range, asked, early, held, quiet, figures]
  writes     \* writes to the books

reportVars == <<now, ride, report, writes>>

None == "none"
RideStatus == {"SEARCHING", "DRIVER_ASSIGNED", "DRIVER_ACCEPTED", "DRIVER_ARRIVED", "RIDE_STARTED",
               "COMPLETED", "CANCELLED", "NO_DRIVER_AVAILABLE"}
Active == {"SEARCHING", "DRIVER_ASSIGNED", "DRIVER_ACCEPTED", "DRIVER_ARRIVED", "RIDE_STARTED"}
RideActorType == {"CUSTOMER", "DRIVER", "ADMIN"}
Ticks == -1..MaxTime
\* left and by: of a cancelled ride; bill, paidAt, refunded: of its payment; paid: its paymentStatus
\* says so; credited: its earning line is there; recorded and fee: of its cancellation record.
Books ==
  [status : RideStatus \cup {None}, requestedAt : Ticks, endedAt : Ticks,
   left : Active \cup {None}, by : RideActorType \cup {None}, recorded : BOOLEAN,
   fee : {None, "DUE", "COLLECTED", "WAIVED"},
   bill : {None, "CAPTURED", "PARTIALLY_REFUNDED", "REFUNDED"}, gateway : {None, "RAZORPAY", "CASH"},
   paidAt : Ticks, refunded : Nat, refundedAt : Ticks, paid : BOOLEAN, credited : BOOLEAN,
   promo : {None, "RESERVED", "REDEEMED", "RELEASED"}]
Idle == [pc |-> "idle"]

Init == now = FirstTick /\ ride \in Histories /\ report = Idle /\ writes = 0

-----------------------------------------------------------------------------
(* Ranges.  Zones have a fixed offset here.                                *)

LocalDay(t) == (t + OFFSET) \div DAY
Midnight(day) == day * DAY - OFFSET
NextMidnight(day) == Midnight(day + 1)
Today == LocalDay(now)
Between(first, last) == [from |-> Midnight(first), to |-> NextMidnight(last), days |-> first..last]
\* resolveReportRange of the presets and of two dates.
Ranges ==
  {Between(Today + d[1], Today + d[2]) : d \in {e \in Asked : e[2] - e[1] < MaxRangeDays}}
In(range, t) == range.from <= t /\ t < range.to

-----------------------------------------------------------------------------
(* The queries                                                             *)

Sum(f, S) == MapThenSumSet(LAMBDA r : f[r], S)
One == [r \in Rides |-> 1]
\* $group by the local day, and one row for each day of the range.
GroupDay(t) == LocalDay(t)
ByDay(range, f, S, at) ==
  [d \in range.days |-> Sum(f, {r \in S : GroupDay(at[r]) = d})]
Requested(range) == {r \in Rides : ride[r].status # None /\ In(range, ride[r].requestedAt)}
Ended(range, status) == {r \in Rides : ride[r].status = status /\ In(range, ride[r].endedAt)}
RequestedAt == [r \in Rides |-> ride[r].requestedAt]
EndedAt == [r \in Rides |-> ride[r].endedAt]
PaidAt == [r \in Rides |-> ride[r].paidAt]

CompletedValue(range) ==
  [value |-> Sum(Fare, Ended(range, "COMPLETED")), discounts |-> Sum(Discount, Ended(range, "COMPLETED"))]
settledPaymentStatuses == {"CAPTURED", "REFUNDED", "PARTIALLY_REFUNDED"}
Payable == [r \in Rides |-> Fare[r] - Discount[r]]
Paid(range) == {r \in Rides : ride[r].bill \in settledPaymentStatuses /\ In(range, ride[r].paidAt)}
Collected(range) ==
  [online |-> Sum(Payable, {r \in Paid(range) : ride[r].gateway # "CASH"}),
   cash |-> Sum(Payable, {r \in Paid(range) : ride[r].gateway = "CASH"})]
\* The lines carry the moment the ride was completed at.
Lines(range) == {r \in Rides : ride[r].credited /\ In(range, ride[r].endedAt)}
EarningsTotals(range) ==
  [net |-> Sum(Fare, Lines(range)) - Sum(Commission, Lines(range)),
   commission |-> Sum(Commission, Lines(range)), discounts |-> Sum(Discount, Lines(range))]
Records(range) == {r \in Rides : ride[r].recorded /\ In(range, ride[r].endedAt)}
FeeTotals(range) ==
  [s \in {"DUE", "COLLECTED", "WAIVED"} |->
     CancellationFee * Cardinality({r \in Records(range) : ride[r].fee = s})]
Refunds(range) == Sum([r \in Rides |-> ride[r].refunded], {r \in Rides : In(range, ride[r].refundedAt)})
Unpaid(range) == {r \in Ended(range, "COMPLETED") : ~ride[r].paid}
OfActor(range, actor) == {r \in Records(range) : ride[r].by = actor}
Redemptions(range, statuses) ==
  {r \in Rides : ride[r].promo \in statuses /\ In(range, ride[r].requestedAt)}

\* Rides requested in the range, by where they ended up: one aggregation.
RidesReport(range) ==
  [outcomes |->
     [byStatus |-> [s \in RideStatus |-> Cardinality({r \in Requested(range) : ride[r].status = s})],
      byType |-> [t \in {TypeOf[r] : r \in Rides} |-> Cardinality({r \in Requested(range) : TypeOf[r] = t})],
      byDay |-> ByDay(range, One, Requested(range), RequestedAt)]]
OverviewReport(range) ==
  [rides |-> [requested |-> Cardinality(Requested(range)),
              completed |-> Cardinality(Ended(range, "COMPLETED")),
              cancelled |-> Cardinality(Ended(range, "CANCELLED")),
              noDriver |-> Cardinality(Ended(range, "NO_DRIVER_AVAILABLE"))],
   money |-> CompletedValue(range), collected |-> Collected(range),
   earnings |-> EarningsTotals(range), fees |-> FeeTotals(range)]
RevenueReport(range) ==
  [booked |-> Sum(Fare, Requested(range)), value |-> CompletedValue(range),
   collected |-> Collected(range), refunds |-> Refunds(range), fees |-> FeeTotals(range),
   earnings |-> EarningsTotals(range), unpaid |-> Sum(Payable, Unpaid(range)),
   valueByDay |-> ByDay(range, Fare, Ended(range, "COMPLETED"), EndedAt),
   collectedByDay |-> ByDay(range, Payable, Paid(range), PaidAt),
   commissionByDay |-> ByDay(range, Commission, Lines(range), EndedAt)]
Drivers == {DriverOf[r] : r \in Rides}
Driven(range, d) ==
  {r \in Ended(range, "COMPLETED") \cup {c \in Ended(range, "CANCELLED") : ride[c].by = "DRIVER"} : DriverOf[r] = d}
DriversReport(range) ==
  [perDriver |-> [d \in Drivers |-> Cardinality(Driven(range, d) \cap Ended(range, "COMPLETED"))],
   activeInRange |-> Cardinality({DriverOf[r] : r \in Ended(range, "COMPLETED")})]
CustomersReport(range) ==
  [active |-> Cardinality({CustomerOf[r] : r \in Requested(range)}),
   bookings |-> Cardinality(Requested(range)),
   activeByDay |-> [d \in range.days |->
      Cardinality({CustomerOf[r] : r \in {q \in Requested(range) : GroupDay(ride[q].requestedAt) = d}})]]
CancellationsReport(range) ==
  [records |-> [byActor |-> [a \in RideActorType |-> Cardinality(OfActor(range, a))],
                byDay |-> [a \in RideActorType |-> ByDay(range, One, OfActor(range, a), EndedAt)]],
   fees |-> FeeTotals(range)]
PromotionsReport(range) ==
  [byStatus |-> [s \in {"RESERVED", "REDEEMED", "RELEASED"} |-> Cardinality(Redemptions(range, {s}))],
   discountGiven |-> Sum(Discount, {r \in Ended(range, "COMPLETED") : ride[r].promo # None})]

Kinds == {"rides", "overview", "revenue", "drivers", "customers", "cancellations", "promotions"}
Figures(kind, range) ==
  CASE kind = "rides" -> RidesReport(range)
    [] kind = "overview" -> OverviewReport(range)
    [] kind = "revenue" -> RevenueReport(range)
    [] kind = "drivers" -> DriversReport(range)
    [] kind = "customers" -> CustomersReport(range)
    [] kind = "cancellations" -> CancellationsReport(range)
    [] kind = "promotions" -> PromotionsReport(range)

\* One query is answered before, and the others after, whatever is written meanwhile.
Ask(kind, range) ==
  /\ report = Idle
  /\ \E q \in DOMAIN Figures(kind, range) :
       report' = [pc |-> "open", kind |-> kind, range |-> range, asked |-> now, early |-> q,
                  held |-> Figures(kind, range)[q], quiet |-> TRUE]
  /\ UNCHANGED <<now, ride, writes>>
Answer ==
  /\ report.pc = "open"
  /\ report' = [pc |-> "done", kind |-> report.kind, range |-> report.range, asked |-> report.asked,
                quiet |-> report.quiet,
                figures |-> [Figures(report.kind, report.range) EXCEPT ![report.early] = report.held]]
  /\ UNCHANGED <<now, ride, writes>>
Deliver == report.pc = "done" /\ report' = Idle /\ UNCHANGED <<now, ride, writes>>

-----------------------------------------------------------------------------
(* What goes on meanwhile.  A handler stamps its change when it begins and *)
(* saves it in the same tick or in the next one.                           *)

Writes(r, books) ==
  /\ report.pc # "done" /\ writes < MaxWrites /\ writes' = writes + 1
  /\ ride' = [ride EXCEPT ![r] = books]
  /\ report' = IF report.pc = "open" THEN [report EXCEPT !.quiet = FALSE] ELSE report
  /\ UNCHANGED now
Stamps(after) == {t \in {now - 1, now} : t >= after /\ t >= FirstTick}

Book(r) ==
  /\ ride[r].status = None
  /\ \E t \in Stamps(0) :
       Writes(r, [ride[r] EXCEPT !.status = "SEARCHING", !.requestedAt = t,
                                 !.promo = IF Discount[r] > 0 THEN "RESERVED" ELSE None])
NextStatus ==
  [SEARCHING |-> "DRIVER_ASSIGNED", DRIVER_ASSIGNED |-> "DRIVER_ACCEPTED", DRIVER_ACCEPTED |-> "DRIVER_ARRIVED",
   DRIVER_ARRIVED |-> "RIDE_STARTED"]
Advance(r) ==
  /\ ride[r].status \in DOMAIN NextStatus
  /\ Writes(r, [ride[r] EXCEPT !.status = NextStatus[@]])
Complete(r) ==
  /\ ride[r].status = "RIDE_STARTED"
  /\ \E t \in Stamps(ride[r].requestedAt) : Writes(r, [ride[r] EXCEPT !.status = "COMPLETED", !.endedAt = t])
Cancel(r, actor) ==
  /\ ride[r].status \in Active \ {"RIDE_STARTED"}
  /\ \E t \in Stamps(ride[r].requestedAt) :
       Writes(r, [ride[r] EXCEPT !.status = "CANCELLED", !.endedAt = t, !.left = ride[r].status, !.by = actor])
NoDriver(r) ==
  /\ ride[r].status = "SEARCHING"
  /\ \E t \in Stamps(ride[r].requestedAt) :
       Writes(r, [ride[r] EXCEPT !.status = "NO_DRIVER_AVAILABLE", !.endedAt = t])
\* The cancellation record follows the ride; a fee is due of the customer only.
Record(r) ==
  /\ ride[r].status = "CANCELLED" /\ ~ride[r].recorded
  /\ \E fee \in IF ride[r].by = "CUSTOMER" THEN {None, "DUE"} ELSE {None} :
       Writes(r, [ride[r] EXCEPT !.recorded = TRUE, !.fee = fee])
ResolveFee(r, to) == ride[r].fee = "DUE" /\ Writes(r, [ride[r] EXCEPT !.fee = to])
\* A capture, the ride's payment status and the earning line, in this order.
Pay(r, gateway) ==
  /\ ride[r].status = "COMPLETED" /\ ride[r].bill = None
  /\ \E t \in Stamps(ride[r].endedAt) :
       Writes(r, [ride[r] EXCEPT !.bill = "CAPTURED", !.gateway = gateway, !.paidAt = t])
MarkPaid(r) == ride[r].bill # None /\ ~ride[r].paid /\ Writes(r, [ride[r] EXCEPT !.paid = TRUE])
Credit(r) == ride[r].paid /\ ~ride[r].credited /\ Writes(r, [ride[r] EXCEPT !.credited = TRUE])
Refund(r, amount) ==
  /\ ride[r].bill \in {"CAPTURED", "PARTIALLY_REFUNDED"} /\ ride[r].gateway = "RAZORPAY"
  /\ ride[r].refunded + amount <= Payable[r]
  /\ Writes(r, [ride[r] EXCEPT !.refunded = @ + amount, !.refundedAt = now,
                  !.bill = IF ride[r].refunded + amount = Payable[r] THEN "REFUNDED" ELSE "PARTIALLY_REFUNDED"])
SettlePromo(r) ==
  /\ ride[r].promo = "RESERVED" /\ ride[r].status \notin Active
  /\ Writes(r, [ride[r] EXCEPT !.promo = IF ride[r].status = "COMPLETED" THEN "REDEEMED" ELSE "RELEASED"])
Tick ==
  /\ report.pc # "done" /\ now < MaxTime /\ now' = now + 1
  /\ UNCHANGED <<ride, report, writes>>

Next ==
  \/ Tick \/ Answer \/ Deliver
  \/ \E kind \in Kinds, range \in Ranges : Ask(kind, range)
  \/ \E r \in Rides :
       \/ Book(r) \/ Advance(r) \/ Complete(r) \/ NoDriver(r) \/ Record(r) \/ MarkPaid(r) \/ Credit(r)
       \/ SettlePromo(r)
       \/ \E actor \in RideActorType : Cancel(r, actor)
       \/ \E to \in {"COLLECTED", "WAIVED"} : ResolveFee(r, to)
       \/ \E gateway \in {"RAZORPAY", "CASH"} : Pay(r, gateway)
       \/ Refund(r, 1) \/ Refund(r, Payable[r])

Spec == Init /\ [][Next]_reportVars

-----------------------------------------------------------------------------
\* Type invariant.
TypeOK ==
  /\ now \in FirstTick..MaxTime /\ ride \in [Rides -> Books] /\ writes \in 0..MaxWrites
  /\ report.pc \in {"idle", "open", "done"}

Done(kind) == report.pc = "done" /\ report.kind = kind
DaysTotal(rows) == MapThenSumSet(LAMBDA d : rows[d], DOMAIN rows)
\* The range was over for a tick before the report was asked for.
Over(range, t) == range.to < t
\* Nothing that is stamped in the range can be saved while the report is made.
Still == report.quiet \/ Over(report.range, report.asked)

\* "cohort outcomes add up, with ride-type, zone and day breakdowns" (phase7.e2e-spec.ts:1762),
\* also while rides move: every ride requested in the range is in exactly one outcome, one type
\* and one local day.
OutcomesAddUp ==
  Done("rides") =>
    LET o == report.figures.outcomes
        searching == o.byStatus["SEARCHING"]
        assigned == o.byStatus["DRIVER_ASSIGNED"]
        inProgress == o.byStatus["DRIVER_ACCEPTED"] + o.byStatus["DRIVER_ARRIVED"] + o.byStatus["RIDE_STARTED"]
        final == o.byStatus["COMPLETED"] + o.byStatus["CANCELLED"] + o.byStatus["NO_DRIVER_AVAILABLE"]
        requested == DaysTotal(o.byStatus) IN
    /\ requested = searching + assigned + inProgress + final
    /\ DaysTotal(o.byDay) = requested /\ DaysTotal(o.byType) = requested

\* The days of a revenue report add up to its totals, though each is a query of its own: always
\* when nothing was written meanwhile, and for the trips and the money of a range that is over
\* even while payments, refunds and credits go on.
RevenueAddsUp ==
  Done("revenue") =>
    LET f == report.figures IN
    /\ Still => /\ DaysTotal(f.valueByDay) = f.value.value
                /\ DaysTotal(f.collectedByDay) = f.collected.online + f.collected.cash
    /\ report.quiet => DaysTotal(f.commissionByDay) = f.earnings.commission

\* "Net platform revenue: commission - promo discounts" (docs/phase-7/README.md:191) and the
\* value of the trips agree with the ledger once every trip of the range is credited.
LedgerAgrees ==
  Done("revenue") /\ report.quiet =>
    (Ended(report.range, "COMPLETED") = Lines(report.range) =>
       LET f == report.figures IN
       /\ f.earnings.net + f.earnings.commission = f.value.value
       /\ f.earnings.discounts = f.value.discounts
       /\ f.unpaid = 0)

\* The drivers who were active are those the per-driver rows give a completed trip; the actors
\* of the cancellations are all of them, day by day; a customer who was active on a day of the
\* range was active in it.
PartsAgree ==
  /\ Done("drivers") /\ Still =>
       Cardinality({d \in Drivers : report.figures.perDriver[d] > 0}) = report.figures.activeInRange
  /\ Done("cancellations") =>
       \A a \in RideActorType : DaysTotal(report.figures.records.byDay[a]) = report.figures.records.byActor[a]
  /\ Done("customers") /\ Still =>
       /\ \A d \in report.range.days : report.figures.activeByDay[d] <= report.figures.active
       /\ report.figures.active <= report.figures.bookings
       /\ DaysTotal(report.figures.activeByDay) >= report.figures.active

ReportsReconcile == OutcomesAddUp /\ RevenueAddsUp /\ LedgerAgrees /\ PartsAgree

\* What was completed and collected in a range that is over stays as it was reported, whatever is
\* paid, credited or refunded later.  (Earnings and refunds of such a range do still change.)
ClosedRangesStandStep ==
  \A range \in Ranges : Over(range, now) =>
    CompletedValue(range)' = CompletedValue(range) /\ Collected(range)' = Collected(range)
ClosedRangesStand == [][ClosedRangesStandStep]_reportVars
=============================================================================
