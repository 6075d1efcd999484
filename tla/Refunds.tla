------------------------------ MODULE Refunds -------------------------------
(***************************************************************************)
(* Refunds of one ride's captured Razorpay payment: the admin's request,   *)
(* Razorpay's answers by webhook and reconciler, refunds made in Razorpay's *)
(* dashboard, and what follows each change: the payment's totals, the      *)
(* ride's status, the driver's adjustment.                                 *)
(*                                                                         *)
(* Every database operation and every answer of Razorpay is one atomic     *)
(* step, as in module Payments.  Refunds of duplicate captures touch       *)
(* neither totals nor driver and are left out.                             *)
(***************************************************************************)
EXTENDS Integers, Sequences, FiniteSets, FiniteSetsExt

CONSTANTS
  Keys,         \* idempotency keys of admin requests: one refund record each
  Externals,    \* records of refunds made in the dashboard
  GwRefunds,    \* ids Razorpay gives to refunds
  Calls,        \* slots for handlers in flight
  NoRefund, NoGw, \* an absent id
  Paid,         \* amountPaise, in units of MIN_REFUND_PAISE
  Earning,      \* gross and commission of the ride's earning line
  MaxFailures   \* bound: calls that die or give up half-way

Refs == Keys \cup Externals

ASSUME RefundIdsDistinct ==
  NoRefund \notin Refs /\ NoGw \notin GwRefunds /\ Keys \cap Externals = {}
ASSUME FinitelyMany == IsFiniteSet(Refs) /\ IsFiniteSet(GwRefunds)
ASSUME AmountsAreNatural ==
  /\ Paid \in Nat \ {0} /\ MaxFailures \in Nat
  /\ Earning.gross \in Nat /\ Earning.commission \in 0..Earning.gross

VARIABLES
  bill,         \* status, refundAmountPaise, refundPendingPaise
  locked,       \* refundLockUntil is in the future
  ride,         \* paymentStatus, payment.refundedAmount
  earning,      \* the ride's earning line exists
  refund,       \* the payment_refunds documents
  aged,         \* refunds older than REQUESTED_ABANDON_MS
  adjustments,  \* the driver_earning_adjustments of the line
  gateway,      \* what Razorpay knows of each refund
  call,         \* call[p]: the handler in slot p and its locals
  failures

money == <<bill, locked, ride, earning, refund, adjustments>>
vars  == <<money, aged, gateway, call, failures>>

-----------------------------------------------------------------------------
ACTIVE_REFUND_STATUSES == {"REQUESTED", "PENDING", "PROCESSED"}
UNSETTLED == {"REQUESTED", "PENDING"}

RefundDoc == [status : {"NONE", "FAILED"} \cup ACTIVE_REFUND_STATUSES,
              amount : 0..Paid,
              gw     : GwRefunds \cup {NoGw},       \* razorpayRefundId
              impact : {"PROPORTIONAL", "NONE"},    \* driverImpact
              review : BOOLEAN,                     \* needsReview
              ledger : {"PENDING", "RECORDED", "NOT_APPLICABLE"}]
\* What the payment, the ride and the ledger keep of the refunds, and what Razorpay does.
RefundTotals == [status : {"CAPTURED", "PARTIALLY_REFUNDED", "REFUNDED"},
                 refunded : 0..Paid, pending : Nat]
RidePaymentSummary == [status : {"PENDING", "SUCCESS", "PARTIALLY_REFUNDED", "REFUNDED"},
                       refunded : 0..Paid]
DriverEarningAdjustment == [ref : Refs, refund : 1..Paid, gross : Nat, commission : Nat, amount : Nat]
RazorpayRefund == [status : {"none", "pending", "processed", "failed"},
                   amount : 0..Paid, for : Keys \cup {NoRefund}]

NoDoc == [status |-> "NONE", amount |-> 0, gw |-> NoGw, impact |-> "NONE",
          review |-> FALSE, ledger |-> "PENDING"]

Existing == {r \in Refs : refund[r].status # "NONE"}
Amounts == [r \in Refs |-> refund[r].amount]
Total(statuses) == SumFunctionOnSet(Amounts, {r \in Refs : refund[r].status \in statuses})

\* The requested, pending and processed refunds, and what they leave of the payment.
Reserved == Total(ACTIVE_REFUND_STATUSES)
RefundableFare(reserved) == Earning.gross - reserved
Refundable(reserved) == Paid - reserved

\* Razorpay refunds no more than was captured.
GwAmounts == [g \in GwRefunds |-> gateway[g].amount]
AtGateway(statuses) ==
  SumFunctionOnSet(GwAmounts, {g \in GwRefunds : gateway[g].status \in statuses})
LeftAtGateway == Paid - AtGateway({"pending", "processed"})

StatusFor(processed) == IF processed >= Paid THEN "REFUNDED"
                        ELSE IF processed > 0 THEN "PARTIALLY_REFUNDED" ELSE "CAPTURED"

\* What applyLedger still has to do for a document.
DueIfUnreviewed(doc) ==
  CASE doc.status = "PROCESSED" /\ doc.ledger = "PENDING" /\ doc.impact = "NONE" -> "mark"
    [] doc.status = "PROCESSED" /\ doc.ledger = "PENDING" /\ doc.impact # "NONE" -> "clawback"
    [] OTHER -> "nothing"
Due(doc) == IF doc.review THEN "nothing" ELSE DueIfUnreviewed(doc)

Unadjusted == [gross |-> 0, commission |-> 0, amount |-> 0]

Idle == [pc |-> "idle", ref |-> NoRefund, gw |-> NoGw, to |-> "REQUESTED",
         fresh |-> FALSE, processed |-> 0, pending |-> 0, after |-> "done",
         due |-> "nothing", reversal |-> Unadjusted, reserved |-> 0,
         todo |-> {}, syncs |-> "no"]

Running(p, label) == call[p].pc = label
Become(p, c) == call' = [call EXCEPT ![p] = c]
Goto(p, label) == Become(p, [call[p] EXCEPT !.pc = label])

\* The end of one refund's chain: syncPayment takes the next one.
Done(c) == IF c.syncs = "no" THEN Idle
           ELSE [Idle EXCEPT !.pc = c.syncs, !.syncs = c.syncs, !.todo = c.todo]
Finish(p) == Become(p, Done(call[p]))

LedgerStep(c) ==
  CASE c.due = "mark"     -> [c EXCEPT !.pc = "mark"]
    [] c.due = "clawback" -> [c EXCEPT !.pc = "clawFind"]
    [] c.due = "nothing"  -> Done(c)

\* The continuation of recomputeTotals: of the request (unlock), of afterChange
\* (ride, then ledger) or of syncPayment.
AfterTotals(c, known) ==
  CASE c.after = "unlock" -> [c EXCEPT !.pc = "unlock", !.processed = 0, !.pending = 0]
    [] c.after = "ride" /\ known /\ c.processed > 0 -> [c EXCEPT !.pc = "ride"]
    [] c.after = "ride" /\ ~(known /\ c.processed > 0) -> LedgerStep(c)
    [] c.after = "done"   -> Idle

\* applyGatewayRefund of what Razorpay said of its refund g, for record r.
STATUS_FOR == [pending |-> "PENDING", processed |-> "PROCESSED", failed |-> "FAILED"]
Apply(c, r, g, said) ==
  [c EXCEPT !.pc = "facts", !.ref = r, !.gw = g, !.to = STATUS_FOR[said]]

-----------------------------------------------------------------------------
(* refundClawback: the driver's share of one refund, in whole paise.  The  *)
(* code rounds a floating-point product half-up; here it is the exact      *)
(* rational that is rounded half-up.                                       *)

AtLeastZero(n) == IF n < 0 THEN 0 ELSE n
Lesser(m, n) == IF m <= n THEN m ELSE n

\* Math.round(whole * (part / total))
Share(whole, part, total) == (2 * whole * part + total) \div (2 * total)

\* What is left of the line after the reversals recorded so far.
Remaining(recorded, reversed) == AtLeastZero(recorded - reversed)

FullyRefunded(paid, part, previous) == previous.refunds + part >= paid

ReversalUncapped(recorded, reversed, paid, part, full) ==
  IF full THEN Remaining(recorded, reversed) ELSE Share(recorded, part, paid)
Reversal(recorded, reversed, paid, part, full) ==
  IF full THEN Remaining(recorded, reversed)
          ELSE Lesser(Remaining(recorded, reversed), Share(recorded, part, paid))

\* line holds what was recorded, gross and commission; previous sums the adjustments
\* already recorded on it.  (Amounts without a refund or a payment reverse
\* nothing; callers here pass positive ones.)
RefundClawback(line, paid, part, previous) ==
  LET full == FullyRefunded(paid, part, previous)
      gross == Reversal(line.gross, previous.gross, paid, part, full)
      commission == Reversal(line.commission, previous.commission, paid, part, full)
  IN [gross |-> gross, commission |-> commission,
      amount |-> AtLeastZero(gross - commission)]

-----------------------------------------------------------------------------
\* Either the payment was credited, or a handler died before afterCapture.
Init ==
  /\ bill = [status |-> "CAPTURED", refunded |-> 0, pending |-> 0]
  /\ locked = FALSE
  /\ refund = [r \in Refs |-> NoDoc]
  /\ aged = {}
  /\ adjustments = <<>>
  /\ gateway = [g \in GwRefunds |-> [status |-> "none", amount |-> 0, for |-> NoRefund]]
  /\ call = [p \in Calls |-> Idle]
  /\ failures \in {0, 1} \cap 0..MaxFailures
  /\ earning = (failures = 0)
  /\ ride = [status |-> IF earning THEN "SUCCESS" ELSE "PENDING", refunded |-> 0]

(***************************************************************************)
(* Razorpay.                                                               *)
(***************************************************************************)
\* Somebody refunds in Razorpay's dashboard (bound: one for each record).
DashboardRefund(g, amount) ==
  /\ gateway[g].status = "none"
  /\ amount <= LeftAtGateway
  /\ Cardinality({h \in GwRefunds : gateway[h].status # "none" /\ gateway[h].for = NoRefund})
       < Cardinality(Externals)
  /\ gateway' = [gateway EXCEPT ![g] = [status |-> "pending", amount |-> amount, for |-> NoRefund]]
  /\ UNCHANGED <<money, aged, call, failures>>

GatewayMoves(g) ==
  /\ gateway[g].status = "pending"
  /\ \E said \in {"processed", "failed"} : gateway' = [gateway EXCEPT ![g].status = said]
  /\ UNCHANGED <<money, aged, call, failures>>

\* refund.created, refund.processed, refund.failed, in any order and number.
Reported(g) == {said \in {"pending", "processed", "failed"} :
                  gateway[g].status \in {said} \cup (IF said = "pending" THEN {"processed", "failed"} ELSE {})}

\* REFUND_LOCK_MS outlives the few operations done under the lock, so the
\* lease only ever runs out on a holder that died.
HoldsLock(p) == \/ call[p].pc \in {"reserve", "insert", "unlock"}
                \/ call[p].pc \in {"totals", "write"} /\ call[p].after = "unlock"
LeaseExpires ==
  /\ locked /\ \A p \in Calls : ~HoldsLock(p)
  /\ locked' = FALSE
  /\ UNCHANGED <<bill, ride, earning, refund, adjustments, aged, gateway, call, failures>>

\* 15 minutes pass: far longer than a request waits for Razorpay, or a sync runs.
RefundAges(r) ==
  /\ refund[r].status = "REQUESTED" /\ r \notin aged
  /\ \A p \in Calls : call[p].syncs = "no" /\
       (call[p].ref = r => ~HoldsLock(p) /\ ~Running(p, "submit"))
  /\ aged' = aged \cup {r}
  /\ UNCHANGED <<money, gateway, call, failures>>

(***************************************************************************)
(* request: reserve the amount under the lock, then ask Razorpay.          *)
(***************************************************************************)
\* A replay of a known key returns its refund.
Request(p, k) ==
  /\ Running(p, "idle")
  /\ refund[k].status = "NONE"
  /\ Become(p, [Idle EXCEPT !.pc = "lock", !.ref = k])
  /\ UNCHANGED <<money, aged, gateway, failures>>

LockShared == TRUE
LockFree == ~locked

Lock(p) ==
  /\ Running(p, "lock")
  /\ \/ LockFree /\ locked' = TRUE /\ Goto(p, "reserve")
     \/ locked /\ UNCHANGED locked /\ Become(p, Idle)      \* waited too long
  /\ UNCHANGED <<bill, ride, earning, refund, adjustments, aged, gateway, failures>>

\* reservedPaise; the request ends if nothing is left or its amount does not fit.
Reserve(p) ==
  /\ Running(p, "reserve")
  /\ \/ /\ Reserved < Paid
        /\ Become(p, [call[p] EXCEPT !.pc = "insert", !.reserved = Reserved])
     \/ Become(p, [Idle EXCEPT !.pc = "unlock"])
  /\ UNCHANGED <<money, aged, gateway, failures>>

\* The insert under the unique idempotency key: the loser returns the winner.
KeyFree(k) == refund[k].status = "NONE"

InsertRefund(p) ==
  LET c == call[p] IN
  /\ Running(p, "insert")
  /\ IF KeyFree(c.ref)
       THEN \E amount \in 1..Refundable(c.reserved), impact \in {"PROPORTIONAL", "NONE"} :
              /\ refund' = [refund EXCEPT ![c.ref] =
                   [NoDoc EXCEPT !.status = "REQUESTED", !.amount = amount, !.impact = impact]]
              /\ Become(p, [c EXCEPT !.pc = "totals", !.after = "unlock", !.reserved = 0])
       ELSE Become(p, [Idle EXCEPT !.pc = "unlock"]) /\ UNCHANGED refund
  /\ UNCHANGED <<bill, locked, ride, earning, adjustments, aged, gateway, failures>>

Unlock(p) ==
  /\ Running(p, "unlock")
  /\ locked' = FALSE
  /\ Become(p, IF call[p].ref = NoRefund THEN Idle
               ELSE [Idle EXCEPT !.pc = "submit", !.ref = call[p].ref])
  /\ UNCHANGED <<bill, ride, earning, refund, adjustments, aged, gateway, failures>>

\* Razorpay makes the refund, and its answer arrives or is lost.
SubmitAccepted(p, g) ==
  LET r == call[p].ref IN
  /\ Running(p, "submit")
  /\ gateway[g].status = "none"
  /\ refund[r].amount <= LeftAtGateway
  /\ \E said \in {"pending", "processed"} :
       /\ gateway' = [gateway EXCEPT ![g] =
                        [status |-> said, amount |-> refund[r].amount, for |-> r]]
       /\ Become(p, Idle) \/ Become(p, Apply(Idle, r, g, said))
  /\ UNCHANGED <<money, aged, failures>>

\* Razorpay refuses, or the request never reaches it.
SubmitRefused(p) ==
  /\ Running(p, "submit")
  /\ \/ Become(p, [Idle EXCEPT !.pc = "move", !.ref = call[p].ref, !.to = "FAILED"])
     \/ Become(p, Idle)
  /\ UNCHANGED <<money, aged, gateway, failures>>

(***************************************************************************)
(* syncFromGateway: the record of a Razorpay refund, by its id, by ours in *)
(* the notes, or a new one for a refund made in the dashboard.             *)
(***************************************************************************)
OwnersOf(g) == {r \in Refs : refund[r].gw = g}

\* How the handler goes on with the record it finds for Razorpay's refund g.
Found(c, g, said) ==
  IF OwnersOf(g) # {} THEN Apply(c, CHOOSE r \in OwnersOf(g) : TRUE, g, said)
  ELSE IF gateway[g].for # NoRefund THEN Apply(c, gateway[g].for, g, said)
  ELSE [Apply(c, NoRefund, g, said) EXCEPT !.pc = "external"]

Webhook(p, g, said) ==
  /\ Running(p, "idle")
  /\ said \in Reported(g)
  /\ Become(p, Found(Idle, g, said))
  /\ UNCHANGED <<money, aged, gateway, failures>>

\* recordExternal, under the unique Razorpay refund id.
GwIdUnchecked(g) == TRUE
GwIdFree(g) == OwnersOf(g) = {}

RecordExternal(p) ==
  LET c == call[p] IN
  /\ Running(p, "external")
  /\ \/ /\ GwIdFree(c.gw)
        /\ \E r \in Externals \ Existing :
             /\ refund' = [refund EXCEPT ![r] =
                  [NoDoc EXCEPT !.status = "REQUESTED", !.amount = gateway[c.gw].amount,
                                !.gw = c.gw, !.review = TRUE]]
             /\ Become(p, [c EXCEPT !.pc = "facts", !.ref = r])
     \/ /\ ~GwIdFree(c.gw)
        /\ \E r \in OwnersOf(c.gw) : Become(p, [c EXCEPT !.pc = "facts", !.ref = r])
        /\ UNCHANGED refund
  /\ UNCHANGED <<bill, locked, ride, earning, adjustments, aged, gateway, failures>>

\* applyGatewayRefund stores Razorpay's facts; another owner of the id ends it.
StoreFacts(p) ==
  LET c == call[p] IN
  /\ Running(p, "facts")
  /\ IF OwnersOf(c.gw) \subseteq {c.ref}
       THEN /\ refund' = [refund EXCEPT ![c.ref].gw = c.gw, ![c.ref].amount = gateway[c.gw].amount]
            /\ Goto(p, "move")
       ELSE Finish(p) /\ UNCHANGED refund
  /\ UNCHANGED <<bill, locked, ride, earning, adjustments, aged, gateway, failures>>

(***************************************************************************)
(* transition: a compare-and-set, then the consequences in any case.       *)
(***************************************************************************)
ALLOWED_FROM == [REQUESTED |-> {}, PENDING |-> {"REQUESTED"},
                 PROCESSED |-> {"REQUESTED", "PENDING", "FAILED"},
                 FAILED    |-> {"REQUESTED", "PENDING"}]
MayMoveAnyhow(from, to) == from # "NONE"
MayMove(from, to) == from \in ALLOWED_FROM[to]

Transition(p) ==
  LET c == call[p] IN
  /\ Running(p, "move")
  /\ refund' = IF MayMove(refund[c.ref].status, c.to)
                 THEN [refund EXCEPT ![c.ref].status = c.to] ELSE refund
  /\ Become(p, [c EXCEPT !.pc = "totals", !.after = "ride", !.due = Due(refund'[c.ref]),
                         !.gw = NoGw, !.to = "REQUESTED"])
  /\ UNCHANGED <<bill, locked, ride, earning, adjustments, aged, gateway, failures>>

(***************************************************************************)
(* recomputeTotals: read the payment with its sequence number, then its    *)
(* refunds, then write unless the number has moved.  An attempt with a     *)
(* write between the two reads fails and leaves no trace, so they are one  *)
(* step; the number is kept as fresh: nothing was written since.           *)
(***************************************************************************)
SumRefunds(p) ==
  /\ Running(p, "totals")
  /\ Become(p, [call[p] EXCEPT !.pc = "write", !.fresh = TRUE,
                    !.processed = Total({"PROCESSED"}), !.pending = Total(UNSETTLED)])
  /\ UNCHANGED <<money, aged, gateway, failures>>

FreshOrNot(c) == TRUE
Fresh(c) == c.fresh

WriteTotals(p) ==
  LET c == call[p] IN
  /\ Running(p, "write")
  /\ IF Fresh(c)
       THEN /\ bill' = [status |-> StatusFor(c.processed), refunded |-> c.processed,
                        pending |-> c.pending]
            /\ call' = [q \in Calls |->
                 IF q = p THEN AfterTotals([c EXCEPT !.fresh = FALSE, !.pending = 0], TRUE)
                          ELSE [call[q] EXCEPT !.fresh = FALSE]]
       ELSE /\ Become(p, [c EXCEPT !.pc = "totals", !.processed = 0, !.pending = 0])
            /\ UNCHANGED bill
  /\ UNCHANGED <<locked, ride, earning, refund, adjustments, aged, gateway, failures>>

\* After MAX_TOTALS_ATTEMPTS the totals are left to somebody else.
GiveUpTotals(p) ==
  /\ Running(p, "write") /\ ~call[p].fresh
  /\ failures < MaxFailures /\ failures' = failures + 1
  /\ Become(p, AfterTotals([call[p] EXCEPT !.pending = 0], FALSE))
  /\ UNCHANGED <<money, aged, gateway>>

\* afterChange moves the ride on.
RideFrom == {"SUCCESS", "PARTIALLY_REFUNDED"}

MoveRide(p) ==
  LET c == call[p] IN
  /\ Running(p, "ride")
  /\ ride' = IF ride.status \in RideFrom
               THEN [status |-> StatusFor(c.processed), refunded |-> c.processed] ELSE ride
  /\ Become(p, LedgerStep([c EXCEPT !.processed = 0]))
  /\ UNCHANGED <<bill, locked, earning, refund, adjustments, aged, gateway, failures>>

(***************************************************************************)
(* applyLedger and recordRefundClawback.                                   *)
(***************************************************************************)
SetLedger(r, state) ==
  refund' = IF refund[r].ledger = "PENDING" THEN [refund EXCEPT ![r].ledger = state] ELSE refund

MarkLedger(p) ==
  /\ Running(p, "mark") \/ Running(p, "record")
  /\ SetLedger(call[p].ref, IF Running(p, "mark") THEN "NOT_APPLICABLE" ELSE "RECORDED")
  /\ Finish(p)
  /\ UNCHANGED <<bill, locked, ride, earning, adjustments, aged, gateway, failures>>

Adjusted(r) == \E i \in DOMAIN adjustments : adjustments[i].ref = r
Recorded(field) == SumFunction([i \in DOMAIN adjustments |-> adjustments[i][field]])

FindAdjustment(p) ==
  /\ Running(p, "clawFind")
  /\ IF Adjusted(call[p].ref) THEN Goto(p, "record")
     ELSE IF earning THEN Goto(p, "clawSum") ELSE Finish(p)
  /\ UNCHANGED <<money, aged, gateway, failures>>

SumAdjustments(p) ==
  LET previous == [refunds |-> Recorded("refund"), gross |-> Recorded("gross"),
                   commission |-> Recorded("commission")]
      reversal == RefundClawback(Earning, Paid, refund[call[p].ref].amount, previous)
  IN
  /\ Running(p, "clawSum")
  /\ Become(p, IF reversal.gross = 0 /\ reversal.amount = 0
                 THEN [call[p] EXCEPT !.pc = "mark"]
                 ELSE [call[p] EXCEPT !.pc = "clawInsert", !.reversal = reversal])
  /\ UNCHANGED <<money, aged, gateway, failures>>

\* The insert under the unique refund id.
AdjustmentFree(r) == ~Adjusted(r)

InsertAdjustment(p) ==
  LET c == call[p]
      line == [ref |-> c.ref, refund |-> refund[c.ref].amount, gross |-> c.reversal.gross,
               commission |-> c.reversal.commission, amount |-> c.reversal.amount]
  IN
  /\ Running(p, "clawInsert")
  /\ adjustments' = IF AdjustmentFree(c.ref) THEN Append(adjustments, line) ELSE adjustments
  /\ Become(p, [c EXCEPT !.pc = "record", !.reversal = Unadjusted])
  /\ UNCHANGED <<bill, locked, ride, earning, refund, aged, gateway, failures>>

\* An admin decides who bears a refund made in the dashboard.
Review(p, r) ==
  /\ Running(p, "idle")
  /\ refund[r].review
  /\ \E impact \in {"PROPORTIONAL", "NONE"} :
       refund' = [refund EXCEPT ![r].review = FALSE, ![r].impact = impact]
  /\ Become(p, LedgerStep([Idle EXCEPT !.ref = r, !.due = Due(refund'[r])]))
  /\ UNCHANGED <<bill, locked, ride, earning, adjustments, aged, gateway, failures>>

(***************************************************************************)
(* The reconciler, and syncPayment.                                        *)
(***************************************************************************)
\* resolve of a refund Razorpay has given an id.
Resolve(p, r) ==
  /\ Running(p, "idle")
  /\ refund[r].status \in UNSETTLED /\ refund[r].gw # NoGw
  /\ Become(p, Apply(Idle, r, refund[r].gw, gateway[refund[r].gw].status))
  /\ UNCHANGED <<money, aged, gateway, failures>>

\* syncPayment lists what Razorpay knows (bound: one sync at a time).
Sync(p) ==
  /\ Running(p, "idle")
  /\ \A q \in Calls : call[q].syncs = "no"
  /\ Become(p, [Idle EXCEPT !.pc = "next", !.syncs = "next",
          !.todo = {<<g, gateway[g].status>> : g \in {h \in GwRefunds : gateway[h].status # "none"}}])
  /\ UNCHANGED <<money, aged, gateway, failures>>

\* By the reconciler, for a refund without an id.
SyncUnsettled(p) == Sync(p) /\ \E r \in Refs : refund[r].status \in UNSETTLED /\ refund[r].gw = NoGw

\* By a receipt of a bill with refunds pending; by a report of the payment with
\* more refunded than the bill knows of; by the daily comparison of the books.
SyncOnDemand(p) ==
  /\ Sync(p)
  /\ LET accepted == AtGateway({"pending", "processed"}) IN
       \/ bill.pending > 0
       \/ accepted > bill.refunded + bill.pending
       \/ accepted # Total({"PENDING", "PROCESSED"})

\* The old requests Razorpay has not registered (those it has got its id).
AbandonablePending == {r \in Keys \cap aged : refund[r].status = "PENDING" /\ refund[r].gw = NoGw}
Abandonable == {r \in Keys \cap aged : refund[r].status = "REQUESTED" /\ refund[r].gw = NoGw}

SyncNext(p) ==
  LET c == call[p] IN
  /\ Running(p, "next")
  /\ \/ \E item \in c.todo :
          Become(p, Found([c EXCEPT !.todo = @ \ {item}], item[1], item[2]))
     \/ c.todo = {} /\ Become(p, [c EXCEPT !.pc = "abandon", !.syncs = "abandon",
                                          !.todo = Abandonable])
  /\ UNCHANGED <<money, aged, gateway, failures>>

SyncAbandon(p) ==
  LET c == call[p] IN
  /\ Running(p, "abandon")
  /\ \/ \E r \in c.todo :
          Become(p, [c EXCEPT !.pc = "move", !.ref = r, !.to = "FAILED", !.todo = @ \ {r}])
     \/ c.todo = {} /\ Become(p, [Idle EXCEPT !.pc = "totals"])
  /\ UNCHANGED <<money, aged, gateway, failures>>

\* findLedgerPending.
ApplyProportional(p, r) ==
  /\ Running(p, "idle")
  /\ Due(refund[r]) = "clawback"
  /\ Become(p, LedgerStep([Idle EXCEPT !.ref = r, !.due = Due(refund[r])]))
  /\ UNCHANGED <<money, aged, gateway, failures>>
ApplyPending(p, r) ==
  /\ Running(p, "idle")
  /\ Due(refund[r]) # "nothing"
  /\ Become(p, LedgerStep([Idle EXCEPT !.ref = r, !.due = Due(refund[r])]))
  /\ UNCHANGED <<money, aged, gateway, failures>>

\* afterCapture of a payment without an earning line: the ride, then the line.
CreditMissing(p) ==
  /\ Running(p, "idle")
  /\ bill.status = "CAPTURED" /\ ~earning
  /\ Become(p, [Idle EXCEPT !.pc = "credit"])
  /\ UNCHANGED <<money, aged, gateway, failures>>

RidePaid(p) ==
  /\ Running(p, "credit")
  /\ ride' = IF ride.status = "PENDING" THEN [ride EXCEPT !.status = "SUCCESS"] ELSE ride
  /\ Goto(p, "earn")
  /\ UNCHANGED <<bill, locked, earning, refund, adjustments, aged, gateway, failures>>

EarningRecorded(p) ==
  /\ Running(p, "earn")
  /\ earning' = TRUE
  /\ Become(p, Idle)
  /\ UNCHANGED <<bill, locked, ride, refund, adjustments, aged, gateway, failures>>

\* A handler dies between two steps.
Fail(p) ==
  /\ ~Running(p, "idle")
  /\ failures < MaxFailures /\ failures' = failures + 1
  /\ Become(p, Idle)
  /\ UNCHANGED <<money, aged, gateway>>
-----------------------------------------------------------------------------
CallStep(p) ==
  \/ Lock(p) \/ Reserve(p) \/ InsertRefund(p) \/ Unlock(p) \/ SubmitRefused(p)
  \/ \E g \in GwRefunds : SubmitAccepted(p, g)
  \/ RecordExternal(p) \/ StoreFacts(p) \/ Transition(p)
  \/ SumRefunds(p) \/ WriteTotals(p) \/ MoveRide(p)
  \/ MarkLedger(p) \/ FindAdjustment(p) \/ SumAdjustments(p) \/ InsertAdjustment(p)
  \/ SyncNext(p) \/ SyncAbandon(p) \/ RidePaid(p) \/ EarningRecorded(p)

Next ==
  \/ \E p \in Calls :
       \/ CallStep(p) \/ GiveUpTotals(p) \/ Fail(p) \/ CreditMissing(p)
       \/ SyncUnsettled(p) \/ SyncOnDemand(p)
       \/ \E k \in Keys : Request(p, k)
       \/ \E r \in Refs : Review(p, r) \/ Resolve(p, r) \/ ApplyPending(p, r)
       \/ \E g \in GwRefunds, said \in DOMAIN STATUS_FOR : Webhook(p, g, said)
  \/ \E g \in GwRefunds : GatewayMoves(g) \/ \E amount \in 1..Paid : DashboardRefund(g, amount)
  \/ \E r \in Refs : RefundAges(r)
  \/ LeaseExpires

Spec == Init /\ [][Next]_vars

(***************************************************************************)
(* Fairness.  The event loop goes on with every call; a lease runs out and *)
(* a request grows old; Razorpay decides on each refund it accepted; and   *)
(* the reconciler's four lists, run every minute, come back to what they   *)
(* still select.  It runs beside the handlers: that it needs one of the    *)
(* slots is the bound's doing, hence strong fairness.  Nothing is assumed  *)
(* of admins, webhooks, receipts or the dashboard.                         *)
(***************************************************************************)
Fairness ==
  /\ \A p \in Calls : WF_vars(CallStep(p))
  /\ WF_vars(LeaseExpires)
  /\ \A g \in GwRefunds : WF_vars(GatewayMoves(g))
  /\ \A r \in Refs : /\ SF_vars(RefundAges(r))
                    /\ SF_vars(\E p \in Calls : Resolve(p, r))
                    /\ SF_vars(\E p \in Calls : ApplyPending(p, r))
  /\ SF_vars(\E p \in Calls : SyncUnsettled(p))
  /\ SF_vars(\E p \in Calls : CreditMissing(p))

FairSpec == Spec /\ Fairness

-----------------------------------------------------------------------------
(* Properties.                                                             *)

TypeOK ==
  /\ bill \in RefundTotals
  /\ locked \in BOOLEAN /\ earning \in BOOLEAN /\ failures \in 0..MaxFailures
  /\ ride \in RidePaymentSummary
  /\ refund \in [Refs -> RefundDoc]
  /\ aged \subseteq Refs
  /\ adjustments \in Seq(DriverEarningAdjustment)
  /\ gateway \in [GwRefunds -> RazorpayRefund]

Quiet == failures = 0 /\ \A p \in Calls : Running(p, "idle")

\* "over-refunding is impossible": what admins have requested and was not
\* refused never adds up to more than was captured.
RequestsFit ==
  SumFunctionOnSet(Amounts, {r \in Keys : refund[r].status \in ACTIVE_REFUND_STATUSES}) <= Paid

\* A retried request is sent to Razorpay once, whatever was lost or died.
SentOnce == \A g, h \in GwRefunds :
              gateway[g].for = gateway[h].for /\ gateway[g].for # NoRefund => g = h

\* Money that is booked as returned was returned.
ReturnedIsReal ==
  \A r \in Refs : refund[r].status = "PROCESSED" =>
    refund[r].gw # NoGw /\ gateway[refund[r].gw].status = "processed"

\* What admins ask for fits the payment, is sent once, and is booked as returned
\* only when Razorpay returned it (the three above).
RequestsAreSafe == RequestsFit /\ SentOnce /\ ReturnedIsReal

\* A booked return stays booked, whatever older report, retry or sync arrives late.
ReturnedIsFinal ==
  [][\A r \in Refs : refund[r].status = "PROCESSED" => refund'[r].status = "PROCESSED"]_vars

\* "repeated or reordered webhooks converge on the right numbers".
TotalsConverge ==
  Quiet => bill = [status |-> StatusFor(Total({"PROCESSED"})), refunded |-> Total({"PROCESSED"}),
                   pending |-> Total(UNSETTLED)]

\* The ride shows what its payment does once the handlers are done.
RideStatusFollows ==
  Quiet => ride.status = IF bill.status = "CAPTURED" THEN "SUCCESS" ELSE bill.status

\* Payment and ride agree with the refunds when nothing is under way (the two above).
BooksConverge == TotalsConverge /\ RideStatusFollows

\* The driver gives back a share once per refund, and only of a refund that was
\* processed, concerns the driver and needs no review.
ClawedBackOnce ==
  \A i \in DOMAIN adjustments :
    LET doc == refund[adjustments[i].ref] IN
    /\ doc.status = "PROCESSED" /\ doc.impact = "PROPORTIONAL" /\ ~doc.review
    /\ \A j \in DOMAIN adjustments : adjustments[j].ref = adjustments[i].ref => i = j

\* One Razorpay refund is in the books once, however many webhooks and syncs
\* report it at the same moment.
BookedOnce == \A r, s \in Refs : refund[r].gw = refund[s].gw /\ refund[r].gw # NoGw => r = s

\* A refund has one entry in the books and one in the driver's ledger (the two above).
OneEntryEach == BookedOnce /\ ClawedBackOnce

\* No request waits for ever: Razorpay's answer arrives or the request is given
\* up, whatever dies on the way (findUnsettled, resolve, syncPayment).
RequestsEnd ==
  \A r \in Refs : refund[r].status \in UNSETTLED ~> refund[r].status \notin UNSETTLED

\* The driver's share of a returned amount is accounted for in the end, even if
\* the handler that booked the return died (findLedgerPending).
ReturnedReachesTheDriver ==
  \A r \in Refs :
    refund[r].status = "PROCESSED" /\ ~refund[r].review /\ earning ~> refund[r].ledger # "PENDING"

(***************************************************************************)
(* A statement of the repository that the code does not keep.              *)
(***************************************************************************)
\* "Creates the ride's earning line if it is missing (reconciler retries on
\* failure)" (payments.service.ts:840): a captured payment is credited.
CapturedIsCredited == bill.status = "CAPTURED" ~> earning
=============================================================================
