------------------------------ MODULE Payments ------------------------------
(***************************************************************************)
(* Settling one completed ride: the payment record ("the bill"), the       *)
(* ride's payment status, the driver's earning line, and the paths that    *)
(* race on them: checkout, cash, verify, failure reports, webhooks and the *)
(* reconciler.                                                             *)
(*                                                                         *)
(* Every database operation and every answer of Razorpay is one atomic     *)
(* step; a handler in between is a call that keeps the payment document it *)
(* read.  The amount is frozen at completion, so the amount checks, and    *)
(* the refunds of module Refunds, are left out.                            *)
(***************************************************************************)
EXTENDS Naturals, Sequences, FiniteSets

CONSTANTS
  Orders,        \* ids Razorpay gives to orders
  Pays,          \* ids Razorpay gives to payments
  Calls,         \* slots for handlers in flight
  NoPay, NoOrder,\* an absent id
  RecheckOrders, \* how many orders reconcile asks about (3)
  MaxFailures    \* bound: calls that die half-way

ASSUME IdsDistinct == NoPay \notin Pays /\ NoOrder \notin Orders
ASSUME LimitsAreNaturals == RecheckOrders \in Nat /\ MaxFailures \in Nat

VARIABLES
  ride,        \* ride.paymentStatus
  bill,        \* the payment document, as far as handlers read it
  locked,      \* orderLockUntil is in the future
  duplicates,  \* duplicateCaptures
  linked,      \* earningId is set
  earnings,    \* the driver_earnings lines of the ride, by payment mode
  gateway,     \* what Razorpay knows of each payment
  handed,      \* orders a checkout was returned for
  aged,        \* orders older than paymentOrderReuseMinutes
  past,        \* orders older than OPEN_ORDER_HORIZON_MS (three days)
  handled,     \* webhook events marked PROCESSED
  call,        \* call[p]: the handler running in slot p and its locals
  failures

record == <<ride, bill, locked, duplicates, linked, earnings>>
world  == <<gateway, aged, past>>
vars   == <<record, world, handed, handled, call, failures>>

-----------------------------------------------------------------------------
OPEN_PAYMENT_STATUSES == {"CREATED", "AUTHORIZED", "FAILED"}
SETTLED_PAYMENT_STATUSES == {"CAPTURED"}   \* refunds are module Refunds
PAYABLE_RIDE_PAYMENT_STATUSES == {"PENDING", "ORDER_CREATED", "PROCESSING", "FAILED"}

Open(doc) == doc.status \in OPEN_PAYMENT_STATUSES
Settled(doc) == doc.status \in SETTLED_PAYMENT_STATUSES

Attempt == [order  : Orders,
            status : {"CREATED", "ATTEMPTED", "PAID", "FAILED"}]
Bill == [status     : {"NONE", "CAPTURED"} \cup OPEN_PAYMENT_STATUSES,
         gateway    : {"RAZORPAY", "CASH"},
         paidBy     : Pays \cup {NoPay},  \* razorpayPaymentId
         processing : Pays \cup {NoPay},  \* processingPaymentId
         attempts   : Seq(Attempt)]
DuplicateCapture == Pays
RazorpayPayment == [order  : Orders \cup {NoOrder},
                    status : {"none", "created", "authorized", "captured", "failed"}]

NoBill == [status |-> "NONE", gateway |-> "RAZORPAY", paidBy |-> NoPay,
           processing |-> NoPay, attempts |-> <<>>]

OrdersOf(doc) == {doc.attempts[i].order : i \in DOMAIN doc.attempts}
\* The arrayFilters update of one attempt, when `which` allows it.
Mark(attempts, order, allowed, to) ==
  [i \in DOMAIN attempts |->
     IF attempts[i].order = order /\ attempts[i].status \in allowed
       THEN [attempts[i] EXCEPT !.status = to] ELSE attempts[i]]
Unpaid == {"CREATED", "ATTEMPTED", "FAILED"}

\* The orders reconcile asks Razorpay about: the latest ones not paid.
Rechecked(doc) ==
  {doc.attempts[i].order : i \in
     {j \in DOMAIN doc.attempts :
        /\ doc.attempts[j].status \in Unpaid
        /\ Cardinality({k \in DOMAIN doc.attempts :
             k > j /\ doc.attempts[k].status \in Unpaid}) < RecheckOrders}}

-----------------------------------------------------------------------------
(* Calls.                                                                  *)
Op == {"create", "cash", "verify", "report", "webhook", "reconcile"}
Pc == {"idle", "open", "fetch", "capture", "settle", "duplicate", "credit",
       "earnFind", "earnInsert", "earnLink", "failed", "rideFailed",
       "processing", "rideProcessing", "lock", "reopen", "raise", "push",
       "unlock", "orderRide", "cash", "verifyFetch", "mark"}

CallType == [pc    : Pc,
             op    : Op,
             doc   : Bill,                      \* the document it holds
             pay   : Pays \cup {NoPay},         \* Razorpay payment at hand
             saw   : {"created", "authorized", "captured", "failed"},
             order : Orders \cup {NoOrder},
             wait  : BOOLEAN,                   \* read ride was PROCESSING
             holds : BOOLEAN]                   \* inside the order lock

Idle == [pc |-> "idle", op |-> "reconcile", doc |-> NoBill, pay |-> NoPay,
         saw |-> "created", order |-> NoOrder, wait |-> FALSE, holds |-> FALSE]

Running(p, label) == call[p].pc = label
Become(p, c) == call' = [call EXCEPT ![p] = c]
Goto(p, label) == Become(p, [call[p] EXCEPT !.pc = label])

\* The end of a handler; a webhook still marks its event.
Ended(c) ==
  IF c.op = "webhook" THEN [c EXCEPT !.pc = "mark", !.doc = NoBill] ELSE Idle
Finish(p) == Become(p, Ended(call[p]))

\* afterCapture of a settled document, then the end of the handler.  (A handler
\* forgets what it does not use any more.)
Credited(c, doc) ==
  [c EXCEPT !.pc = "credit",
            !.doc = [NoBill EXCEPT !.status = doc.status, !.gateway = doc.gateway]]

\* reusable(): the latest order, unless paid or too old.
Reusable(doc) ==
  LET n == Len(doc.attempts) IN
  /\ n > 0
  /\ doc.attempts[n].status \in Unpaid
  /\ doc.attempts[n].order \notin aged
LatestOrder(doc) == doc.attempts[Len(doc.attempts)].order

\* openAttempt: reopen the latest order, or queue for the order lock.
Reopening(c, doc) ==
  [c EXCEPT !.pc = "reopen", !.order = LatestOrder(doc),
            !.doc = [NoBill EXCEPT !.status = doc.status]]
OpenAttempt(c, doc) ==
  IF Reusable(doc) THEN Reopening(c, doc) ELSE [c EXCEPT !.pc = "lock", !.doc = NoBill]

\* Where create and payCash go once no Razorpay payment stands in the way.
Unobstructed(c, doc) ==
  IF c.op = "create" THEN OpenAttempt(c, doc) ELSE [c EXCEPT !.pc = "cash", !.doc = NoBill]

\* What applyGatewayPayment or reconcile returns to: the checkout and the cash
\* flow go on with the document unless it is settled or being processed.
Resume(c, doc) ==
  IF c.op \in {"create", "cash"} /\ Open(doc) /\ doc.processing = NoPay
    THEN Unobstructed([c EXCEPT !.pay = NoPay], doc)
    ELSE Ended(c)

\* applyGatewayPayment: where what Razorpay said of payment g leads, judged on
\* the document the handler holds.
Judge(c, doc, g, saw) ==
  LET at(label) == [c EXCEPT !.pc = label, !.pay = g, !.saw = saw,
                             !.doc = IF label = "failed" THEN doc ELSE NoBill]
  IN CASE Settled(doc) /\ doc.paidBy = g -> Credited(c, doc)
       [] Settled(doc) /\ doc.paidBy # g /\ saw = "captured" -> at("duplicate")
       [] Settled(doc) /\ doc.paidBy # g /\ saw # "captured" -> Resume(c, doc)
       [] ~Settled(doc) /\ saw = "captured"   -> at("settle")
       [] ~Settled(doc) /\ saw = "authorized" -> at("capture")
       [] ~Settled(doc) /\ saw = "failed"     -> at("failed")
       [] ~Settled(doc) /\ saw = "created"    -> at("processing")

-----------------------------------------------------------------------------
Init ==
  /\ ride = "PENDING"
  /\ bill = NoBill
  /\ locked = FALSE
  /\ duplicates = {}
  /\ linked = FALSE
  /\ earnings = <<>>
  /\ gateway = [g \in Pays |-> [order |-> NoOrder, status |-> "none"]]
  /\ handed = {}
  /\ aged = {}
  /\ past = {}
  /\ handled = {}
  /\ call = [p \in Calls |-> Idle]
  /\ failures = 0

(***************************************************************************)
(* Razorpay and the customer's checkout.                                   *)
(***************************************************************************)
\* The customer pays on an order whose checkout was returned.
Pay(g, o) ==
  /\ o \in handed
  /\ gateway[g].status = "none"
  /\ \A h \in Pays : gateway[h].order = o => gateway[h].status \in {"none", "failed"}
  /\ gateway' = [gateway EXCEPT ![g] = [order |-> o, status |-> "created"]]
  /\ UNCHANGED <<record, aged, past, handed, handled, call, failures>>

GatewayMoves(g) ==
  /\ \E move \in {<<"created", "authorized">>, <<"created", "failed">>,
                  <<"authorized", "captured">>} :
       /\ gateway[g].status = move[1]
       /\ gateway' = [gateway EXCEPT ![g].status = move[2]]
  /\ UNCHANGED <<record, aged, past, handed, handled, call, failures>>

\* The webhook events Razorpay has sent, and resends until they are handled.
Sent == {event \in Pays \X {"authorized", "captured", "failed"} :
           \/ gateway[event[1]].status = event[2]
           \/ gateway[event[1]].status = "captured" /\ event[2] = "authorized"}

\* Minutes pass: far longer than any handler spends inside openAttempt.
InOpenAttempt(p) == call[p].pc \in {"lock", "reopen", "raise", "push", "unlock"}
OrderAges ==
  /\ \A p \in Calls : ~InOpenAttempt(p)
  /\ \E o \in OrdersOf(bill) : o \notin aged /\ aged' = aged \cup {o}
  /\ UNCHANGED <<record, gateway, past, handed, handled, call, failures>>

\* Days pass, which no handler outlives: an order leaves the reconciler's horizon.
OrderPassesHorizon ==
  /\ \A p \in Calls : Running(p, "idle")
  /\ \E o \in aged : o \notin past /\ past' = past \cup {o}
  /\ UNCHANGED <<record, gateway, aged, handed, handled, call, failures>>

\* ORDER_LOCK_MS outlives the request timeout of the gateway client, so the
\* lease only ever runs out on a holder that died.
LeaseExpires ==
  /\ locked
  /\ \A p \in Calls : ~call[p].holds
  /\ locked' = FALSE
  /\ UNCHANGED <<ride, bill, duplicates, linked, earnings, world, handed,
                 handled, call, failures>>

(***************************************************************************)
(* The ride's payment status: RidePaymentStateService.apply, a             *)
(* compare-and-set on the set of statuses it may replace.                  *)
(***************************************************************************)
ApplyRide(from, to) == ride' = IF ride \in from THEN to ELSE ride

(***************************************************************************)
(* Customer: start or retry a checkout (create), pay in cash (payCash).    *)
(***************************************************************************)
TapPay(p, op) ==
  /\ Running(p, "idle")
  /\ ride \in PAYABLE_RIDE_PAYMENT_STATUSES
  /\ Become(p, [Idle EXCEPT !.pc = "open", !.op = op, !.wait = (ride = "PROCESSING")])
  /\ UNCHANGED <<record, world, handed, handled, failures>>

\* findOrCreateForRide (of two inserts the unique index keeps one, and the
\* loser reads it), then the checks on what was found.
OpenBill(p) ==
  LET doc == IF bill.status = "NONE" THEN [NoBill EXCEPT !.status = "CREATED"] ELSE bill
      c == [call[p] EXCEPT !.wait = FALSE]
  IN
  /\ Running(p, "open")
  /\ bill' = doc
  /\ Become(p, IF Settled(doc) THEN Credited(c, doc)
               ELSE IF doc.processing # NoPay \/ call[p].wait
                 THEN [c EXCEPT !.pc = "fetch", !.doc = doc]
               ELSE Unobstructed(c, doc))
  /\ UNCHANGED <<ride, locked, duplicates, linked, earnings, world, handed,
                 handled, failures>>

\* The compare-and-set that settles the bill in cash.
CashAdmitted(doc) == Open(doc) /\ doc.processing = NoPay /\ ~locked

PayCash(p) ==
  /\ Running(p, "cash")
  /\ IF CashAdmitted(bill)
       THEN /\ bill' = [bill EXCEPT !.status = "CAPTURED", !.gateway = "CASH"]
            /\ locked' = FALSE
            /\ Become(p, Credited(call[p], bill'))
       ELSE /\ Become(p, IF Settled(bill) THEN Credited(call[p], bill) ELSE Idle)
            /\ UNCHANGED <<bill, locked>>
  /\ UNCHANGED <<ride, duplicates, linked, earnings, world, handed, handled, failures>>

(***************************************************************************)
(* openAttempt: re-use the latest order, or raise one under the lock.      *)
(***************************************************************************)
\* reopen(); under the lock it is followed by the unlock of `finally`.
Reopen(p) ==
  /\ Running(p, "reopen")
  /\ bill' = IF call[p].doc.status = "FAILED" /\ Open(bill)
               THEN [bill EXCEPT !.status = "CREATED"] ELSE bill
  /\ Become(p, [call[p] EXCEPT !.doc = NoBill,
                               !.pc = IF call[p].holds THEN "unlock" ELSE "orderRide"])
  /\ UNCHANGED <<ride, locked, duplicates, linked, earnings, world, handed,
                 handled, failures>>

\* The filter of the lock's findOneAndUpdate.
LockShared == Open(bill)
LockAdmitted == Open(bill) /\ ~locked

LockOrder(p) ==
  LET c == [call[p] EXCEPT !.holds = TRUE] IN
  /\ Running(p, "lock")
  /\ LockAdmitted
  /\ locked' = TRUE
  /\ Become(p, IF Reusable(bill) THEN Reopening(c, bill) ELSE [c EXCEPT !.pc = "raise"])
  /\ UNCHANGED <<ride, bill, duplicates, linked, earnings, world, handed,
                 handled, failures>>

\* The lock was refused: the re-read finds the bill settled or an order to
\* re-use, or the wait is over; otherwise the loop tries again.  (Settled, or waited in
\* vain: either way the request ends in an error.)
OrderLockBusy(p) ==
  /\ Running(p, "lock")
  /\ \/ ~Settled(bill) /\ Reusable(bill) /\ Become(p, Reopening(call[p], bill))
     \/ ~Reusable(bill) /\ (Settled(bill) \/ locked) /\ Finish(p)
  /\ UNCHANGED <<record, world, handed, handled, failures>>

\* An order Razorpay has not given yet.
NewOrder(o) == o \notin OrdersOf(bill) /\ \A p \in Calls : call[p].order # o

RaiseOrder(p) ==
  /\ Running(p, "raise")
  /\ \/ \E o \in Orders : NewOrder(o) /\ Become(p, [call[p] EXCEPT !.pc = "push", !.order = o])
     \/ Become(p, [call[p] EXCEPT !.pc = "unlock", !.order = NoOrder])  \* gateway error
  /\ UNCHANGED <<record, world, handed, handled, failures>>

AfterPush(c, pushed) == [c EXCEPT !.pc = "unlock", !.order = IF pushed THEN @ ELSE NoOrder]

PushOrder(p) ==
  LET o == call[p].order IN
  /\ Running(p, "push")
  /\ IF Open(bill)
       THEN /\ bill' = [bill EXCEPT !.status = "CREATED",
                          !.attempts = Append(@, [order |-> o, status |-> "CREATED"])]
            /\ locked' = FALSE
       ELSE UNCHANGED <<bill, locked>>
  /\ Become(p, AfterPush(call[p], Open(bill)))
  /\ UNCHANGED <<ride, duplicates, linked, earnings, world, handed, handled, failures>>

\* The `finally`: unsets the lock, whoever holds it by now.
UnlockOrder(p) ==
  /\ Running(p, "unlock")
  /\ locked' = FALSE
  /\ Become(p, IF call[p].order = NoOrder THEN Idle
               ELSE [call[p] EXCEPT !.pc = "orderRide", !.holds = FALSE])
  /\ UNCHANGED <<ride, bill, duplicates, linked, earnings, world, handed,
                 handled, failures>>

\* The ride shows the order and the checkout is returned to the app.
OrderRide(p) ==
  /\ Running(p, "orderRide")
  /\ ApplyRide({"PENDING", "FAILED"}, "ORDER_CREATED")
  /\ handed' = handed \cup {call[p].order}
  /\ Finish(p)
  /\ UNCHANGED <<bill, locked, duplicates, linked, earnings, world, handled, failures>>

(***************************************************************************)
(* The app's reports: verify after a checkout, reportFailure otherwise.    *)
(***************************************************************************)
\* A signature exists only for a payment Razorpay let through.
Verify(p, g) ==
  LET c == [Idle EXCEPT !.op = "verify"] IN
  /\ Running(p, "idle")
  /\ gateway[g].status \in {"authorized", "captured"}
  /\ Become(p, IF Settled(bill) /\ bill.paidBy = g THEN Credited(c, bill)
               ELSE [c EXCEPT !.pc = "verifyFetch", !.doc = bill, !.pay = g])
  /\ UNCHANGED <<record, world, handed, handled, failures>>

VerifyFetch(p) ==
  LET g == call[p].pay
      doc == call[p].doc
  IN
  /\ Running(p, "verifyFetch")
  /\ Become(p, Judge(call[p], doc, g, gateway[g].status))
  /\ UNCHANGED <<record, world, handed, handled, failures>>

\* Razorpay does not answer: the payment is parked for the reconciler.
VerifyPark(p) ==
  /\ Running(p, "verifyFetch")
  /\ IF Open(call[p].doc)
       THEN Become(p, [call[p] EXCEPT !.pc = "processing", !.saw = "created"])
       ELSE Finish(p)
  /\ UNCHANGED <<record, world, handed, handled, failures>>

\* A failure the app reports: of payment g, or of a dismissed checkout.
ReportFailure(p, g, o) ==
  /\ Running(p, "idle")
  /\ o \in handed
  /\ g # NoPay => gateway[g].order = o
  /\ Open(bill) /\ bill.processing = NoPay
  /\ Become(p, [Idle EXCEPT !.op = "report", !.pc = "failed", !.doc = bill,
                            !.pay = g, !.order = o])
  /\ UNCHANGED <<record, world, handed, handled, failures>>

(***************************************************************************)
(* Webhooks: claimed unless already marked, judged on the document found,  *)
(* marked at the end; delivered again until then.                          *)
(***************************************************************************)
Webhook(p, g, s) ==
  /\ Running(p, "idle")
  /\ <<g, s>> \in Sent \ handled
  /\ Become(p, Judge([Idle EXCEPT !.op = "webhook", !.pay = g, !.saw = s], bill, g, s))
  /\ UNCHANGED <<record, world, handed, handled, failures>>

MarkEvent(p) ==
  /\ Running(p, "mark")
  /\ handled' = handled \cup {<<call[p].pay, call[p].saw>>}
  /\ Become(p, Idle)
  /\ UNCHANGED <<record, world, handed, failures>>

(***************************************************************************)
(* The reconciler and GET /payments/:id: what Razorpay says of the orders. *)
(***************************************************************************)
\* findStaleProcessing and findOpenOrdersToCheck: the latter lists a bill for as
\* long as one of its orders is within the horizon.  (How long a bill must have
\* rested, and how many a pass takes, is left out.)
StaleProcessing == bill.status \in {"CREATED", "AUTHORIZED"} /\ bill.processing # NoPay
OpenOrderToCheck ==
  /\ bill.gateway = "RAZORPAY" /\ bill.status \in {"CREATED", "FAILED"}
  /\ bill.processing = NoPay
  /\ \E o \in OrdersOf(bill) : o \notin past

ReconcileStaleOnly(p) ==
  /\ Running(p, "idle")
  /\ StaleProcessing
  /\ Become(p, [Idle EXCEPT !.pc = "fetch", !.doc = bill])
  /\ UNCHANGED <<record, world, handed, handled, failures>>

Reconcile(p) ==
  /\ Running(p, "idle")
  /\ StaleProcessing \/ OpenOrderToCheck
  /\ Become(p, [Idle EXCEPT !.pc = "fetch", !.doc = bill])
  /\ UNCHANGED <<record, world, handed, handled, failures>>

\* The customer opens the receipt: any open bill with an order, however old.
Receipt(p) ==
  /\ Running(p, "idle")
  /\ Open(bill) /\ bill.attempts # <<>>
  /\ Become(p, [Idle EXCEPT !.pc = "fetch", !.doc = bill])
  /\ UNCHANGED <<record, world, handed, handled, failures>>

\* Razorpay answers: a captured payment first, else an authorised one, else
\* the failure of the payment being processed, else nothing to apply.
ReconcileFetch(p) ==
  LET doc == call[p].doc
      seen(s) == {g \in Pays : gateway[g].order \in Rechecked(doc) /\ gateway[g].status = s}
      apply(s) == \E g \in seen(s) : Become(p, Judge(call[p], doc, g, s))
  IN
  /\ Running(p, "fetch")
  /\ \/ apply("captured")
     \/ seen("captured") = {} /\ apply("authorized")
     \/ /\ seen("captured") \cup seen("authorized") = {}
        /\ IF doc.processing \in seen("failed")
             THEN Become(p, Judge(call[p], doc, doc.processing, "failed"))
             ELSE Become(p, Resume(call[p], bill))
  /\ UNCHANGED <<record, world, handed, handled, failures>>

\* Razorpay does not answer: go on with the document as it was read.
ReconcileDeferred(p) ==
  /\ Running(p, "fetch")
  /\ Become(p, Resume(call[p], call[p].doc))
  /\ UNCHANGED <<record, world, handed, handled, failures>>

CreditUnpaidRide(p) ==
  /\ Running(p, "idle")
  /\ bill.status = "CAPTURED" /\ ride # "SUCCESS"
  /\ Become(p, Credited(Idle, bill))
  /\ UNCHANGED <<record, world, handed, handled, failures>>

\* The reconciler's third list: captured payments without an earning line.
CreditMissing(p) ==
  /\ Running(p, "idle")
  /\ bill.status = "CAPTURED" /\ ~linked
  /\ Become(p, Credited(Idle, bill))
  /\ UNCHANGED <<record, world, handed, handled, failures>>

(***************************************************************************)
(* Settlement: every write is a compare-and-set on an open status.         *)
(***************************************************************************)

\* The authorised payment is captured, was captured already, or stays with
\* Razorpay; an answer that is lost may hide a capture.
Capture(p) ==
  LET g == call[p].pay
      taken == [gateway EXCEPT ![g].status = "captured"]
  IN
  /\ Running(p, "capture")
  /\ \/ gateway' = taken /\ Goto(p, "settle")
     \/ gateway' \in {gateway, taken} /\ Goto(p, "processing")
  /\ UNCHANGED <<record, aged, past, handed, handled, failures>>

\* The compare-and-set of settleCaptured.
SettleById == bill.status # "NONE"
SettleAdmitted == Open(bill)
SettledByOrder(g) ==
  [bill EXCEPT !.status = "CAPTURED", !.paidBy = gateway[g].order, !.processing = NoPay,
               !.attempts = Mark(@, gateway[g].order, Unpaid, "PAID")]
SettledBy(g) ==
  [bill EXCEPT !.status = "CAPTURED", !.paidBy = g, !.processing = NoPay,
               !.attempts = Mark(@, gateway[g].order, Unpaid, "PAID")]

\* The loser of a race tells the same payment from another one.
LostIsCredited(c) == Credited(c, bill)
LostRace(c) == IF bill.paidBy = c.pay THEN Credited(c, bill) ELSE [c EXCEPT !.pc = "duplicate"]

\* settleCaptured.
Settle(p) ==
  /\ Running(p, "settle")
  /\ IF SettleAdmitted
       THEN /\ bill' = SettledBy(call[p].pay)
            /\ locked' = FALSE
            /\ Become(p, Credited(call[p], bill'))
       ELSE Become(p, LostRace(call[p])) /\ UNCHANGED <<bill, locked>>
  /\ UNCHANGED <<ride, duplicates, linked, earnings, world, handed, handled, failures>>

\* recordDuplicate: a second capture, flagged for a refund.
RecordDuplicate(p) ==
  /\ Running(p, "duplicate")
  /\ duplicates' = duplicates \cup {call[p].pay}
  /\ Finish(p)
  /\ UNCHANGED <<ride, bill, locked, linked, earnings, world, handed, handled, failures>>

FailedKeepsMark(order) ==
  [bill EXCEPT !.status = "FAILED", !.attempts = Mark(@, order, Unpaid, "FAILED")]
FailedOn(order) ==
  [bill EXCEPT !.status = "FAILED", !.processing = NoPay,
               !.attempts = Mark(@, order, Unpaid, "FAILED")]

\* settleFailed: ignored for an older payment than the one the held document
\* is processing.
SettleFailed(p) ==
  LET c == call[p]
      order == IF c.op = "report" THEN c.order ELSE gateway[c.pay].order
      other == c.doc.processing # NoPay /\ c.pay # NoPay /\ c.doc.processing # c.pay
  IN
  /\ Running(p, "failed")
  /\ IF ~other /\ Open(bill)
       THEN /\ bill' = FailedOn(order)
            /\ Become(p, [c EXCEPT !.pc = "rideFailed", !.doc = bill', !.order = NoOrder])
       ELSE /\ Become(p, Resume(c, IF other THEN c.doc ELSE bill))
            /\ UNCHANGED bill
  /\ UNCHANGED <<ride, locked, duplicates, linked, earnings, world, handed,
                 handled, failures>>

RideFailed(p) ==
  /\ Running(p, "rideFailed")
  /\ ApplyRide({"PENDING", "ORDER_CREATED"} \cup
               (IF call[p].op = "report" THEN {} ELSE {"PROCESSING"}), "FAILED")
  /\ Become(p, Resume(call[p], call[p].doc))
  /\ UNCHANGED <<bill, locked, duplicates, linked, earnings, world, handed,
                 handled, failures>>

\* markProcessing: Razorpay has a payment that is not final.
MarkProcessing(p) ==
  LET c == call[p] IN
  /\ Running(p, "processing")
  /\ IF Open(bill)
       THEN /\ bill' = [bill EXCEPT
                          !.status = IF c.saw = "authorized" THEN "AUTHORIZED" ELSE "CREATED",
                          !.processing = c.pay,
                          !.attempts = Mark(@, gateway[c.pay].order, Unpaid, "ATTEMPTED")]
            /\ Become(p, [c EXCEPT !.pc = "rideProcessing", !.doc = bill'])
       ELSE Become(p, Resume(c, bill)) /\ UNCHANGED bill
  /\ UNCHANGED <<ride, locked, duplicates, linked, earnings, world, handed,
                 handled, failures>>

RideProcessing(p) ==
  /\ Running(p, "rideProcessing")
  /\ ApplyRide({"PENDING", "ORDER_CREATED", "FAILED"}, "PROCESSING")
  /\ Become(p, Resume(call[p], call[p].doc))
  /\ UNCHANGED <<bill, locked, duplicates, linked, earnings, world, handed,
                 handled, failures>>

(***************************************************************************)
(* afterCapture: the ride is paid, then its earning line is found or       *)
(* inserted and linked to the bill.                                        *)
(***************************************************************************)
RidePaid(p) ==
  /\ Running(p, "credit")
  /\ ApplyRide(PAYABLE_RIDE_PAYMENT_STATUSES, "SUCCESS")
  /\ IF linked THEN Finish(p) ELSE Goto(p, "earnFind")
  /\ UNCHANGED <<bill, locked, duplicates, linked, earnings, world, handed,
                 handled, failures>>

EarnFind(p) ==
  /\ Running(p, "earnFind")
  /\ Goto(p, IF earnings = <<>> THEN "earnInsert" ELSE "earnLink")
  /\ UNCHANGED <<record, world, handed, handled, failures>>

ModeOf(doc) == IF doc.gateway = "CASH" THEN "CASH" ELSE "ONLINE"

\* The insert under the unique index on rideId: the loser takes the winner's.
InsertEarning(line) == earnings' = IF earnings = <<>> THEN <<line>> ELSE earnings

EarnInsert(p) ==
  /\ Running(p, "earnInsert")
  /\ InsertEarning(ModeOf(call[p].doc))
  /\ Goto(p, "earnLink")
  /\ UNCHANGED <<ride, bill, locked, duplicates, linked, world, handed, handled, failures>>

EarnLink(p) ==
  /\ Running(p, "earnLink")
  /\ linked' = TRUE
  /\ Finish(p)
  /\ UNCHANGED <<ride, bill, locked, duplicates, earnings, world, handed, handled, failures>>

\* ensureEarning logs an error and leaves the line to the reconciler.
EarnError(p) ==
  /\ call[p].pc \in {"earnFind", "earnInsert", "earnLink"}
  /\ failures < MaxFailures
  /\ failures' = failures + 1
  /\ Finish(p)
  /\ UNCHANGED <<record, world, handed, handled>>

\* A handler dies between two steps: a crash, a restart, a database error.
Fail(p) ==
  /\ ~Running(p, "idle")
  /\ failures < MaxFailures
  /\ failures' = failures + 1
  /\ Become(p, Idle)
  /\ UNCHANGED <<record, world, handed, handled>>

-----------------------------------------------------------------------------
CallStep(p) ==
  \/ OpenBill(p) \/ PayCash(p) \/ Reopen(p) \/ LockOrder(p) \/ OrderLockBusy(p)
  \/ RaiseOrder(p) \/ PushOrder(p) \/ UnlockOrder(p) \/ OrderRide(p)
  \/ VerifyFetch(p) \/ VerifyPark(p) \/ MarkEvent(p)
  \/ ReconcileFetch(p) \/ ReconcileDeferred(p)
  \/ Capture(p) \/ Settle(p) \/ RecordDuplicate(p)
  \/ SettleFailed(p) \/ RideFailed(p) \/ MarkProcessing(p) \/ RideProcessing(p)
  \/ RidePaid(p) \/ EarnFind(p) \/ EarnInsert(p) \/ EarnLink(p)

Request(p) ==
  \/ \E op \in {"create", "cash"} : TapPay(p, op)
  \/ Receipt(p)
  \/ \E g \in Pays : Verify(p, g)
  \/ \E g \in Pays \cup {NoPay}, o \in Orders : ReportFailure(p, g, o)

Background(p) ==
  \/ \E g \in Pays, s \in {"authorized", "captured", "failed"} : Webhook(p, g, s)
  \/ Reconcile(p) \/ CreditMissing(p)

Next ==
  \/ \E p \in Calls : CallStep(p) \/ Request(p) \/ Background(p) \/ EarnError(p) \/ Fail(p)
  \/ \E g \in Pays : GatewayMoves(g) \/ \E o \in Orders : Pay(g, o)
  \/ OrderAges \/ OrderPassesHorizon
  \/ LeaseExpires

Spec == Init /\ [][Next]_vars

(***************************************************************************)
(* Fairness.  A call in flight is not abandoned by the event loop, a lease *)
(* runs out, and the reconciler, a timer, comes back to what it finds for  *)
(* as long as it finds it, and Razorpay does not stay out of reach for     *)
(* ever.  Nothing is assumed of customers or of the delivery of webhooks.  *)
(***************************************************************************)
Fairness ==
  /\ WF_vars(LeaseExpires)
  /\ \A p \in Calls : WF_vars(CallStep(p))
  /\ SF_vars(\E p \in Calls : ReconcileFetch(p))
  /\ SF_vars(\E p \in Calls : Reconcile(p))
  /\ SF_vars(\E p \in Calls : CreditMissing(p))

FairSpec == Spec /\ Fairness

-----------------------------------------------------------------------------
(* Properties.                                                             *)

TypeOK ==
  /\ ride \in PAYABLE_RIDE_PAYMENT_STATUSES \cup {"SUCCESS"}
  /\ bill \in Bill
  /\ locked \in BOOLEAN
  /\ duplicates \in SUBSET DuplicateCapture
  /\ linked \in BOOLEAN
  /\ earnings \in Seq({"CASH", "ONLINE"})
  /\ gateway \in [Pays -> RazorpayPayment]
  /\ handed \in SUBSET Orders
  /\ aged \in SUBSET Orders
  /\ past \in SUBSET aged
  /\ handled \in SUBSET (Pays \X {"authorized", "captured", "failed"})
  /\ call \in [Calls -> CallType]
  /\ failures \in 0..MaxFailures

\* A ride is shown as paid, and its driver credited, only for a bill that is
\* settled: in cash, or by a payment Razorpay has captured.
PaidMeansCollected ==
  ride = "SUCCESS" \/ linked \/ earnings # <<>> =>
    /\ Settled(bill)
    /\ bill.gateway = "RAZORPAY" =>
         bill.paidBy \in Pays /\ gateway[bill.paidBy].status = "captured"
    /\ bill.gateway = "CASH" => bill.paidBy = NoPay

\* Once the webhook of a capture is marked PROCESSED, the money is accounted
\* for: it settled the bill, or it is flagged as a duplicate to be refunded.
\* No race of cash, verify, webhook and reconciler loses a capture.
NoCaptureIsForgotten ==
  \A g \in Pays : <<g, "captured">> \in handled => bill.paidBy = g \/ g \in duplicates

\* The payment that settled the bill is never flagged as its own duplicate,
\* however often and from how many sides its capture is reported.
PaymentIsNotItsOwnDuplicate == bill.paidBy \notin duplicates

\* "one CAPTURED payment, one SUCCESS ride and one earning": the driver gets
\* one line, for the way the bill was settled (a cash line is never paid out).
OneEarning == Len(earnings) <= 1 /\ \A i \in DOMAIN earnings : earnings[i] = ModeOf(bill)

\* The money of a ride is collected before it is shown as paid, never forgotten,
\* never its own duplicate and credited to the driver once (the four above), in
\* every interleaving of cash, verify, webhook, failure report and reconciler.
MoneyIsKept ==
  PaidMeansCollected /\ NoCaptureIsForgotten /\ PaymentIsNotItsOwnDuplicate /\ OneEarning

\* Until its last order leaves the horizon, an open bill is in reach of one of
\* the reconciler's two lists: no sequence of failures, retries and reopenings
\* leaves a status and a processing mark that neither of them selects.
ReconcilerSeesEveryOpenBill ==
  Open(bill) /\ OrdersOf(bill) \ past # {} => StaleProcessing \/ OpenOrderToCheck

\* What the customer can pay on is on the bill, so that no payment reaches the
\* webhook, verify or the reconciler for an order they do not know.
HandedOrdersAreKnown == handed \subseteq OrdersOf(bill)

\* No order is out of reach before its time: the customer pays on orders the bill
\* has, and the reconciler finds every open bill with a recent one (the two above).
OrdersAreInReach == ReconcilerSeesEveryOpenBill /\ HandedOrdersAreKnown

\* "a double tap must not raise two orders": an order is only added when the
\* latest one is paid or too old to be re-used.
NoOrderPilesUp ==
  [][Len(bill'.attempts) > Len(bill.attempts) => ~Reusable(bill)]_vars

\* The races implement a bill that is settled once and credited once.
Settlement == INSTANCE BillSettlement WITH
  cash <- bill.gateway = "CASH", credited <- linked, paidBy <- bill.paidBy
ImplementsSettlement == Settlement!Spec

\* A settled bill is credited: the ride becomes SUCCESS and the driver gets the
\* line, whatever died on the way.
SettledIsCredited == Settled(bill) ~> ride = "SUCCESS" /\ linked

\* What the reconciler still asks Razorpay about: the bill is on one of its lists,
\* and the order of payment g is one of the latest unpaid ones.
InReach(g) ==
  /\ StaleProcessing \/ OpenOrderToCheck
  /\ gateway[g].order \in Rechecked(bill)

\* Money Razorpay has captured settles the bill even if no webhook and no verify
\* ever arrives, unless its order falls out of the reconciler's reach first: newer
\* orders push it off the list reconcile asks about, or the horizon passes.
CollectedIsSettled ==
  \A g \in Pays : gateway[g].status = "captured" ~> Settled(bill) \/ ~InReach(g)
=============================================================================
