--------------------------- MODULE PaymentsProofs ---------------------------
(***************************************************************************)
(* Theorems about Payments, for any number of orders, payments, calls and  *)
(* failures.                                                               *)
(*                                                                         *)
(* What a handler holds was true when it was read, and stays useful        *)
(* because the bill only moves forward: Sound says what a call knows of    *)
(* the bill, Forward how far the bill can have moved since.                *)
(***************************************************************************)
EXTENDS Payments, TLAPS

USE IdsDistinct, LimitsAreNaturals

-----------------------------------------------------------------------------
(* The inductive invariant.                                                *)

Crediting == {"credit", "earnFind", "earnInsert", "earnLink"}
Judged == {"capture", "settle", "duplicate", "processing", "verifyFetch"}
LockHeld == {"raise", "push", "unlock"}

\* What call c knows of bill b, of Razorpay's payments gw and of the duplicates dup.
KnowsDocument(c, b) ==
  /\ OrdersOf(c.doc) \subseteq OrdersOf(b)
  /\ c.pc \in {"fetch", "failed", "rideFailed", "rideProcessing"} => ~Settled(c.doc)
  /\ c.pc = "verifyFetch" /\ Settled(c.doc) =>
       Settled(b) /\ c.doc.paidBy = b.paidBy /\ c.doc.gateway = b.gateway
  /\ c.pc \in Crediting => Settled(b) /\ c.doc.gateway = b.gateway
KnowsPayment(c, b, gw) ==
  /\ c.pc \in Judged \/ c.op = "webhook" \/ (c.pc = "failed" /\ c.op # "report")
     => c.pay \in Pays /\ gw[c.pay].status # "none"
  /\ c.pc = "capture" => gw[c.pay].status \in {"authorized", "captured"}
  /\ c.pc = "settle" => gw[c.pay].status = "captured"
  /\ c.pc = "duplicate" => Settled(b) /\ b.paidBy # c.pay
KnowsEvent(c, b, dup) ==
  /\ c.pc = "mark" => c.op = "webhook"
  /\ c.pc \in {"open", "fetch", "verifyFetch"} => c.op # "webhook"
  /\ c.op = "webhook" => c.saw # "created"
  /\ c.op = "webhook" /\ c.saw = "captured" =>
       \/ c.pc \in {"settle", "duplicate"}
       \/ c.pc \in Crediting \cup {"mark"} /\ (b.paidBy = c.pay \/ c.pay \in dup)
KnowsOrder(c, b) ==
  /\ c.pc \in {"reopen", "orderRide"} => c.order \in OrdersOf(b)
  /\ c.pc = "unlock" => c.order \in OrdersOf(b) \cup {NoOrder}
  /\ c.pc = "push" => c.order \in Orders
  /\ c.pc \in LockHeld => c.holds
  /\ c.holds => c.pc \in LockHeld \cup {"reopen"}
Sound(c, b, gw, dup) ==
  /\ c \in CallType
  /\ KnowsDocument(c, b) /\ KnowsPayment(c, b, gw)
  /\ KnowsEvent(c, b, dup) /\ KnowsOrder(c, b)

CallsSound == \A p \in Calls : Sound(call[p], bill, gateway, duplicates)

\* Nothing follows from a bill before it is settled; once it is, it is paid for.
SettledFirst ==
  /\ bill.status = "NONE" => bill.attempts = <<>>
  /\ ~Settled(bill) =>
       /\ bill.gateway = "RAZORPAY" /\ bill.paidBy = NoPay
       /\ duplicates = {} /\ ride # "SUCCESS" /\ ~linked /\ earnings = <<>>
  /\ Settled(bill) /\ bill.gateway = "RAZORPAY" =>
       bill.paidBy \in Pays /\ gateway[bill.paidBy].status = "captured"
  /\ Settled(bill) /\ bill.gateway = "CASH" => bill.paidBy = NoPay
\* The processing mark of an open bill, by status.
MarksFit ==
  /\ bill.status = "AUTHORIZED" => bill.processing # NoPay
  /\ bill.status = "FAILED" => bill.processing = NoPay
OrdersKnown ==
  /\ handed \subseteq OrdersOf(bill) /\ aged \subseteq OrdersOf(bill)
  /\ \A g \in Pays : gateway[g].status # "none" => gateway[g].order \in handed
CreditedOnce ==
  /\ earnings = <<>> \/ earnings = <<ModeOf(bill)>>
  /\ linked \/ (\E p \in Calls : call[p].pc = "earnLink") => earnings # <<>>

\* Until the bill is settled: who raises an order holds the lock alone and finds no order
\* to re-use; who else holds it has one to re-use.
Raises(c) == c.pc \in {"raise", "push"} \/ (c.pc = "unlock" /\ c.order = NoOrder)
LockOK ==
  ~Settled(bill) =>
    \A p \in Calls :
      /\ Raises(call[p]) => locked /\ \A q \in Calls : call[q].holds => q = p
      /\ call[p].pc \in {"raise", "push"} => ~Reusable(bill)
      /\ call[p].holds /\ ~Raises(call[p]) => Reusable(bill)
      /\ call[p].pc = "push" => call[p].order \notin OrdersOf(bill)

IInv ==
  /\ TypeOK /\ CallsSound /\ SettledFirst /\ MarksFit /\ OrdersKnown /\ CreditedOnce
  /\ NoCaptureIsForgotten /\ PaymentIsNotItsOwnDuplicate
  /\ LockOK

-----------------------------------------------------------------------------
(* Documents and their attempts.                                           *)

\* The update of attempts keeps their number and orders, and between unpaid
\* statuses it keeps them unpaid.
LEMMA MarkKeepsOrders ==
  ASSUME NEW s \in Seq(Attempt), NEW o, NEW allowed, NEW to \in {"ATTEMPTED", "PAID", "FAILED"}
  PROVE  /\ Mark(s, o, allowed, to) \in Seq(Attempt)
         /\ Len(Mark(s, o, allowed, to)) = Len(s)
         /\ \A i \in 1..Len(s) :
              /\ Mark(s, o, allowed, to)[i].order = s[i].order
              /\ allowed = Unpaid /\ to # "PAID" =>
                   (Mark(s, o, allowed, to)[i].status \in Unpaid <=> s[i].status \in Unpaid)
<1> DEFINE m == Mark(s, o, allowed, to)
<1>1. DOMAIN s = 1..Len(s) /\ Len(s) \in Nat
  OBVIOUS
<1>2. ASSUME NEW i \in 1..Len(s)
      PROVE  IF s[i].order = o /\ s[i].status \in allowed
             THEN [s[i] EXCEPT !.status = to] \in Attempt ELSE s[i] \in Attempt
  <2>1. s[i] \in Attempt
    BY <1>1
  <2>2. [s[i] EXCEPT !.status = to] \in Attempt
    BY <2>1 DEF Attempt
  <2> QED BY <2>1, <2>2
<1>3. m = [i \in 1..Len(s) |-> IF s[i].order = o /\ s[i].status \in allowed
                                  THEN [s[i] EXCEPT !.status = to] ELSE s[i]]
  BY <1>1 DEF Mark
<1>4. m \in Seq(Attempt) /\ Len(m) = Len(s)
  BY <1>1, <1>2, <1>3
<1>5. ASSUME NEW i \in 1..Len(s)
      PROVE  /\ m[i].order = s[i].order
             /\ allowed = Unpaid /\ to # "PAID" => (m[i].status \in Unpaid <=> s[i].status \in Unpaid)
  BY <1>3 DEF Attempt, Unpaid
<1> QED BY <1>4, <1>5

LEMMA OrdersAreOrders ==
  ASSUME NEW doc \in Bill
  PROVE  OrdersOf(doc) \subseteq Orders
<1>1. doc.attempts \in Seq(Attempt)
  BY DEF Bill
<1>2. ASSUME NEW i \in DOMAIN doc.attempts
      PROVE  doc.attempts[i].order \in Orders
  <2>1. doc.attempts[i] \in Attempt
    BY <1>1
  <2> QED BY <2>1 DEF Attempt
<1> QED BY <1>2 DEF OrdersOf

LEMMA NoBillHasNoOrders == NoBill \in Bill /\ OrdersOf(NoBill) = {}
  BY DEF NoBill, Bill, OrdersOf, OPEN_PAYMENT_STATUSES

-----------------------------------------------------------------------------
(* What a call knows stays true.                                           *)

\* From bill b to b2, payments gw to gw2 and duplicates dup to dup2.
Forward(b, b2, gw, gw2, dup, dup2) ==
  /\ OrdersOf(b) \subseteq OrdersOf(b2)
  /\ Settled(b) => Settled(b2) /\ b2.gateway = b.gateway
  /\ Settled(b) \/ b.paidBy \in Pays => b2.paidBy = b.paidBy
  /\ \A g \in Pays :
       /\ gw[g].status # "none" => gw2[g].status # "none"
       /\ gw[g].status = "captured" => gw2[g].status = "captured"
       /\ gw[g].status = "authorized" => gw2[g].status \in {"authorized", "captured"}
  /\ dup \subseteq dup2

LEMMA SoundForward ==
  ASSUME NEW c, NEW b, NEW b2, NEW gw, NEW gw2, NEW dup, NEW dup2,
         Sound(c, b, gw, dup), Forward(b, b2, gw, gw2, dup, dup2)
  PROVE  Sound(c, b2, gw2, dup2)
<1> USE DEF Sound, Forward
<1>1. KnowsDocument(c, b2)
  BY DEF KnowsDocument
<1>2. KnowsPayment(c, b2, gw2)
  BY DEF KnowsPayment, Judged
<1>3. KnowsEvent(c, b2, dup2)
  BY DEF KnowsEvent, KnowsPayment
<1>4. KnowsOrder(c, b2)
  BY DEF KnowsOrder
<1> QED BY <1>1, <1>2, <1>3, <1>4

\* A webhook may be marked: its payment is known, and accounted for if it was captured.
Accounted(c, b, gw, dup) ==
  c.op = "webhook" => /\ c.pay \in Pays /\ gw[c.pay].status # "none" /\ c.saw # "created"
                      /\ c.saw = "captured" => b.paidBy = c.pay \/ c.pay \in dup

\* A call to go on with outside the order lock.
Ready(c, b, gw, dup) == Sound(c, b, gw, dup) /\ ~c.holds /\ c.pc # "earnLink"

LEMMA IdleReady ==
  ASSUME NEW b, NEW gw, NEW dup
  PROVE  Ready(Idle, b, gw, dup)
  BY NoBillHasNoOrders
     DEF Ready, Sound, Idle, CallType, Op, Pc, KnowsDocument, KnowsPayment, KnowsEvent, KnowsOrder,
         Crediting, Judged, LockHeld

LEMMA EndedReady ==
  ASSUME NEW c \in CallType, NEW b, NEW gw, NEW dup, Accounted(c, b, gw, dup), ~c.holds
  PROVE  Ready(Ended(c), b, gw, dup)
<1>1. CASE c.op # "webhook"
  BY <1>1, IdleReady DEF Ended
<1>2. CASE c.op = "webhook"
  <2> DEFINE e == [c EXCEPT !.pc = "mark", !.doc = NoBill]
  <2>1. /\ e \in CallType /\ e.pc = "mark" /\ e.doc = NoBill /\ e.op = c.op /\ e.pay = c.pay
        /\ e.saw = c.saw /\ e.holds = FALSE
    BY NoBillHasNoOrders DEF CallType, Pc
  <2>2. Ended(c) = e
    BY <1>2 DEF Ended
  <2> HIDE DEF e
  <2>3. Ready(e, b, gw, dup)
    BY <1>2, <2>1, NoBillHasNoOrders
       DEF Ready, Sound, Accounted, KnowsDocument, KnowsPayment, KnowsEvent, KnowsOrder,
           Crediting, Judged, LockHeld
  <2> QED BY <2>2, <2>3
<1> QED BY <1>1, <1>2

LEMMA CreditedReady ==
  ASSUME NEW c \in CallType, NEW doc \in Bill, NEW b, NEW gw, NEW dup,
         Accounted(c, b, gw, dup), ~c.holds, Settled(b), doc.gateway = b.gateway
  PROVE  Ready(Credited(c, doc), b, gw, dup)
<1> DEFINE d == [NoBill EXCEPT !.status = doc.status, !.gateway = doc.gateway]
           e == [c EXCEPT !.pc = "credit", !.doc = d]
<1>1. d \in Bill /\ d.gateway = doc.gateway /\ OrdersOf(d) = {}
  <2>1. d \in Bill /\ d.gateway = doc.gateway /\ d.attempts = NoBill.attempts
    BY NoBillHasNoOrders DEF Bill
  <2> QED BY <2>1, NoBillHasNoOrders DEF OrdersOf
<1> HIDE DEF d
<1>2. /\ e \in CallType /\ e.pc = "credit" /\ e.doc = d /\ e.op = c.op /\ e.pay = c.pay
      /\ e.saw = c.saw /\ e.holds = FALSE
  BY <1>1 DEF CallType, Pc
<1>3. Credited(c, doc) = e
  BY DEF Credited, d
<1> HIDE DEF e
<1>4. Ready(e, b, gw, dup)
  BY <1>1, <1>2 DEF Ready, Sound, Accounted, KnowsDocument, KnowsPayment, KnowsEvent, KnowsOrder,
                    Crediting, Judged, LockHeld
<1> QED BY <1>2, <1>3, <1>4

\* What a handler may hold beside its call: a document it can go on with.
Holds(doc, b) == doc \in Bill /\ OrdersOf(doc) \subseteq OrdersOf(b)

\* Re-using an order of the bill: the call forgets all but the order.
LEMMA ReopeningSound ==
  ASSUME NEW c \in CallType, NEW doc \in Bill, NEW b, NEW gw, NEW dup, Reusable(doc),
         OrdersOf(doc) \subseteq OrdersOf(b), Accounted(c, b, gw, dup),
         c.op = "webhook" => c.saw # "captured"
  PROVE  /\ Sound(Reopening(c, doc), b, gw, dup)
         /\ Reopening(c, doc).pc = "reopen" /\ Reopening(c, doc).order \in Orders
         /\ Reopening(c, doc).holds = c.holds
<1> DEFINE o == LatestOrder(doc)
           d == [NoBill EXCEPT !.status = doc.status]
           e == [c EXCEPT !.pc = "reopen", !.order = o, !.doc = d]
<1>1. o \in OrdersOf(doc)
  <2>1. Len(doc.attempts) \in DOMAIN doc.attempts
    BY DEF Reusable, Bill
  <2> QED BY <2>1 DEF OrdersOf, LatestOrder
<1>2. o \in Orders
  BY <1>1, OrdersAreOrders
<1>3. d \in Bill /\ OrdersOf(d) = {}
  <2>1. d \in Bill /\ d.attempts = NoBill.attempts
    BY NoBillHasNoOrders DEF Bill
  <2> QED BY <2>1, NoBillHasNoOrders DEF OrdersOf
<1>4. Reopening(c, doc) = e
  BY DEF Reopening
<1> HIDE DEF o, d
<1>5. /\ e \in CallType /\ e.op = c.op /\ e.holds = c.holds /\ e.doc = d /\ e.pay = c.pay
      /\ e.pc = "reopen" /\ e.order = o /\ e.saw = c.saw
  BY <1>2, <1>3 DEF CallType, Pc
<1> HIDE DEF e
<1> QED BY <1>1, <1>2, <1>3, <1>4, <1>5
        DEF Sound, Accounted, KnowsDocument, KnowsPayment, KnowsEvent, KnowsOrder,
            Crediting, Judged, LockHeld

\* openAttempt and the cash flow start with nothing but the call.
LEMMA UnobstructedReady ==
  ASSUME NEW c \in CallType, NEW doc, NEW b, NEW gw, NEW dup, Holds(doc, b),
         c.op # "webhook", ~c.holds
  PROVE  Ready(Unobstructed(c, doc), b, gw, dup)
<1> USE DEF Holds
<1>1. CASE c.op = "create" /\ Reusable(doc)
  <2>1. Unobstructed(c, doc) = Reopening(c, doc)
    BY <1>1 DEF Unobstructed, OpenAttempt
  <2> QED BY <1>1, <2>1, ReopeningSound DEF Ready, Accounted
<1>2. CASE ~(c.op = "create" /\ Reusable(doc))
  <2> DEFINE label == IF c.op = "create" THEN "lock" ELSE "cash"
             e == [c EXCEPT !.pc = label, !.doc = NoBill]
  <2>1. Unobstructed(c, doc) = e
    BY <1>2 DEF Unobstructed, OpenAttempt
  <2>2. /\ e \in CallType /\ e.op = c.op /\ e.holds = FALSE /\ e.doc = NoBill
        /\ e.pc \in {"lock", "cash"}
    BY NoBillHasNoOrders DEF CallType, Pc
  <2> HIDE DEF e
  <2> QED BY <2>1, <2>2, NoBillHasNoOrders
          DEF Ready, Sound, KnowsDocument, KnowsPayment, KnowsEvent, KnowsOrder,
              Crediting, Judged, LockHeld
<1> QED BY <1>1, <1>2

LEMMA ResumeReady ==
  ASSUME NEW c \in CallType, NEW doc, NEW b, NEW gw, NEW dup, Holds(doc, b),
         Accounted(c, b, gw, dup), ~c.holds
  PROVE  Ready(Resume(c, doc), b, gw, dup)
<1>1. CASE c.op \in {"create", "cash"} /\ Open(doc) /\ doc.processing = NoPay
  <2> DEFINE e == [c EXCEPT !.pay = NoPay]
  <2>1. e \in CallType /\ e.op = c.op /\ e.holds = FALSE
    BY DEF CallType
  <2>2. Resume(c, doc) = Unobstructed(e, doc)
    BY <1>1 DEF Resume
  <2> HIDE DEF e
  <2> QED BY <1>1, <2>1, <2>2, UnobstructedReady
<1>2. CASE ~(c.op \in {"create", "cash"} /\ Open(doc) /\ doc.processing = NoPay)
  <2>1. Resume(c, doc) = Ended(c)
    BY <1>2 DEF Resume
  <2> QED BY <2>1, EndedReady
<1> QED BY <1>1, <1>2

\* What Razorpay said of payment g, possibly long ago.
Said(g, saw, gw) ==
  /\ g \in Pays /\ gw[g].status # "none"
  /\ saw \in {"created", "authorized", "captured", "failed"}
  /\ saw = "authorized" => gw[g].status \in {"authorized", "captured"}
  /\ saw = "captured" => gw[g].status = "captured"

\* applyGatewayPayment decides on the document it holds, and that is good enough.
LEMMA JudgeReady ==
  ASSUME NEW c \in CallType, NEW doc, NEW b, NEW gw, NEW dup, NEW g, NEW saw,
         Holds(doc, b), Said(g, saw, gw), ~c.holds,
         Settled(doc) => Settled(b) /\ b.paidBy = doc.paidBy /\ b.gateway = doc.gateway,
         c.op = "webhook" => c.pay = g /\ c.saw = saw /\ saw # "created"
  PROVE  Ready(Judge(c, doc, g, saw), b, gw, dup)
<1> DEFINE at(label) == [c EXCEPT !.pc = label, !.pay = g, !.saw = saw,
                                  !.doc = IF label = "failed" THEN doc ELSE NoBill]
<1> USE DEF Holds, Said
<1>1. CASE Settled(doc) /\ doc.paidBy = g
  <2>1. Accounted(c, b, gw, dup)
    BY <1>1 DEF Accounted
  <2>2. Judge(c, doc, g, saw) = Credited(c, doc)
    BY <1>1 DEF Judge
  <2> QED BY <1>1, <2>1, <2>2, CreditedReady
<1>2. CASE Settled(doc) /\ doc.paidBy # g /\ saw # "captured"
  <2>1. Accounted(c, b, gw, dup)
    BY <1>2 DEF Accounted
  <2>2. Judge(c, doc, g, saw) = Resume(c, doc)
    BY <1>2 DEF Judge
  <2> QED BY <2>1, <2>2, ResumeReady
<1>3. ASSUME NEW label \in {"duplicate", "settle", "capture", "failed", "processing"},
             label = "duplicate" => Settled(doc) /\ doc.paidBy # g,
             label = "settle" => saw = "captured",
             label = "capture" => saw = "authorized",
             label = "failed" => ~Settled(doc) /\ saw = "failed",
             label = "processing" => saw = "created"
      PROVE  Ready(at(label), b, gw, dup)
  <2> DEFINE d == IF label = "failed" THEN doc ELSE NoBill
             e == [c EXCEPT !.pc = label, !.pay = g, !.saw = saw, !.doc = d]
  <2>1. d \in Bill /\ OrdersOf(d) \subseteq OrdersOf(b) /\ (label = "failed" => ~Settled(d))
    BY <1>3, NoBillHasNoOrders
  <2>2. at(label) = e
    OBVIOUS
  <2> HIDE DEF d, at
  <2>3. /\ e \in CallType /\ e.op = c.op /\ e.holds = FALSE /\ e.doc = d /\ e.pc = label
        /\ e.pay = g /\ e.saw = saw
    BY <2>1 DEF CallType, Pc
  <2> HIDE DEF e
  <2>4. c.op = "webhook" /\ saw = "captured" => label \in {"settle", "duplicate"}
    BY <1>3
  <2> QED BY <1>3, <2>1, <2>2, <2>3, <2>4
          DEF Ready, Sound, KnowsDocument, KnowsPayment, KnowsEvent, KnowsOrder,
              Crediting, Judged, LockHeld
<1>4. CASE Settled(doc) /\ doc.paidBy # g /\ saw = "captured"
  <2>1. Judge(c, doc, g, saw) = at("duplicate")
    BY <1>4 DEF Judge
  <2> QED BY <1>3, <1>4, <2>1
<1>5. CASE ~Settled(doc) /\ saw = "captured"
  <2>1. Judge(c, doc, g, saw) = at("settle")
    BY <1>5 DEF Judge
  <2> QED BY <1>3, <1>5, <2>1
<1>6. CASE ~Settled(doc) /\ saw = "authorized"
  <2>1. Judge(c, doc, g, saw) = at("capture")
    BY <1>6 DEF Judge
  <2> QED BY <1>3, <1>6, <2>1
<1>7. CASE ~Settled(doc) /\ saw = "failed"
  <2>1. Judge(c, doc, g, saw) = at("failed")
    BY <1>7 DEF Judge
  <2> QED BY <1>3, <1>7, <2>1
<1>8. CASE ~Settled(doc) /\ saw = "created"
  <2>1. Judge(c, doc, g, saw) = at("processing")
    BY <1>8 DEF Judge
  <2> QED BY <1>3, <1>8, <2>1
<1> QED BY <1>1, <1>2, <1>4, <1>5, <1>6, <1>7, <1>8

-----------------------------------------------------------------------------
(* Steps that only move a call.                                            *)

LEMMA CallsForward ==
  ASSUME IInv, NEW p \in Calls, NEW c, Become(p, c), Sound(c, bill', gateway', duplicates'),
         Forward(bill, bill', gateway, gateway', duplicates, duplicates')
  PROVE  CallsSound' /\ call' \in [Calls -> CallType] /\ call'[p] = c
<1>1. call'[p] = c /\ \A q \in Calls : q # p => call'[q] = call[q]
  BY DEF IInv, TypeOK, Become
<1>2. \A q \in Calls : Sound(call'[q], bill', gateway', duplicates')
  BY <1>1, SoundForward DEF IInv, CallsSound
<1> QED BY <1>1, <1>2 DEF CallsSound, Sound, Become, IInv, TypeOK

LEMMA StandStill ==
  ASSUME NEW b, NEW gw, NEW dup
  PROVE  Forward(b, b, gw, gw, dup, dup)
  BY DEF Forward

\* A step that moves a call, the ride's status and what the customer was handed.
LEMMA RideStep ==
  ASSUME IInv, NEW p \in Calls, NEW c, Become(p, c),
         Sound(c, bill, gateway, duplicates), ~c.holds, c.pc = "earnLink" => earnings # <<>>,
         UNCHANGED <<bill, locked, duplicates, linked, earnings, world, handled>>,
         failures' \in 0..MaxFailures,
         ride' \in PAYABLE_RIDE_PAYMENT_STATUSES \cup {"SUCCESS"},
         ride' = "SUCCESS" => ride = "SUCCESS" \/ Settled(bill),
         handed \subseteq handed', handed' \subseteq OrdersOf(bill)
  PROVE  IInv'
<1> USE DEF IInv, world
<1>1. CallsSound' /\ call' \in [Calls -> CallType]
  BY CallsForward, StandStill
<1>2. call'[p] = c /\ \A q \in Calls : q # p => call'[q] = call[q]
  BY DEF TypeOK, Become
<1>3. TypeOK'
  <2>1. OrdersOf(bill) \subseteq Orders
    BY OrdersAreOrders DEF TypeOK
  <2> QED BY <1>1, <2>1 DEF TypeOK
<1>4. SettledFirst' /\ MarksFit' /\ OrdersKnown'
  BY DEF SettledFirst, MarksFit, OrdersKnown
<1>5. CreditedOnce'
  BY <1>2 DEF CreditedOnce
<1>6. NoCaptureIsForgotten' /\ PaymentIsNotItsOwnDuplicate'
  BY DEF NoCaptureIsForgotten, PaymentIsNotItsOwnDuplicate
<1>7. LockOK'
  <2>1. c.pc \notin LockHeld
    BY DEF Sound, KnowsOrder
  <2>2. Reusable(bill)' <=> Reusable(bill)
    BY DEF Reusable
  <2>3. bill' = bill /\ locked' = locked /\ ~call'[p].holds /\ ~Raises(call'[p])
    BY <1>2, <2>1 DEF Raises, LockHeld
  <2>4. SUFFICES ASSUME ~Settled(bill), NEW q \in Calls
                 PROVE  /\ Raises(call'[q]) => locked /\ \A r \in Calls : call'[r].holds => r = q
                        /\ call'[q].pc \in {"raise", "push"} => ~Reusable(bill)
                        /\ call'[q].holds /\ ~Raises(call'[q]) => Reusable(bill)
                        /\ call'[q].pc = "push" => call'[q].order \notin OrdersOf(bill)
    BY <2>2, <2>3 DEF LockOK
  <2>5. CASE q = p
    BY <1>2, <2>1, <2>3, <2>5 DEF LockHeld
  <2>6. CASE q # p
    <3>1. call'[q] = call[q] /\ \A r \in Calls : call'[r].holds => call[r].holds
      BY <1>2, <2>3, <2>6
    <3> QED BY <2>4, <3>1 DEF LockOK
  <2> QED BY <2>5, <2>6
<1> QED BY <1>1, <1>3, <1>4, <1>5, <1>6, <1>7

LEMMA QuietStep ==
  ASSUME IInv, NEW p \in Calls, NEW c, Become(p, c),
         Sound(c, bill, gateway, duplicates), ~c.holds, c.pc = "earnLink" => earnings # <<>>,
         UNCHANGED <<record, world, handed, handled>>, failures' \in 0..MaxFailures
  PROVE  IInv'
<1>1. /\ ride' = ride /\ handed' = handed
      /\ UNCHANGED <<bill, locked, duplicates, linked, earnings, world, handled>>
  BY DEF record
<1>2. /\ ride \in PAYABLE_RIDE_PAYMENT_STATUSES \cup {"SUCCESS"}
      /\ handed \subseteq OrdersOf(bill)
  BY DEF IInv, TypeOK, OrdersKnown
<1> QED BY <1>1, <1>2, RideStep

\* What the invariant says of one call.
LEMMA CallFacts ==
  ASSUME IInv, NEW p \in Calls
  PROVE  /\ call[p] \in CallType /\ Sound(call[p], bill, gateway, duplicates)
         /\ bill \in Bill /\ failures \in 0..MaxFailures
         /\ call[p].pc \notin LockHeld \cup {"reopen"} => ~call[p].holds
         /\ call[p].pc \notin {"settle", "duplicate"} =>
              Accounted(call[p], bill, gateway, duplicates)
<1>1. call[p] \in CallType /\ Sound(call[p], bill, gateway, duplicates)
  BY DEF IInv, TypeOK, CallsSound
<1>2. call[p].pc \notin LockHeld \cup {"reopen"} => ~call[p].holds
  BY <1>1 DEF Sound, KnowsOrder
<1>3. call[p].pc \notin {"settle", "duplicate"} => Accounted(call[p], bill, gateway, duplicates)
  BY <1>1 DEF Sound, KnowsEvent, KnowsPayment, Accounted
<1> QED BY <1>1, <1>2, <1>3 DEF IInv, TypeOK

\* Reading the bill is holding it.
LEMMA BillHeld ==
  ASSUME IInv
  PROVE  Holds(bill, bill)
  BY DEF Holds, IInv, TypeOK

LEMMA QuietReady ==
  ASSUME IInv, NEW p \in Calls, NEW c, Become(p, c), Ready(c, bill, gateway, duplicates),
         UNCHANGED <<record, world, handed, handled>>, failures' \in 0..MaxFailures
  PROVE  IInv'
  BY QuietStep DEF Ready

LEMMA TapPayStep ==
  ASSUME IInv, NEW p \in Calls, NEW op \in {"create", "cash"}, TapPay(p, op)
  PROVE  IInv'
<1> DEFINE c == [Idle EXCEPT !.pc = "open", !.op = op, !.wait = (ride = "PROCESSING")]
<1>1. /\ c \in CallType /\ c.pc = "open" /\ c.op = op /\ c.doc = NoBill /\ c.holds = FALSE
  BY NoBillHasNoOrders DEF Idle, CallType, Op, Pc
<1>2. Become(p, c) /\ UNCHANGED <<record, world, handed, handled>> /\ failures' = failures
  BY DEF TapPay
<1> HIDE DEF c
<1>3. Ready(c, bill, gateway, duplicates)
  BY <1>1, NoBillHasNoOrders
     DEF Ready, Sound, KnowsDocument, KnowsPayment, KnowsEvent, KnowsOrder,
         Crediting, Judged, LockHeld
<1> QED BY <1>2, <1>3, CallFacts, QuietReady

LEMMA VerifyStep ==
  ASSUME IInv, NEW p \in Calls, NEW g \in Pays, Verify(p, g)
  PROVE  IInv'
<1> DEFINE v == [Idle EXCEPT !.op = "verify"]
           c == [v EXCEPT !.pc = "verifyFetch", !.doc = bill, !.pay = g]
<1>0. v \in CallType /\ v.op = "verify" /\ v.holds = FALSE
  BY IdleReady DEF Ready, Sound, Idle, CallType, Op
<1>1. CASE Settled(bill) /\ bill.paidBy = g
  <2>1. Become(p, Credited(v, bill)) /\ UNCHANGED <<record, world, handed, handled, failures>>
    BY <1>1 DEF Verify
  <2>2. Ready(Credited(v, bill), bill, gateway, duplicates)
    BY <1>0, <1>1, CallFacts, CreditedReady DEF Accounted
  <2> QED BY <2>1, <2>2, CallFacts, QuietReady
<1>2. CASE ~(Settled(bill) /\ bill.paidBy = g)
  <2>1. /\ Become(p, c) /\ UNCHANGED <<record, world, handed, handled, failures>>
        /\ gateway[g].status # "none"
    BY <1>2 DEF Verify
  <2>2. /\ c \in CallType /\ c.pc = "verifyFetch" /\ c.op = "verify" /\ c.doc = bill
        /\ c.pay = g /\ c.holds = FALSE
    BY <1>0, CallFacts DEF CallType, Pc
  <2> HIDE DEF c, v
  <2>3. Ready(c, bill, gateway, duplicates)
    BY <2>1, <2>2 DEF Ready, Sound, KnowsDocument, KnowsPayment, KnowsEvent, KnowsOrder,
                      Crediting, Judged, LockHeld
  <2> QED BY <2>1, <2>3, CallFacts, QuietReady
<1> QED BY <1>1, <1>2

LEMMA VerifyFetchStep ==
  ASSUME IInv, NEW p \in Calls, VerifyFetch(p)
  PROVE  IInv'
<1> DEFINE c == call[p]
           g == c.pay
<1>1. /\ Become(p, Judge(c, c.doc, g, gateway[g].status)) /\ c.pc = "verifyFetch"
      /\ UNCHANGED <<record, world, handed, handled>> /\ failures' = failures
  BY DEF VerifyFetch, Running
<1>2. c \in CallType /\ ~c.holds /\ Sound(c, bill, gateway, duplicates)
  BY <1>1, CallFacts DEF LockHeld
<1>3. Holds(c.doc, bill) /\ Said(g, gateway[g].status, gateway)
  BY <1>1, <1>2 DEF Holds, Said, Sound, KnowsDocument, KnowsPayment, Judged, CallType,
                    IInv, TypeOK, RazorpayPayment
<1>4. /\ Settled(c.doc) => /\ Settled(bill) /\ bill.paidBy = c.doc.paidBy
                           /\ bill.gateway = c.doc.gateway
      /\ c.op # "webhook"
  BY <1>1, <1>2 DEF Sound, KnowsDocument, KnowsEvent
<1> HIDE DEF c, g
<1>5. Ready(Judge(c, c.doc, g, gateway[g].status), bill, gateway, duplicates)
  BY <1>2, <1>3, <1>4, JudgeReady
<1> QED BY <1>1, <1>5, CallFacts, QuietReady DEF c

LEMMA VerifyParkStep ==
  ASSUME IInv, NEW p \in Calls, VerifyPark(p)
  PROVE  IInv'
<1> DEFINE c == call[p]
           e == [c EXCEPT !.pc = "processing", !.saw = "created"]
<1>1. c.pc = "verifyFetch" /\ UNCHANGED <<record, world, handed, handled>> /\ failures' = failures
  BY DEF VerifyPark, Running
<1>2. /\ c \in CallType /\ ~c.holds /\ Sound(c, bill, gateway, duplicates)
      /\ Accounted(c, bill, gateway, duplicates)
  BY <1>1, CallFacts DEF LockHeld
<1>3. CASE Open(c.doc)
  <2>1. Become(p, e)
    BY <1>3 DEF VerifyPark
  <2>2. /\ e \in CallType /\ e.pc = "processing" /\ e.doc = c.doc /\ e.op = c.op
        /\ e.pay = c.pay /\ e.saw = "created" /\ e.holds = FALSE
    BY <1>2 DEF CallType, Pc
  <2> HIDE DEF e, c
  <2>3. Ready(e, bill, gateway, duplicates)
    BY <1>1, <1>2, <2>2
       DEF Ready, Sound, KnowsDocument, KnowsPayment, KnowsEvent, KnowsOrder,
           Crediting, Judged, LockHeld
  <2> QED BY <1>1, <2>1, <2>3, CallFacts, QuietReady
<1>4. CASE ~Open(c.doc)
  <2>1. Become(p, Ended(c))
    BY <1>4 DEF VerifyPark, Finish
  <2> QED BY <1>1, <1>2, <2>1, EndedReady, CallFacts, QuietReady
<1> QED BY <1>3, <1>4

LEMMA ReportFailureStep ==
  ASSUME IInv, NEW p \in Calls, NEW g \in Pays \cup {NoPay}, NEW o \in Orders,
         ReportFailure(p, g, o)
  PROVE  IInv'
<1> DEFINE c == [Idle EXCEPT !.op = "report", !.pc = "failed", !.doc = bill,
                             !.pay = g, !.order = o]
<1>1. /\ Become(p, c) /\ UNCHANGED <<record, world, handed, handled>> /\ failures' = failures
      /\ Open(bill)
  BY DEF ReportFailure
<1>2. /\ c \in CallType /\ c.pc = "failed" /\ c.doc = bill /\ c.op = "report" /\ c.holds = FALSE
  BY CallFacts, NoBillHasNoOrders DEF Idle, CallType, Op, Pc
<1>3. ~Settled(bill)
  BY <1>1 DEF Open, Settled, OPEN_PAYMENT_STATUSES, SETTLED_PAYMENT_STATUSES
<1> HIDE DEF c
<1>4. Ready(c, bill, gateway, duplicates)
  BY <1>2, <1>3 DEF Ready, Sound, KnowsDocument, KnowsPayment, KnowsEvent, KnowsOrder,
                    Crediting, Judged, LockHeld
<1> QED BY <1>1, <1>4, CallFacts, QuietReady

LEMMA WebhookStep ==
  ASSUME IInv, NEW p \in Calls, NEW g \in Pays, NEW s \in {"authorized", "captured", "failed"},
         Webhook(p, g, s)
  PROVE  IInv'
<1> DEFINE c == [Idle EXCEPT !.op = "webhook", !.pay = g, !.saw = s]
<1>1. /\ Become(p, Judge(c, bill, g, s)) /\ <<g, s>> \in Sent
      /\ UNCHANGED <<record, world, handed, handled>> /\ failures' = failures
  BY DEF Webhook
<1>2. c \in CallType /\ c.pay = g /\ c.saw = s /\ c.holds = FALSE
  BY NoBillHasNoOrders DEF Idle, CallType, Op, Pc
<1>3. Said(g, s, gateway)
  BY <1>1 DEF Sent, Said
<1> HIDE DEF c
<1>4. Ready(Judge(c, bill, g, s), bill, gateway, duplicates)
  BY <1>2, <1>3, BillHeld, JudgeReady
<1> QED BY <1>1, <1>4, CallFacts, QuietReady

LEMMA ReconcileStep ==
  ASSUME IInv, NEW p \in Calls, Reconcile(p) \/ Receipt(p)
  PROVE  IInv'
<1> DEFINE c == [Idle EXCEPT !.pc = "fetch", !.doc = bill]
<1>1. /\ Become(p, c) /\ UNCHANGED <<record, world, handed, handled>> /\ failures' = failures
      /\ StaleProcessing \/ OpenOrderToCheck \/ Open(bill)
  BY DEF Reconcile, Receipt
<1>2. /\ c \in CallType /\ c.pc = "fetch" /\ c.doc = bill /\ c.op = "reconcile" /\ c.holds = FALSE
  BY CallFacts, NoBillHasNoOrders DEF Idle, CallType, Op, Pc
<1>3. ~Settled(bill)
  BY <1>1 DEF StaleProcessing, OpenOrderToCheck, Open, OPEN_PAYMENT_STATUSES, Settled,
              SETTLED_PAYMENT_STATUSES
<1> HIDE DEF c
<1>4. Ready(c, bill, gateway, duplicates)
  BY <1>2, <1>3 DEF Ready, Sound, KnowsDocument, KnowsPayment, KnowsEvent, KnowsOrder,
                    Crediting, Judged, LockHeld
<1> QED BY <1>1, <1>4, CallFacts, QuietReady

LEMMA ReconcileFetchStep ==
  ASSUME IInv, NEW p \in Calls, ReconcileFetch(p)
  PROVE  IInv'
<1> DEFINE c == call[p]
<1>1. /\ c.pc = "fetch" /\ UNCHANGED <<record, world, handed, handled>> /\ failures' = failures
      /\ \/ \E g \in Pays, s \in {"captured", "authorized", "failed"} :
              gateway[g].status = s /\ Become(p, Judge(c, c.doc, g, s))
         \/ Become(p, Resume(c, bill))
  BY DEF ReconcileFetch, Running
<1>2. /\ c \in CallType /\ ~c.holds /\ Sound(c, bill, gateway, duplicates)
      /\ Accounted(c, bill, gateway, duplicates)
  BY <1>1, CallFacts DEF LockHeld
<1>3. Holds(c.doc, bill) /\ ~Settled(c.doc) /\ c.op # "webhook"
  BY <1>1, <1>2 DEF Holds, Sound, KnowsDocument, KnowsEvent, CallType
<1>4. ASSUME NEW g \in Pays, NEW s \in {"captured", "authorized", "failed"},
             gateway[g].status = s, Become(p, Judge(c, c.doc, g, s))
      PROVE  IInv'
  <2>1. Said(g, s, gateway)
    BY <1>4 DEF Said
  <2> HIDE DEF c
  <2>2. Ready(Judge(c, c.doc, g, s), bill, gateway, duplicates)
    BY <1>2, <1>3, <2>1, JudgeReady
  <2> QED BY <1>1, <1>4, <2>2, CallFacts, QuietReady
<1>5. CASE Become(p, Resume(c, bill))
  BY <1>1, <1>2, <1>5, BillHeld, ResumeReady, CallFacts, QuietReady
<1> QED BY <1>1, <1>4, <1>5

LEMMA ReconcileDeferredStep ==
  ASSUME IInv, NEW p \in Calls, ReconcileDeferred(p)
  PROVE  IInv'
<1> DEFINE c == call[p]
<1>1. /\ c.pc = "fetch" /\ UNCHANGED <<record, world, handed, handled>> /\ failures' = failures
      /\ Become(p, Resume(c, c.doc))
  BY DEF ReconcileDeferred, Running
<1>2. /\ c \in CallType /\ ~c.holds /\ Sound(c, bill, gateway, duplicates)
      /\ Accounted(c, bill, gateway, duplicates)
  BY <1>1, CallFacts DEF LockHeld
<1>3. Holds(c.doc, bill)
  BY <1>1, <1>2 DEF Holds, Sound, KnowsDocument, CallType
<1> QED BY <1>1, <1>2, <1>3, ResumeReady, CallFacts, QuietReady

LEMMA CreditMissingStep ==
  ASSUME IInv, NEW p \in Calls, CreditMissing(p)
  PROVE  IInv'
<1>1. /\ Become(p, Credited(Idle, bill)) /\ Settled(bill) /\ failures' = failures
      /\ UNCHANGED <<record, world, handed, handled>>
  BY DEF CreditMissing, Settled, SETTLED_PAYMENT_STATUSES
<1>2. Idle \in CallType /\ ~Idle.holds /\ Accounted(Idle, bill, gateway, duplicates)
  BY IdleReady DEF Ready, Sound, Idle, Accounted
<1> QED BY <1>1, <1>2, CallFacts, CreditedReady, QuietReady

LEMMA OrderLockBusyStep ==
  ASSUME IInv, NEW p \in Calls, OrderLockBusy(p)
  PROVE  IInv'
<1> DEFINE c == call[p]
<1>1. /\ c.pc = "lock" /\ UNCHANGED <<record, world, handed, handled>> /\ failures' = failures
      /\ \/ Reusable(bill) /\ Become(p, Reopening(c, bill))
         \/ Become(p, Ended(c))
  BY DEF OrderLockBusy, Running, Finish
<1>2. /\ c \in CallType /\ ~c.holds /\ Sound(c, bill, gateway, duplicates)
      /\ Accounted(c, bill, gateway, duplicates)
  BY <1>1, CallFacts DEF LockHeld
<1>3. c.op = "webhook" => c.saw # "captured"
  BY <1>1, <1>2 DEF Sound, KnowsEvent, Crediting
<1>4. CASE Reusable(bill) /\ Become(p, Reopening(c, bill))
  <2>1. Ready(Reopening(c, bill), bill, gateway, duplicates)
    BY <1>2, <1>3, <1>4, CallFacts, ReopeningSound DEF Ready
  <2> QED BY <1>1, <1>4, <2>1, CallFacts, QuietReady
<1>5. CASE Become(p, Ended(c))
  BY <1>1, <1>2, <1>5, EndedReady, CallFacts, QuietReady
<1> QED BY <1>1, <1>4, <1>5

LEMMA EarnFindStep ==
  ASSUME IInv, NEW p \in Calls, EarnFind(p)
  PROVE  IInv'
<1> DEFINE c == call[p]
           label == IF earnings = <<>> THEN "earnInsert" ELSE "earnLink"
           e == [c EXCEPT !.pc = label]
<1>1. /\ c.pc = "earnFind" /\ UNCHANGED <<record, world, handed, handled>> /\ failures' = failures
      /\ Become(p, e)
  BY DEF EarnFind, Running, Goto
<1>2. /\ c \in CallType /\ ~c.holds /\ Sound(c, bill, gateway, duplicates)
      /\ Accounted(c, bill, gateway, duplicates)
  BY <1>1, CallFacts DEF LockHeld
<1>3. /\ e \in CallType /\ e.pc = label /\ e.doc = c.doc /\ e.op = c.op /\ e.pay = c.pay
      /\ e.saw = c.saw /\ e.holds = FALSE
  BY <1>2 DEF CallType, Pc
<1>4. label \in {"earnInsert", "earnLink"} /\ (label = "earnLink" => earnings # <<>>)
  OBVIOUS
<1> HIDE DEF e, c, label
<1>5. Sound(e, bill, gateway, duplicates)
  BY <1>1, <1>2, <1>3, <1>4
     DEF Sound, Accounted, KnowsDocument, KnowsPayment, KnowsEvent, KnowsOrder,
         Crediting, Judged, LockHeld
<1> QED BY <1>1, <1>3, <1>4, <1>5, CallFacts, QuietStep

LEMMA EarnErrorStep ==
  ASSUME IInv, NEW p \in Calls, EarnError(p)
  PROVE  IInv'
<1> DEFINE c == call[p]
<1>1. /\ c.pc \in Crediting /\ UNCHANGED <<record, world, handed, handled>>
      /\ failures < MaxFailures /\ failures' = failures + 1 /\ Become(p, Ended(c))
  BY DEF EarnError, Finish, Crediting
<1>2. c \in CallType /\ ~c.holds /\ Accounted(c, bill, gateway, duplicates)
  BY <1>1, CallFacts DEF LockHeld, Crediting
<1> QED BY <1>1, <1>2, EndedReady, CallFacts, QuietReady

LEMMA FailStep ==
  ASSUME IInv, NEW p \in Calls, Fail(p)
  PROVE  IInv'
<1>1. /\ Become(p, Idle) /\ UNCHANGED <<record, world, handed, handled>>
      /\ failures < MaxFailures /\ failures' = failures + 1
  BY DEF Fail
<1> QED BY <1>1, IdleReady, CallFacts, QuietReady

-----------------------------------------------------------------------------
(* Steps that move the ride's payment status.                              *)

LEMMA OrderRideStep ==
  ASSUME IInv, NEW p \in Calls, OrderRide(p)
  PROVE  IInv'
<1> DEFINE c == call[p]
<1>1. /\ c.pc = "orderRide" /\ ApplyRide({"PENDING", "FAILED"}, "ORDER_CREATED")
      /\ handed' = handed \cup {c.order} /\ Become(p, Ended(c)) /\ failures' = failures
      /\ UNCHANGED <<bill, locked, duplicates, linked, earnings, world, handled>>
  BY DEF OrderRide, Running, Finish
<1>2. /\ c \in CallType /\ ~c.holds /\ Sound(c, bill, gateway, duplicates)
      /\ Accounted(c, bill, gateway, duplicates) /\ failures \in 0..MaxFailures
  BY <1>1, CallFacts DEF LockHeld
<1>3. c.order \in OrdersOf(bill) /\ handed \subseteq OrdersOf(bill)
  BY <1>1, <1>2 DEF Sound, KnowsOrder, IInv, OrdersKnown
<1>4. /\ ride' \in PAYABLE_RIDE_PAYMENT_STATUSES \cup {"SUCCESS"}
      /\ ride' = "SUCCESS" => ride = "SUCCESS"
  BY <1>1 DEF ApplyRide, PAYABLE_RIDE_PAYMENT_STATUSES, IInv, TypeOK
<1>5. Ready(Ended(c), bill, gateway, duplicates)
  BY <1>2, EndedReady
<1> HIDE DEF c
<1> QED BY <1>1, <1>2, <1>3, <1>4, <1>5, RideStep DEF Ready

LEMMA RideFailedStep ==
  ASSUME IInv, NEW p \in Calls, RideFailed(p) \/ RideProcessing(p)
  PROVE  IInv'
<1> DEFINE c == call[p]
<1>1. /\ c.pc \in {"rideFailed", "rideProcessing"} /\ Become(p, Resume(c, c.doc))
      /\ \/ ApplyRide({"PENDING", "ORDER_CREATED"} \cup
                        (IF c.op = "report" THEN {} ELSE {"PROCESSING"}), "FAILED")
         \/ ApplyRide({"PENDING", "ORDER_CREATED", "FAILED"}, "PROCESSING")
      /\ UNCHANGED <<bill, locked, duplicates, linked, earnings, world, handed, handled, failures>>
  BY DEF RideFailed, RideProcessing, Running
<1>2. /\ c \in CallType /\ ~c.holds /\ Sound(c, bill, gateway, duplicates)
      /\ Accounted(c, bill, gateway, duplicates) /\ failures \in 0..MaxFailures
  BY <1>1, CallFacts DEF LockHeld
<1>3. Holds(c.doc, bill)
  BY <1>1, <1>2 DEF Holds, Sound, KnowsDocument, CallType
<1>4. /\ ride' \in PAYABLE_RIDE_PAYMENT_STATUSES \cup {"SUCCESS"}
      /\ ride' = "SUCCESS" => ride = "SUCCESS"
  BY <1>1 DEF ApplyRide, PAYABLE_RIDE_PAYMENT_STATUSES, IInv, TypeOK
<1>5. Ready(Resume(c, c.doc), bill, gateway, duplicates)
  BY <1>2, <1>3, ResumeReady
<1>6. handed' = handed /\ handed \subseteq OrdersOf(bill) /\ failures' = failures
  BY <1>1 DEF IInv, OrdersKnown
<1> HIDE DEF c
<1> QED BY <1>1, <1>2, <1>4, <1>5, <1>6, RideStep DEF Ready

LEMMA RidePaidStep ==
  ASSUME IInv, NEW p \in Calls, RidePaid(p)
  PROVE  IInv'
<1> DEFINE c == call[p]
           e == [c EXCEPT !.pc = "earnFind"]
<1>1. /\ c.pc = "credit" /\ ApplyRide(PAYABLE_RIDE_PAYMENT_STATUSES, "SUCCESS")
      /\ Become(p, Ended(c)) \/ Become(p, e)
      /\ UNCHANGED <<bill, locked, duplicates, linked, earnings, world, handed, handled, failures>>
  BY DEF RidePaid, Running, Finish, Goto
<1>2. /\ c \in CallType /\ ~c.holds /\ Sound(c, bill, gateway, duplicates)
      /\ Accounted(c, bill, gateway, duplicates) /\ failures \in 0..MaxFailures
  BY <1>1, CallFacts DEF LockHeld
<1>3. Settled(bill)
  BY <1>1, <1>2 DEF Sound, KnowsDocument, Crediting
<1>4. ride' \in PAYABLE_RIDE_PAYMENT_STATUSES \cup {"SUCCESS"}
  BY <1>1 DEF ApplyRide, PAYABLE_RIDE_PAYMENT_STATUSES, IInv, TypeOK
<1>5. Ready(Ended(c), bill, gateway, duplicates)
  BY <1>2, EndedReady
<1>6. /\ e \in CallType /\ e.pc = "earnFind" /\ e.doc = c.doc /\ e.op = c.op /\ e.pay = c.pay
      /\ e.saw = c.saw /\ e.holds = FALSE
  BY <1>2 DEF CallType, Pc
<1> HIDE DEF e, c
<1>7. Ready(e, bill, gateway, duplicates)
  BY <1>1, <1>2, <1>6
     DEF Ready, Sound, Accounted, KnowsDocument, KnowsPayment, KnowsEvent, KnowsOrder,
         Crediting, Judged, LockHeld
<1>8. handed' = handed /\ handed \subseteq OrdersOf(bill) /\ failures' = failures
  BY <1>1 DEF IInv, OrdersKnown
<1> QED BY <1>1, <1>2, <1>3, <1>4, <1>5, <1>7, <1>8, RideStep DEF Ready

-----------------------------------------------------------------------------
(* Steps that write the bill or the order lock.                            *)

LEMMA OpenIsUnsettled ==
  ASSUME NEW doc \in Bill
  PROVE  ~Settled(doc) <=> Open(doc) \/ doc.status = "NONE"
  BY DEF Bill, Open, Settled, OPEN_PAYMENT_STATUSES, SETTLED_PAYMENT_STATUSES

\* The same order to re-use, and a call that does not raise one: who holds the lock may go on.
LEMMA LockStays ==
  ASSUME IInv, NEW p \in Calls, NEW c, Become(p, c), c.pc \notin {"raise", "push"}, ~Raises(c),
         c.holds => call[p].holds /\ ~Raises(call[p]),
         ~Settled(bill') => /\ ~Settled(bill) /\ locked' = locked
                            /\ OrdersOf(bill') = OrdersOf(bill)
                            /\ Reusable(bill)' <=> Reusable(bill)
  PROVE  LockOK'
<1>1. call'[p] = c /\ \A q \in Calls : q # p => call'[q] = call[q]
  BY DEF IInv, TypeOK, Become
<1>2. SUFFICES ASSUME ~Settled(bill'), NEW q \in Calls
               PROVE  /\ Raises(call'[q]) => locked /\ \A r \in Calls : call'[r].holds => r = q
                      /\ call'[q].pc \in {"raise", "push"} => ~Reusable(bill)
                      /\ call'[q].holds /\ ~Raises(call'[q]) => Reusable(bill)
                      /\ call'[q].pc = "push" => call'[q].order \notin OrdersOf(bill)
  BY DEF LockOK
<1>3. CASE q = p
  BY <1>1, <1>2, <1>3 DEF LockOK, IInv
<1>4. CASE q # p
  <2>1. call'[q] = call[q] /\ \A r \in Calls : call'[r].holds => call[r].holds
    BY <1>1, <1>4
  <2> QED BY <1>2, <2>1 DEF LockOK, IInv
<1> QED BY <1>3, <1>4

LEMMA LockKept ==
  ASSUME IInv, NEW p \in Calls, NEW c, Become(p, c), ~c.holds, c.pc \notin LockHeld,
         ~Settled(bill') => /\ ~Settled(bill) /\ locked' = locked
                            /\ OrdersOf(bill') = OrdersOf(bill)
                            /\ Reusable(bill)' <=> Reusable(bill)
  PROVE  LockOK'
<1>1. ~Raises(c) /\ c.pc \notin {"raise", "push"}
  BY DEF Raises, LockHeld
<1> QED BY <1>1, LockStays

\* A write of the bill, the rest of the invariant apart.
LEMMA BillStep ==
  ASSUME IInv, NEW p \in Calls, NEW c, Become(p, c),
         Sound(c, bill', gateway, duplicates), c.pc # "earnLink",
         UNCHANGED <<ride, duplicates, linked, earnings, world, handed, handled, failures>>,
         locked' \in BOOLEAN, bill' \in Bill,
         Forward(bill, bill', gateway, gateway, duplicates, duplicates),
         SettledFirst', MarksFit', LockOK'
  PROVE  IInv'
<1> USE DEF IInv
<1>0. gateway' = gateway /\ aged' = aged /\ past' = past
  BY DEF world
<1>1. CallsSound' /\ call' \in [Calls -> CallType]
  BY <1>0, CallsForward
<1>2. call'[p] = c /\ \A q \in Calls : q # p => call'[q] = call[q]
  BY DEF TypeOK, Become
<1>3. TypeOK'
  BY <1>0, <1>1 DEF TypeOK
<1>4. OrdersKnown'
  BY <1>0 DEF OrdersKnown, Forward
<1>5. CreditedOnce'
  <2>1. earnings # <<>> => ModeOf(bill') = ModeOf(bill)
    BY DEF SettledFirst, Forward, ModeOf
  <2> QED BY <1>2, <2>1 DEF CreditedOnce
<1>6. NoCaptureIsForgotten'
  BY DEF NoCaptureIsForgotten, Forward
<1>7. PaymentIsNotItsOwnDuplicate'
  <2>1. CASE Settled(bill)
    BY <2>1 DEF PaymentIsNotItsOwnDuplicate, Forward
  <2>2. CASE ~Settled(bill)
    BY <2>2 DEF PaymentIsNotItsOwnDuplicate, SettledFirst
  <2> QED BY <2>1, <2>2
<1> QED BY <1>1, <1>3, <1>4, <1>5, <1>6, <1>7

LEMMA OpenBillStep ==
  ASSUME IInv, NEW p \in Calls, OpenBill(p)
  PROVE  IInv'
<1> DEFINE doc == IF bill.status = "NONE" THEN [NoBill EXCEPT !.status = "CREATED"] ELSE bill
           c == [call[p] EXCEPT !.wait = FALSE]
           f == [c EXCEPT !.pc = "fetch", !.doc = doc]
           n == IF Settled(doc) THEN Credited(c, doc)
                ELSE IF doc.processing # NoPay \/ call[p].wait THEN f ELSE Unobstructed(c, doc)
<1>1. /\ call[p].pc = "open" /\ bill' = doc /\ Become(p, n)
      /\ UNCHANGED <<ride, locked, duplicates, linked, earnings, world, handed, handled, failures>>
  BY DEF OpenBill, Running
<1>2. /\ c \in CallType /\ c.op = call[p].op /\ c.pc = "open" /\ ~c.holds
      /\ Accounted(call[p], bill, gateway, duplicates)
      /\ c.op # "webhook"
  BY <1>1, CallFacts DEF LockHeld, CallType, Sound, KnowsEvent
<1>3. /\ doc \in Bill /\ OrdersOf(doc) = OrdersOf(bill) /\ doc.attempts = bill.attempts
      /\ Settled(doc) <=> Settled(bill)
      /\ Open(doc) \/ bill.status = "NONE" => doc.gateway = "RAZORPAY" /\ doc.paidBy = NoPay
  <2>1. CASE bill.status = "NONE"
    <3>1. doc = [NoBill EXCEPT !.status = "CREATED"]
      BY <2>1
    <3>2. /\ doc \in Bill /\ doc.attempts = NoBill.attempts /\ doc.status = "CREATED"
          /\ doc.gateway = NoBill.gateway /\ doc.paidBy = NoBill.paidBy
      BY <3>1, NoBillHasNoOrders DEF Bill, OPEN_PAYMENT_STATUSES
    <3>3. bill.attempts = <<>>
      BY <2>1 DEF IInv, SettledFirst
    <3> QED BY <2>1, <3>2, <3>3 DEF NoBill, OrdersOf, Settled, SETTLED_PAYMENT_STATUSES
  <2>2. CASE bill.status # "NONE"
    <3>1. doc = bill
      BY <2>2
    <3> HIDE DEF doc
    <3> QED BY <2>2, <3>1, CallFacts, OpenIsUnsettled DEF IInv, SettledFirst
  <2> QED BY <2>1, <2>2
<1>4. /\ Settled(bill) => doc = bill
      /\ bill.paidBy \in Pays => doc.paidBy = bill.paidBy
  BY CallFacts, <1>3, OpenIsUnsettled DEF IInv, SettledFirst, Settled, SETTLED_PAYMENT_STATUSES
<1>5. /\ doc.status = "AUTHORIZED" => doc.processing # NoPay
      /\ doc.status = "FAILED" => doc.processing = NoPay
      /\ doc.status # "NONE"
  BY DEF NoBill, IInv, MarksFit
<1> HIDE DEF doc
<1>6. Forward(bill, bill', gateway, gateway, duplicates, duplicates)
  BY <1>1, <1>3, <1>4 DEF Forward
<1>7. Holds(doc, bill')
  BY <1>1, <1>3 DEF Holds
<1>8. Ready(n, bill', gateway, duplicates)
  <2>1. CASE Settled(doc)
    <3>1. n = Credited(c, doc) /\ Accounted(c, bill', gateway, duplicates)
      BY <1>2, <2>1 DEF Accounted
    <3> HIDE DEF c, n
    <3> QED BY <1>1, <1>2, <1>3, <2>1, <3>1, CreditedReady
  <2>2. CASE ~Settled(doc) /\ n = f
    <3>1. /\ f \in CallType /\ f.pc = "fetch" /\ f.doc = doc /\ f.op = c.op /\ f.pay = c.pay
          /\ f.holds = FALSE
      BY <1>2, <1>3 DEF CallType, Pc
    <3> HIDE DEF c, f, n
    <3> QED BY <1>1, <1>2, <2>2, <3>1
            DEF Ready, Sound, KnowsDocument, KnowsPayment, KnowsEvent, KnowsOrder,
                Crediting, Judged, LockHeld
  <2>3. CASE n = Unobstructed(c, doc)
    <3> HIDE DEF c, n
    <3> QED BY <1>2, <1>7, <2>3, UnobstructedReady
  <2> QED BY <2>1, <2>2, <2>3
<1> HIDE DEF c, f, n
<1>9. LockOK'
  <2>1. Reusable(bill)' <=> Reusable(bill)
    BY <1>1, <1>3 DEF Reusable, world
  <2>2. ~n.holds /\ n.pc \notin LockHeld
    BY <1>8 DEF Ready, Sound, KnowsOrder
  <2> QED BY <1>1, <1>3, <2>1, <2>2, LockKept
<1>10. SettledFirst' /\ MarksFit'
  BY <1>1, <1>3, <1>4, <1>5, CallFacts, OpenIsUnsettled
     DEF SettledFirst, MarksFit, IInv, world, TypeOK
<1> QED BY <1>1, <1>3, <1>6, <1>8, <1>9, <1>10, BillStep DEF Ready, IInv, TypeOK

LEMMA PayCashStep ==
  ASSUME IInv, NEW p \in Calls, PayCash(p)
  PROVE  IInv'
<1> DEFINE c == call[p]
<1>1. /\ c.pc = "cash"
      /\ UNCHANGED <<ride, duplicates, linked, earnings, world, handed, handled, failures>>
  BY DEF PayCash, Running
<1>2. /\ c \in CallType /\ ~c.holds /\ Accounted(c, bill, gateway, duplicates) /\ bill \in Bill
  BY <1>1, CallFacts DEF LockHeld
<1>3. CASE CashAdmitted(bill)
  <2> DEFINE b == [bill EXCEPT !.status = "CAPTURED", !.gateway = "CASH"]
  <2>1. bill' = b /\ locked' = FALSE /\ Become(p, Credited(c, bill'))
    BY <1>3 DEF PayCash
  <2>2. /\ b \in Bill /\ b.attempts = bill.attempts /\ b.paidBy = bill.paidBy
        /\ b.status = "CAPTURED" /\ b.gateway = "CASH"
    BY <1>2 DEF Bill
  <2> HIDE DEF b, c
  <2>3. Settled(b) /\ ~Settled(bill) /\ bill.paidBy = NoPay /\ OrdersOf(b) = OrdersOf(bill)
    BY <1>2, <1>3, <2>2, OpenIsUnsettled
       DEF CashAdmitted, Settled, SETTLED_PAYMENT_STATUSES, OrdersOf, IInv, SettledFirst
  <2>4. Forward(bill, bill', gateway, gateway, duplicates, duplicates)
    BY <2>1, <2>2, <2>3 DEF Forward
  <2>5. Ready(Credited(c, bill'), bill', gateway, duplicates)
    BY <1>2, <2>1, <2>2, <2>3, CreditedReady DEF Accounted
  <2>6. SettledFirst' /\ MarksFit' /\ LockOK'
    BY <2>1, <2>2, <2>3 DEF SettledFirst, MarksFit, LockOK
  <2> QED BY <1>1, <2>1, <2>2, <2>4, <2>5, <2>6, BillStep DEF Ready
<1>4. CASE ~CashAdmitted(bill)
  <2> DEFINE n == IF Settled(bill) THEN Credited(c, bill) ELSE Idle
  <2>1. Become(p, n) /\ UNCHANGED <<record, world, handed, handled, failures>>
    BY <1>1, <1>4 DEF PayCash, record
  <2>2. Ready(n, bill, gateway, duplicates)
    BY <1>2, IdleReady, CreditedReady
  <2> QED BY <2>1, <2>2, CallFacts, QuietReady
<1> QED BY <1>3, <1>4

\* A bill that stays open with the attempts it has, in number, orders and what is unpaid:
\* the order to re-use, the money and the lock are untouched.
LEMMA OpenBillMoves ==
  ASSUME IInv, bill' \in Bill, Open(bill), Open(bill'), aged' = aged, gateway' = gateway,
         UNCHANGED <<ride, duplicates, linked, earnings>>,
         bill'.gateway = bill.gateway, bill'.paidBy = bill.paidBy,
         Len(bill'.attempts) = Len(bill.attempts),
         \A i \in 1..Len(bill.attempts) :
           /\ bill'.attempts[i].order = bill.attempts[i].order
           /\ bill'.attempts[i].status \in Unpaid <=> bill.attempts[i].status \in Unpaid
  PROVE  /\ SettledFirst' /\ (Reusable(bill)' <=> Reusable(bill))
         /\ ~Settled(bill) /\ OrdersOf(bill') = OrdersOf(bill)
         /\ Forward(bill, bill', gateway, gateway, duplicates, duplicates)
<1>1. bill.attempts \in Seq(Attempt) /\ bill'.attempts \in Seq(Attempt) /\ bill \in Bill
  BY DEF IInv, TypeOK, Bill
<1>2. OrdersOf(bill') = OrdersOf(bill)
  BY <1>1 DEF OrdersOf
<1>3. Reusable(bill)' <=> Reusable(bill)
  <2>1. CASE Len(bill.attempts) > 0
    BY <1>1, <2>1 DEF Reusable
  <2>2. CASE ~(Len(bill.attempts) > 0)
    BY <1>1, <2>2 DEF Reusable
  <2> QED BY <2>1, <2>2
<1>4. ~Settled(bill) /\ ~Settled(bill') /\ bill'.status # "NONE"
  BY <1>1, OpenIsUnsettled DEF Open, OPEN_PAYMENT_STATUSES
<1>5. SettledFirst'
  BY <1>4 DEF SettledFirst, IInv
<1>6. Forward(bill, bill', gateway, gateway, duplicates, duplicates)
  BY <1>2, <1>4 DEF Forward
<1> QED BY <1>2, <1>3, <1>4, <1>5, <1>6

LEMMA ReopenStep ==
  ASSUME IInv, NEW p \in Calls, Reopen(p)
  PROVE  IInv'
<1> DEFINE c == call[p]
           label == IF c.holds THEN "unlock" ELSE "orderRide"
           n == [c EXCEPT !.doc = NoBill, !.pc = label]
           b == [bill EXCEPT !.status = "CREATED"]
<1>1. /\ c.pc = "reopen" /\ Become(p, n)
      /\ (bill' = b /\ Open(bill)) \/ bill' = bill
      /\ UNCHANGED <<ride, locked, duplicates, linked, earnings, world, handed, handled, failures>>
  BY DEF Reopen, Running
<1>2. c \in CallType /\ Sound(c, bill, gateway, duplicates) /\ bill \in Bill
  BY CallFacts
<1>3. /\ n \in CallType /\ n.pc = label /\ n.doc = NoBill /\ n.order = c.order /\ n.op = c.op
      /\ n.pay = c.pay /\ n.saw = c.saw /\ n.holds = c.holds
  BY <1>2, NoBillHasNoOrders DEF CallType, Pc
<1>4. c.order \in OrdersOf(bill) /\ c.order # NoOrder
  BY <1>1, <1>2, OrdersAreOrders DEF Sound, KnowsOrder
<1>5. label \in {"unlock", "orderRide"} /\ (label = "unlock" <=> c.holds)
  OBVIOUS
<1> HIDE DEF c, label, n
<1>6. Sound(n, bill, gateway, duplicates)
  BY <1>1, <1>2, <1>3, <1>4, <1>5, NoBillHasNoOrders
     DEF Sound, KnowsDocument, KnowsPayment, KnowsEvent, KnowsOrder,
         Crediting, Judged, LockHeld
<1>7. /\ bill' \in Bill /\ Forward(bill, bill', gateway, gateway, duplicates, duplicates)
      /\ SettledFirst' /\ MarksFit' /\ OrdersOf(bill') = OrdersOf(bill)
      /\ (Settled(bill') <=> Settled(bill)) /\ (Reusable(bill)' <=> Reusable(bill))
  <2>1. CASE bill' = bill
    BY <1>1, <1>2, <2>1, StandStill DEF IInv, SettledFirst, MarksFit, Reusable, world
  <2>2. CASE bill' = b /\ Open(bill)
    <3>1. /\ b \in Bill /\ b.attempts = bill.attempts /\ b.paidBy = bill.paidBy
          /\ b.status = "CREATED" /\ b.gateway = bill.gateway
      BY <1>2 DEF Bill, OPEN_PAYMENT_STATUSES
    <3> HIDE DEF b
    <3>2. Open(bill') /\ ~Settled(bill') /\ MarksFit'
      BY <2>2, <3>1 DEF Open, Settled, OPEN_PAYMENT_STATUSES, SETTLED_PAYMENT_STATUSES, MarksFit
    <3>3. /\ SettledFirst' /\ (Reusable(bill)' <=> Reusable(bill))
          /\ ~Settled(bill) /\ OrdersOf(bill') = OrdersOf(bill)
          /\ Forward(bill, bill', gateway, gateway, duplicates, duplicates)
      BY <1>1, <2>2, <3>1, <3>2, OpenBillMoves DEF world
    <3> QED BY <2>2, <3>1, <3>2, <3>3
  <2> QED BY <1>1, <2>1, <2>2
<1>8. Sound(n, bill', gateway, duplicates)
  BY <1>6, <1>7, SoundForward
<1>9. LockOK'
  <2>1. ~Raises(n) /\ ~Raises(call[p]) /\ n.pc \notin {"raise", "push"}
    BY <1>1, <1>3, <1>4, <1>5 DEF Raises, c
  <2> QED BY <1>1, <1>3, <1>7, <2>1, LockStays DEF c
<1> QED BY <1>1, <1>3, <1>5, <1>7, <1>8, <1>9, BillStep DEF IInv, TypeOK

LEMMA SettleFailedStep ==
  ASSUME IInv, NEW p \in Calls, SettleFailed(p)
  PROVE  IInv'
<1> DEFINE c == call[p]
           order == IF c.op = "report" THEN c.order ELSE gateway[c.pay].order
           other == c.doc.processing # NoPay /\ c.pay # NoPay /\ c.doc.processing # c.pay
<1>1. /\ c.pc = "failed"
      /\ UNCHANGED <<ride, locked, duplicates, linked, earnings, world, handed, handled, failures>>
  BY DEF SettleFailed, Running
<1>2. /\ c \in CallType /\ ~c.holds /\ Sound(c, bill, gateway, duplicates) /\ bill \in Bill
      /\ Accounted(c, bill, gateway, duplicates)
  BY <1>1, CallFacts DEF LockHeld
<1>3. CASE ~other /\ Open(bill)
  <2> DEFINE b == FailedOn(order)
             n == [c EXCEPT !.pc = "rideFailed", !.doc = b, !.order = NoOrder]
  <2>1. bill' = b /\ Become(p, n)
    BY <1>3 DEF SettleFailed
  <2>2. bill.attempts \in Seq(Attempt)
    BY <1>2 DEF Bill
  <2>3. /\ Mark(bill.attempts, order, Unpaid, "FAILED") \in Seq(Attempt)
        /\ Len(Mark(bill.attempts, order, Unpaid, "FAILED")) = Len(bill.attempts)
        /\ \A i \in 1..Len(bill.attempts) :
             /\ Mark(bill.attempts, order, Unpaid, "FAILED")[i].order = bill.attempts[i].order
             /\ Mark(bill.attempts, order, Unpaid, "FAILED")[i].status \in Unpaid
                  <=> bill.attempts[i].status \in Unpaid
    BY <2>2, MarkKeepsOrders
  <2>4. /\ b \in Bill /\ b.attempts = Mark(bill.attempts, order, Unpaid, "FAILED")
        /\ b.paidBy = bill.paidBy /\ b.status = "FAILED" /\ b.gateway = bill.gateway
        /\ b.processing = NoPay
    BY <1>2, <2>3 DEF Bill, FailedOn, OPEN_PAYMENT_STATUSES
  <2> HIDE DEF b
  <2>5. Open(bill') /\ ~Settled(bill') /\ MarksFit'
    BY <2>1, <2>4 DEF Open, Settled, OPEN_PAYMENT_STATUSES, SETTLED_PAYMENT_STATUSES, MarksFit
  <2>6. /\ SettledFirst' /\ (Reusable(bill)' <=> Reusable(bill))
        /\ ~Settled(bill) /\ OrdersOf(bill') = OrdersOf(bill)
        /\ Forward(bill, bill', gateway, gateway, duplicates, duplicates)
    BY <1>1, <1>3, <2>1, <2>3, <2>4, <2>5, OpenBillMoves DEF world
  <2>7. /\ n \in CallType /\ n.pc = "rideFailed" /\ n.doc = b /\ n.op = c.op /\ n.pay = c.pay
        /\ n.saw = c.saw /\ n.holds = FALSE
    BY <1>2, <2>4 DEF CallType, Pc
  <2> HIDE DEF n, c
  <2>8. Accounted(c, bill', gateway, duplicates)
    BY <1>2, <2>1, <2>4 DEF Accounted
  <2>9. c.op = "webhook" => c.saw # "captured"
    BY <1>1, <1>2 DEF Sound, KnowsEvent, Crediting
  <2>10. Ready(n, bill', gateway, duplicates)
    BY <2>1, <2>5, <2>7, <2>8, <2>9
       DEF Ready, Sound, Accounted, KnowsDocument, KnowsPayment, KnowsEvent, KnowsOrder,
           Crediting, Judged, LockHeld
  <2>11. LockOK'
    BY <1>1, <2>1, <2>6, <2>7, LockKept DEF LockHeld
  <2> QED BY <1>1, <2>1, <2>4, <2>5, <2>6, <2>10, <2>11, BillStep DEF Ready, IInv, TypeOK
<1>4. CASE ~(~other /\ Open(bill))
  <2> DEFINE doc == IF other THEN c.doc ELSE bill
  <2>1. Become(p, Resume(c, doc)) /\ UNCHANGED <<record, world, handed, handled, failures>>
    BY <1>1, <1>4 DEF SettleFailed, record
  <2>2. Holds(doc, bill)
    BY <1>2, BillHeld DEF Holds, Sound, KnowsDocument, CallType
  <2> HIDE DEF doc, c
  <2> QED BY <1>2, <2>1, <2>2, ResumeReady, CallFacts, QuietReady
<1> QED BY <1>3, <1>4

LEMMA MarkProcessingStep ==
  ASSUME IInv, NEW p \in Calls, MarkProcessing(p)
  PROVE  IInv'
<1> DEFINE c == call[p]
           status == IF c.saw = "authorized" THEN "AUTHORIZED" ELSE "CREATED"
           m == Mark(bill.attempts, gateway[c.pay].order, Unpaid, "ATTEMPTED")
           b == [bill EXCEPT !.status = status, !.processing = c.pay, !.attempts = m]
           n == [c EXCEPT !.pc = "rideProcessing", !.doc = b]
<1>1. /\ c.pc = "processing"
      /\ UNCHANGED <<ride, locked, duplicates, linked, earnings, world, handed, handled, failures>>
  BY DEF MarkProcessing, Running
<1>2. /\ c \in CallType /\ ~c.holds /\ Sound(c, bill, gateway, duplicates) /\ bill \in Bill
      /\ Accounted(c, bill, gateway, duplicates)
  BY <1>1, CallFacts DEF LockHeld
<1>3. CASE Open(bill)
  <2>1. bill' = b /\ Become(p, n)
    BY <1>3 DEF MarkProcessing
  <2>2. bill.attempts \in Seq(Attempt)
    BY <1>2 DEF Bill
  <2>3. /\ m \in Seq(Attempt) /\ Len(m) = Len(bill.attempts)
        /\ \A i \in 1..Len(bill.attempts) :
             /\ m[i].order = bill.attempts[i].order
             /\ m[i].status \in Unpaid <=> bill.attempts[i].status \in Unpaid
    BY <2>2, MarkKeepsOrders
  <2>4. c.pay \in Pays /\ c.pay # NoPay
    BY <1>1, <1>2 DEF Sound, KnowsPayment, Judged
  <2>5. status \in {"AUTHORIZED", "CREATED"}
    OBVIOUS
  <2> HIDE DEF m, status
  <2>6. /\ b \in Bill /\ b.attempts = m /\ b.paidBy = bill.paidBy /\ b.status = status
        /\ b.gateway = bill.gateway /\ b.processing = c.pay
    BY <1>2, <2>3, <2>4, <2>5 DEF Bill, OPEN_PAYMENT_STATUSES
  <2> HIDE DEF b
  <2>7. Open(bill') /\ ~Settled(bill') /\ MarksFit'
    BY <2>1, <2>4, <2>5, <2>6
       DEF Open, Settled, OPEN_PAYMENT_STATUSES, SETTLED_PAYMENT_STATUSES, MarksFit
  <2>8. /\ SettledFirst' /\ (Reusable(bill)' <=> Reusable(bill))
        /\ ~Settled(bill) /\ OrdersOf(bill') = OrdersOf(bill)
        /\ Forward(bill, bill', gateway, gateway, duplicates, duplicates)
    BY <1>1, <1>3, <2>1, <2>3, <2>6, <2>7, OpenBillMoves DEF world
  <2>9. /\ n \in CallType /\ n.pc = "rideProcessing" /\ n.doc = b /\ n.op = c.op
        /\ n.pay = c.pay /\ n.saw = c.saw /\ n.holds = FALSE
    BY <1>2, <2>6 DEF CallType, Pc
  <2> HIDE DEF n, c
  <2>10. Accounted(c, bill', gateway, duplicates)
    BY <1>2, <2>1, <2>6 DEF Accounted
  <2>11. c.op = "webhook" => c.saw # "captured"
    BY <1>1, <1>2 DEF Sound, KnowsEvent, Crediting
  <2>12. Ready(n, bill', gateway, duplicates)
    BY <2>1, <2>7, <2>9, <2>10, <2>11
       DEF Ready, Sound, Accounted, KnowsDocument, KnowsPayment, KnowsEvent, KnowsOrder,
           Crediting, Judged, LockHeld
  <2>13. LockOK'
    BY <1>1, <2>1, <2>8, <2>9, LockKept DEF LockHeld
  <2> QED BY <1>1, <2>1, <2>6, <2>7, <2>8, <2>12, <2>13, BillStep DEF Ready, IInv, TypeOK
<1>4. CASE ~Open(bill)
  <2>1. Become(p, Resume(c, bill)) /\ UNCHANGED <<record, world, handed, handled, failures>>
    BY <1>1, <1>4 DEF MarkProcessing, record
  <2> HIDE DEF c
  <2> QED BY <1>2, <2>1, BillHeld, ResumeReady, CallFacts, QuietReady
<1> QED BY <1>3, <1>4

\* settleCaptured, won or lost.
LEMMA SettleStep ==
  ASSUME IInv, NEW p \in Calls, Settle(p)
  PROVE  IInv'
<1> DEFINE c == call[p]
           g == c.pay
<1>1. /\ c.pc = "settle"
      /\ UNCHANGED <<ride, duplicates, linked, earnings, world, handed, handled, failures>>
  BY DEF Settle, Running
<1>2. c \in CallType /\ ~c.holds /\ Sound(c, bill, gateway, duplicates) /\ bill \in Bill
  BY <1>1, CallFacts DEF LockHeld
<1>3. g \in Pays /\ gateway[g].status = "captured"
  BY <1>1, <1>2 DEF Sound, KnowsPayment, Judged
<1>4. c.op = "webhook" => c.saw # "created"
  BY <1>2 DEF Sound, KnowsEvent
<1>5. CASE Open(bill)
  <2> DEFINE b == SettledBy(g)
             m == Mark(bill.attempts, gateway[g].order, Unpaid, "PAID")
  <2>1. bill' = b /\ locked' = FALSE /\ Become(p, Credited(c, bill'))
    BY <1>5 DEF Settle, SettleAdmitted
  <2>2. bill.attempts \in Seq(Attempt)
    BY <1>2 DEF Bill
  <2>3. /\ m \in Seq(Attempt) /\ Len(m) = Len(bill.attempts)
        /\ \A i \in 1..Len(bill.attempts) : m[i].order = bill.attempts[i].order
    BY <2>2, MarkKeepsOrders
  <2> HIDE DEF m
  <2>4. /\ b \in Bill /\ b.attempts = m /\ b.paidBy = g /\ b.status = "CAPTURED"
        /\ b.gateway = bill.gateway
    BY <1>2, <1>3, <2>3 DEF Bill, SettledBy, m
  <2>5. OrdersOf(b) = OrdersOf(bill)
    BY <2>2, <2>3, <2>4 DEF OrdersOf
  <2>6. Settled(b) /\ ~Settled(bill) /\ bill.gateway = "RAZORPAY" /\ bill.paidBy = NoPay
    BY <1>2, <1>5, <2>4, OpenIsUnsettled
       DEF Settled, SETTLED_PAYMENT_STATUSES, IInv, SettledFirst
  <2> HIDE DEF b, c, g
  <2>7. Forward(bill, bill', gateway, gateway, duplicates, duplicates)
    BY <2>1, <2>4, <2>5, <2>6 DEF Forward
  <2>8. Accounted(c, bill', gateway, duplicates)
    BY <1>3, <1>4, <2>1, <2>4 DEF Accounted, g
  <2>9. Ready(Credited(c, bill'), bill', gateway, duplicates)
    BY <1>2, <2>1, <2>4, <2>6, <2>8, CreditedReady
  <2>10. SettledFirst' /\ MarksFit' /\ LockOK'
    BY <1>1, <1>3, <2>1, <2>4, <2>6 DEF SettledFirst, MarksFit, LockOK, world
  <2> QED BY <1>1, <2>1, <2>4, <2>7, <2>9, <2>10, BillStep DEF Ready
<1>6. CASE ~Open(bill)
  <2> DEFINE e == [c EXCEPT !.pc = "duplicate"]
  <2>1. /\ Become(p, IF bill.paidBy = g THEN Credited(c, bill) ELSE e)
        /\ UNCHANGED <<record, world, handed, handled, failures>>
    BY <1>1, <1>6 DEF Settle, SettleAdmitted, LostRace, record
  <2>2. Settled(bill)
    <3>1. gateway[g].order \in OrdersOf(bill)
      BY <1>3 DEF IInv, OrdersKnown
    <3>2. bill.status # "NONE"
      BY <3>1 DEF IInv, SettledFirst, OrdersOf
    <3> QED BY <1>2, <1>6, <3>2, OpenIsUnsettled
  <2>3. CASE bill.paidBy = g
    <3>1. Accounted(c, bill, gateway, duplicates)
      BY <1>3, <1>4, <2>3 DEF Accounted
    <3>2. Become(p, Credited(c, bill))
      BY <2>1, <2>3
    <3> HIDE DEF c, g
    <3> QED BY <1>2, <2>1, <2>2, <3>1, <3>2, CreditedReady, CallFacts, QuietReady
  <2>4. CASE bill.paidBy # g
    <3>1. Become(p, e)
      BY <2>1, <2>4
    <3>2. /\ e \in CallType /\ e.pc = "duplicate" /\ e.doc = c.doc /\ e.op = c.op
          /\ e.pay = c.pay /\ e.saw = c.saw /\ e.holds = FALSE
      BY <1>2 DEF CallType, Pc
    <3> HIDE DEF e, c
    <3>3. Ready(e, bill, gateway, duplicates)
      BY <1>1, <1>2, <1>3, <2>2, <2>4, <3>2
         DEF Ready, Sound, KnowsDocument, KnowsPayment, KnowsEvent, KnowsOrder,
             Crediting, Judged, LockHeld, g
    <3> QED BY <2>1, <3>1, <3>3, CallFacts, QuietReady
  <2> QED BY <2>3, <2>4
<1> QED BY <1>5, <1>6

\* A step of the order lock, the lock itself apart.
LEMMA LockStep ==
  ASSUME IInv, NEW p \in Calls, NEW c, Become(p, c),
         Sound(c, bill, gateway, duplicates), c.pc # "earnLink",
         UNCHANGED <<ride, bill, duplicates, linked, earnings, world, handed, handled, failures>>,
         locked' \in BOOLEAN, LockOK'
  PROVE  IInv'
<1>1. SettledFirst' /\ MarksFit' /\ bill' \in Bill
  BY DEF IInv, TypeOK, SettledFirst, MarksFit, world
<1>2. Forward(bill, bill', gateway, gateway, duplicates, duplicates)
  BY StandStill
<1> QED BY <1>1, <1>2, BillStep

\* Who raises an order goes on raising it.
LEMMA StillRaises ==
  ASSUME IInv, NEW p \in Calls, NEW c, Become(p, c), Raises(call[p]), Raises(c),
         c.pc \in {"raise", "push"} => call[p].pc \in {"raise", "push"},
         c.pc = "push" => c.order \notin OrdersOf(bill),
         UNCHANGED <<record, world>>
  PROVE  LockOK'
<1>1. call'[p] = c /\ \A q \in Calls : q # p => call'[q] = call[q]
  BY DEF IInv, TypeOK, Become
<1>2. bill' = bill /\ locked' = locked /\ (Reusable(bill)' <=> Reusable(bill))
  BY DEF record, world, Reusable
<1>3. ASSUME ~Settled(bill), NEW q \in Calls
      PROVE  /\ Raises(call'[q]) => locked /\ \A r \in Calls : call'[r].holds => r = q
             /\ call'[q].pc \in {"raise", "push"} => ~Reusable(bill)
             /\ call'[q].holds /\ ~Raises(call'[q]) => Reusable(bill)
             /\ call'[q].pc = "push" => call'[q].order \notin OrdersOf(bill)
  <2>1. locked /\ \A r \in Calls : call[r].holds => r = p
    BY <1>3 DEF IInv, LockOK
  <2>2. \A r \in Calls : r # p => ~call'[r].holds /\ call'[r].pc \notin LockHeld
    BY <1>1, <2>1, CallFacts DEF Sound, KnowsOrder
  <2>3. CASE q = p
    BY <1>1, <1>3, <2>1, <2>2, <2>3 DEF IInv, LockOK
  <2>4. CASE q # p
    BY <2>2, <2>4 DEF Raises, LockHeld
  <2> QED BY <2>3, <2>4
<1> QED BY <1>2, <1>3 DEF LockOK

\* The new order is the latest one, and young: the lock has done its work.
LEMMA PushOrderStep ==
  ASSUME IInv, NEW p \in Calls, PushOrder(p)
  PROVE  IInv'
<1> DEFINE c == call[p]
           o == c.order
           n == AfterPush(c, Open(bill))
<1>1. /\ c.pc = "push" /\ Become(p, n)
      /\ UNCHANGED <<ride, duplicates, linked, earnings, world, handed, handled, failures>>
  BY DEF PushOrder, Running
<1>2. c \in CallType /\ Sound(c, bill, gateway, duplicates) /\ bill \in Bill
  BY CallFacts
<1>3. o \in Orders /\ c.holds
  BY <1>1, <1>2 DEF Sound, KnowsOrder, LockHeld
<1>4. /\ n \in CallType /\ n.pc = "unlock" /\ n.doc = c.doc /\ n.op = c.op /\ n.pay = c.pay
      /\ n.saw = c.saw /\ n.holds = c.holds /\ n.order = IF Open(bill) THEN o ELSE NoOrder
  BY <1>2 DEF AfterPush, CallType, Pc
<1>5. call'[p] = n /\ \A q \in Calls : q # p => call'[q] = call[q]
  BY <1>1 DEF IInv, TypeOK, Become
<1>6. CASE Open(bill)
  <2> DEFINE a == [order |-> o, status |-> "CREATED"]
             s == Append(bill.attempts, a)
             b == [bill EXCEPT !.status = "CREATED", !.attempts = s]
  <2>1. bill' = b /\ locked' = FALSE
    BY <1>6 DEF PushOrder
  <2>2. bill.attempts \in Seq(Attempt) /\ a \in Attempt
    BY <1>2, <1>3 DEF Bill, Attempt
  <2>3. /\ s \in Seq(Attempt) /\ Len(s) = Len(bill.attempts) + 1 /\ s[Len(s)] = a
        /\ \A i \in 1..Len(bill.attempts) : s[i] = bill.attempts[i]
    BY <2>2
  <2> HIDE DEF s
  <2>4. /\ b \in Bill /\ b.attempts = s /\ b.paidBy = bill.paidBy /\ b.status = "CREATED"
        /\ b.gateway = bill.gateway
    BY <1>2, <2>3 DEF Bill, OPEN_PAYMENT_STATUSES
  <2>5. OrdersOf(bill) \subseteq OrdersOf(b) /\ o \in OrdersOf(b)
    <3>1. \A i \in DOMAIN bill.attempts : i \in DOMAIN s /\ s[i] = bill.attempts[i]
      BY <2>2, <2>3
    <3>2. Len(s) \in DOMAIN s /\ s[Len(s)].order = o
      BY <2>2, <2>3
    <3> QED BY <2>4, <3>1, <3>2 DEF OrdersOf
  <2> HIDE DEF b
  <2>6. ~Settled(bill) /\ Open(b) /\ ~Settled(b) /\ b.status # "NONE"
    BY <1>2, <1>6, <2>4, OpenIsUnsettled
       DEF Open, Settled, OPEN_PAYMENT_STATUSES, SETTLED_PAYMENT_STATUSES
  <2>7. Forward(bill, bill', gateway, gateway, duplicates, duplicates)
    BY <2>1, <2>4, <2>5, <2>6 DEF Forward
  <2>8. SettledFirst' /\ MarksFit'
    BY <1>1, <2>1, <2>4, <2>6 DEF SettledFirst, MarksFit, IInv
  <2>9. Sound(n, bill, gateway, duplicates) \/ n.order = o
    BY <1>4, <1>6
  <2>10. Sound(n, bill', gateway, duplicates)
    <3>1. Sound(c, bill', gateway, duplicates)
      BY <1>2, <2>7, SoundForward
    <3> HIDE DEF n, c
    <3> QED BY <1>1, <1>3, <1>4, <1>6, <2>1, <2>5, <3>1
            DEF Sound, KnowsDocument, KnowsPayment, KnowsEvent, KnowsOrder,
                Crediting, Judged, LockHeld
  <2>11. Reusable(bill)'
    <3>1. o \notin aged
      BY <1>1, <2>6 DEF IInv, LockOK, OrdersKnown
    <3> QED BY <1>1, <2>1, <2>2, <2>3, <2>4, <3>1 DEF Reusable, Unpaid, world
  <2>12. LockOK'
    <3>1. \A q \in Calls : q # p => ~call'[q].holds
      BY <1>1, <1>5, <2>6 DEF IInv, LockOK, Raises
    <3>2. \A q \in Calls : q # p => ~Raises(call'[q]) /\ call'[q].pc \notin {"raise", "push"}
      BY <1>5, <3>1, CallFacts DEF Raises, LockHeld, Sound, KnowsOrder
    <3>3. ~Raises(call'[p]) /\ call'[p].pc \notin {"raise", "push"}
      BY <1>3, <1>4, <1>5, <1>6 DEF Raises
    <3> QED BY <2>11, <3>1, <3>2, <3>3 DEF LockOK
  <2> QED BY <1>1, <1>4, <2>1, <2>4, <2>7, <2>8, <2>10, <2>12, BillStep
<1>7. CASE ~Open(bill)
  <2>1. UNCHANGED <<record, world, handed, handled, failures>>
    BY <1>1, <1>7 DEF PushOrder, record
  <2> HIDE DEF n, c
  <2>2. Sound(n, bill, gateway, duplicates)
    BY <1>1, <1>2, <1>3, <1>4, <1>7
       DEF Sound, KnowsDocument, KnowsPayment, KnowsEvent, KnowsOrder,
           Crediting, Judged, LockHeld
  <2>3. Raises(call[p]) /\ Raises(n)
    BY <1>1, <1>4, <1>7 DEF Raises, c
  <2>4. LockOK'
    BY <1>1, <1>4, <2>1, <2>3, StillRaises
  <2>5. UNCHANGED <<bill, locked>> /\ locked \in BOOLEAN
    BY <2>1 DEF record, IInv, TypeOK
  <2> QED BY <1>1, <1>4, <2>1, <2>2, <2>4, <2>5, LockStep
<1> QED BY <1>6, <1>7

LEMMA RaiseOrderStep ==
  ASSUME IInv, NEW p \in Calls, RaiseOrder(p)
  PROVE  IInv'
<1> DEFINE c == call[p]
<1>1. /\ c.pc = "raise" /\ UNCHANGED <<record, world, handed, handled>> /\ failures' = failures
      /\ \/ \E o \in Orders : o \notin OrdersOf(bill)
                              /\ Become(p, [c EXCEPT !.pc = "push", !.order = o])
         \/ Become(p, [c EXCEPT !.pc = "unlock", !.order = NoOrder])
  BY DEF RaiseOrder, Running, NewOrder
<1>2. c \in CallType /\ Sound(c, bill, gateway, duplicates)
  BY CallFacts
<1>3. c.holds
  BY <1>1, <1>2 DEF Sound, KnowsOrder, LockHeld
<1>4. ASSUME NEW label \in {"push", "unlock"}, NEW o \in Orders \cup {NoOrder},
             Become(p, [c EXCEPT !.pc = label, !.order = o]),
             label = "push" => o \in Orders /\ o \notin OrdersOf(bill),
             label = "unlock" => o = NoOrder
      PROVE  IInv'
  <2> DEFINE n == [c EXCEPT !.pc = label, !.order = o]
  <2>1. /\ n \in CallType /\ n.pc = label /\ n.doc = c.doc /\ n.op = c.op /\ n.pay = c.pay
        /\ n.saw = c.saw /\ n.holds = c.holds /\ n.order = o
    BY <1>2 DEF CallType, Pc
  <2>2. Become(p, n)
    BY <1>4
  <2> HIDE DEF n, c
  <2>3. Sound(n, bill, gateway, duplicates)
    BY <1>1, <1>2, <1>3, <1>4, <2>1
       DEF Sound, KnowsDocument, KnowsPayment, KnowsEvent, KnowsOrder,
           Crediting, Judged, LockHeld
  <2>4. Raises(call[p]) /\ Raises(n)
    BY <1>1, <1>4, <2>1 DEF Raises, c
  <2>5. LockOK'
    BY <1>1, <1>4, <2>1, <2>2, <2>4, StillRaises DEF c
  <2>6. UNCHANGED <<ride, bill, locked, duplicates, linked, earnings>> /\ locked \in BOOLEAN
    BY <1>1 DEF record, IInv, TypeOK
  <2> QED BY <1>1, <1>4, <2>1, <2>2, <2>3, <2>5, <2>6, LockStep
<1>5. CASE \E o \in Orders : o \notin OrdersOf(bill)
                              /\ Become(p, [c EXCEPT !.pc = "push", !.order = o])
  BY <1>4, <1>5
<1>6. CASE Become(p, [c EXCEPT !.pc = "unlock", !.order = NoOrder])
  BY <1>4, <1>6
<1> QED BY <1>1, <1>5, <1>6

\* The lock is free: nobody raises an order, and if there is none to re-use nobody holds it.
LEMMA LockOrderStep ==
  ASSUME IInv, NEW p \in Calls, LockOrder(p)
  PROVE  IInv'
<1> DEFINE c == call[p]
           h == [c EXCEPT !.holds = TRUE]
           r == [h EXCEPT !.pc = "raise"]
           n == IF Reusable(bill) THEN Reopening(h, bill) ELSE r
<1>1. /\ c.pc = "lock" /\ Become(p, n) /\ Open(bill) /\ ~locked /\ locked' = TRUE
      /\ UNCHANGED <<ride, bill, duplicates, linked, earnings, world, handed, handled, failures>>
  BY DEF LockOrder, Running, LockAdmitted
<1>2. /\ c \in CallType /\ Sound(c, bill, gateway, duplicates) /\ bill \in Bill
      /\ Accounted(c, bill, gateway, duplicates)
  BY <1>1, CallFacts
<1>3. h \in CallType /\ h.holds /\ h.op = c.op /\ h.pay = c.pay /\ h.saw = c.saw /\ h.doc = c.doc
  BY <1>2 DEF CallType
<1>4. c.op = "webhook" => c.saw # "captured"
  BY <1>1, <1>2 DEF Sound, KnowsEvent, Crediting
<1>5. call'[p] = n /\ \A q \in Calls : q # p => call'[q] = call[q]
  BY <1>1 DEF IInv, TypeOK, Become
<1>6. /\ ~Settled(bill) /\ bill' = bill /\ (Reusable(bill)' <=> Reusable(bill))
      /\ \A q \in Calls : ~Raises(call[q])
  BY <1>1, <1>2, OpenIsUnsettled DEF Reusable, world, IInv, LockOK
<1>7. CASE Reusable(bill)
  <2> HIDE DEF c, h
  <2>1. /\ Sound(n, bill, gateway, duplicates) /\ n.pc = "reopen" /\ n.holds
    BY <1>2, <1>3, <1>4, <1>7, ReopeningSound DEF Accounted
  <2> HIDE DEF n
  <2>2. \A q \in Calls : ~Raises(call'[q]) /\ call'[q].pc \notin {"raise", "push"}
    BY <1>5, <1>6, <2>1 DEF Raises
  <2>3. LockOK'
    BY <1>6, <1>7, <2>2 DEF LockOK
  <2> QED BY <1>1, <2>1, <2>3, LockStep
<1>8. CASE ~Reusable(bill)
  <2>1. n = r
    BY <1>8
  <2>2. /\ r \in CallType /\ r.holds /\ r.op = c.op /\ r.pay = c.pay /\ r.saw = c.saw
        /\ r.doc = c.doc /\ r.pc = "raise"
    BY <1>3 DEF CallType, Pc
  <2> HIDE DEF n, c, h, r
  <2>3. Sound(r, bill, gateway, duplicates)
    BY <1>1, <1>2, <2>2
       DEF Sound, KnowsDocument, KnowsPayment, KnowsEvent, KnowsOrder,
           Crediting, Judged, LockHeld
  <2>4. \A q \in Calls : q # p => ~call'[q].holds /\ ~Raises(call'[q])
                                  /\ call'[q].pc \notin {"raise", "push"}
    BY <1>5, <1>6, <1>8 DEF IInv, LockOK, Raises
  <2>5. call'[p].pc = "raise" /\ Raises(call'[p])
    BY <1>5, <2>1, <2>2 DEF Raises
  <2>6. LockOK'
    BY <1>1, <1>6, <1>8, <2>4, <2>5 DEF LockOK
  <2> QED BY <1>1, <2>1, <2>2, <2>3, <2>6, LockStep
<1> QED BY <1>7, <1>8

\* Whoever unlocks holds the lock alone, or beside callers who have an order to re-use.
LEMMA UnlockOrderStep ==
  ASSUME IInv, NEW p \in Calls, UnlockOrder(p)
  PROVE  IInv'
<1> DEFINE c == call[p]
           e == [c EXCEPT !.pc = "orderRide", !.holds = FALSE]
           n == IF c.order = NoOrder THEN Idle ELSE e
<1>1. /\ c.pc = "unlock" /\ Become(p, n) /\ locked' = FALSE
      /\ UNCHANGED <<ride, bill, duplicates, linked, earnings, world, handed, handled, failures>>
  BY DEF UnlockOrder, Running
<1>2. c \in CallType /\ Sound(c, bill, gateway, duplicates)
  BY CallFacts
<1>3. c.holds
  BY <1>1, <1>2 DEF Sound, KnowsOrder, LockHeld
<1>4. Ready(n, bill, gateway, duplicates)
  <2>1. CASE c.order = NoOrder
    BY <2>1, IdleReady
  <2>2. CASE c.order # NoOrder
    <3>1. /\ e \in CallType /\ e.pc = "orderRide" /\ e.doc = c.doc /\ e.op = c.op
          /\ e.pay = c.pay /\ e.saw = c.saw /\ e.holds = FALSE /\ e.order = c.order
      BY <1>2 DEF CallType, Pc
    <3>2. n = e
      BY <2>2
    <3> HIDE DEF n, c, e
    <3> QED BY <1>1, <1>2, <2>2, <3>1, <3>2
            DEF Ready, Sound, KnowsDocument, KnowsPayment, KnowsEvent, KnowsOrder,
                Crediting, Judged, LockHeld
  <2> QED BY <2>1, <2>2
<1>5. call'[p] = n /\ \A q \in Calls : q # p => call'[q] = call[q]
  BY <1>1 DEF IInv, TypeOK, Become
<1> HIDE DEF n, e
<1>6. ~n.holds /\ n.pc \notin LockHeld
  BY <1>4 DEF Ready, Sound, KnowsOrder
<1>7. ASSUME ~Settled(bill), NEW q \in Calls, q # p
      PROVE  ~Raises(call[q])
  BY <1>1, <1>3, <1>7 DEF IInv, LockOK, Raises
<1>8. LockOK'
  <2>1. bill' = bill /\ (Reusable(bill)' <=> Reusable(bill))
    BY <1>1 DEF Reusable, world
  <2>2. ASSUME ~Settled(bill), NEW q \in Calls
        PROVE  /\ ~Raises(call'[q]) /\ call'[q].pc \notin {"raise", "push"}
               /\ call'[q].holds => Reusable(bill)
    BY <1>5, <1>6, <1>7, <2>2 DEF IInv, LockOK, Raises, LockHeld
  <2> QED BY <2>1, <2>2 DEF LockOK
<1> QED BY <1>1, <1>4, <1>8, LockStep DEF Ready

-----------------------------------------------------------------------------
(* Steps that write what was handled, flagged, captured or credited.       *)

\* The order lock and what follows from the bill, when neither is written.
LEMMA LockUntouched ==
  ASSUME IInv, NEW p \in Calls, NEW c, Become(p, c), ~c.holds, c.pc \notin LockHeld,
         UNCHANGED <<bill, locked, aged>>
  PROVE  LockOK'
<1>1. Reusable(bill)' <=> Reusable(bill)
  BY DEF Reusable
<1> QED BY <1>1, LockKept

LEMMA MarkEventStep ==
  ASSUME IInv, NEW p \in Calls, MarkEvent(p)
  PROVE  IInv'
<1> DEFINE c == call[p]
<1> USE DEF IInv, world, record
<1>1. /\ c.pc = "mark" /\ handled' = handled \cup {<<c.pay, c.saw>>} /\ Become(p, Idle)
      /\ UNCHANGED <<record, world, handed, failures>>
  BY DEF MarkEvent, Running
<1>2. c \in CallType /\ Accounted(c, bill, gateway, duplicates) /\ c.op = "webhook"
  BY <1>1, CallFacts DEF Sound, KnowsEvent
<1>3. Ready(Idle, bill', gateway', duplicates')
  BY IdleReady
<1>4. CallsSound' /\ call' \in [Calls -> CallType]
  BY <1>1, <1>3, CallsForward, StandStill DEF Ready
<1>5. TypeOK'
  <2>1. <<c.pay, c.saw>> \in Pays \X {"authorized", "captured", "failed"}
    BY <1>2 DEF Accounted, CallType
  <2> QED BY <1>1, <1>4, <2>1 DEF TypeOK
<1>6. NoCaptureIsForgotten'
  BY <1>1, <1>2 DEF NoCaptureIsForgotten, Accounted
<1>7. CreditedOnce'
  BY <1>1 DEF CreditedOnce, Become, TypeOK, Idle
<1>8. SettledFirst' /\ MarksFit' /\ OrdersKnown' /\ PaymentIsNotItsOwnDuplicate'
  BY <1>1 DEF SettledFirst, MarksFit, OrdersKnown, PaymentIsNotItsOwnDuplicate
<1>9. LockOK'
  BY <1>1, <1>3, LockUntouched DEF Ready, Idle, LockHeld
<1> QED BY <1>4, <1>5, <1>6, <1>7, <1>8, <1>9

LEMMA CaptureStep ==
  ASSUME IInv, NEW p \in Calls, Capture(p)
  PROVE  IInv'
<1> DEFINE c == call[p]
           g == c.pay
           taken == [gateway EXCEPT ![g].status = "captured"]
<1> USE DEF IInv, record
<1>1. /\ c.pc = "capture" /\ gateway' \in {gateway, taken}
      /\ \E label \in {"settle", "processing"} :
           /\ Become(p, [c EXCEPT !.pc = label])
           /\ label = "settle" => gateway' = taken
      /\ UNCHANGED <<record, aged, past, handed, handled, failures>>
  BY DEF Capture, Running, Goto
<1>2. /\ c \in CallType /\ ~c.holds /\ Sound(c, bill, gateway, duplicates)
      /\ Accounted(c, bill, gateway, duplicates)
  BY <1>1, CallFacts DEF LockHeld
<1>3. g \in Pays /\ gateway[g].status \in {"authorized", "captured"}
  BY <1>1, <1>2 DEF Sound, KnowsPayment, Judged
<1>4. /\ gateway' \in [Pays -> RazorpayPayment]
      /\ gateway' = taken => gateway'[g].status = "captured"
      /\ \A h \in Pays : /\ gateway'[h].order = gateway[h].order
                         /\ h # g => gateway'[h].status = gateway[h].status
                         /\ gateway'[h].status \in {gateway[h].status, "captured"}
  <2>1. gateway \in [Pays -> RazorpayPayment] /\ gateway[g] \in RazorpayPayment
    BY <1>3 DEF TypeOK
  <2>2. taken = [gateway EXCEPT ![g] = [gateway[g] EXCEPT !.status = "captured"]]
    BY <2>1
  <2>3. /\ [gateway[g] EXCEPT !.status = "captured"] \in RazorpayPayment
        /\ [gateway[g] EXCEPT !.status = "captured"].order = gateway[g].order
        /\ [gateway[g] EXCEPT !.status = "captured"].status = "captured"
    BY <2>1 DEF RazorpayPayment
  <2>4. /\ taken \in [Pays -> RazorpayPayment] /\ taken[g].status = "captured"
        /\ \A h \in Pays : /\ taken[h].order = gateway[h].order
                           /\ h # g => taken[h].status = gateway[h].status
    BY <1>3, <2>1, <2>2, <2>3
  <2>5. gateway' = gateway \/ gateway' = taken
    BY <1>1
  <2> HIDE DEF taken, g, c
  <2>6. CASE gateway' = gateway
    BY <2>1, <2>4, <2>6
  <2>7. CASE gateway' = taken
    BY <2>4, <2>7
  <2> QED BY <2>5, <2>6, <2>7
<1>5. Forward(bill, bill', gateway, gateway', duplicates, duplicates')
  BY <1>1, <1>3, <1>4 DEF Forward
<1>6. PICK label \in {"settle", "processing"} :
        /\ Become(p, [c EXCEPT !.pc = label])
        /\ label = "settle" => gateway' = taken
  BY <1>1
<1> DEFINE n == [c EXCEPT !.pc = label]
<1>7. /\ n \in CallType /\ n.pc = label /\ n.doc = c.doc /\ n.op = c.op /\ n.pay = c.pay
      /\ n.saw = c.saw /\ n.holds = FALSE
  BY <1>2 DEF CallType, Pc
<1> HIDE DEF n, c
<1>8. Sound(c, bill', gateway', duplicates') /\ (c.op = "webhook" => c.saw # "captured")
  <2>1. c.op = "webhook" => c.saw # "captured"
    BY <1>1, <1>2 DEF Sound, KnowsEvent, Crediting
  <2> QED BY <1>2, <1>5, <2>1, SoundForward
<1>9. Sound(n, bill', gateway', duplicates')
  BY <1>1, <1>3, <1>4, <1>6, <1>7, <1>8
     DEF Sound, KnowsDocument, KnowsPayment, KnowsEvent, KnowsOrder,
         Crediting, Judged, LockHeld
<1>10. Become(p, n)
  BY <1>6 DEF n
<1>11. CallsSound' /\ call' \in [Calls -> CallType] /\ call'[p] = n
  BY <1>5, <1>9, <1>10, CallsForward
<1>12. TypeOK'
  BY <1>1, <1>4, <1>11 DEF TypeOK
<1>13. SettledFirst' /\ MarksFit' /\ OrdersKnown'
  BY <1>1, <1>3, <1>4 DEF SettledFirst, MarksFit, OrdersKnown
<1>14. CreditedOnce'
  BY <1>1, <1>7, <1>10 DEF CreditedOnce, Become, TypeOK
<1>15. NoCaptureIsForgotten' /\ PaymentIsNotItsOwnDuplicate'
  BY <1>1 DEF NoCaptureIsForgotten, PaymentIsNotItsOwnDuplicate
<1>16. LockOK'
  BY <1>1, <1>7, <1>10, LockUntouched DEF LockHeld
<1> QED BY <1>11, <1>12, <1>13, <1>14, <1>15, <1>16

LEMMA RecordDuplicateStep ==
  ASSUME IInv, NEW p \in Calls, RecordDuplicate(p)
  PROVE  IInv'
<1> DEFINE c == call[p]
<1> USE DEF IInv, world
<1>1. /\ c.pc = "duplicate" /\ duplicates' = duplicates \cup {c.pay} /\ Become(p, Ended(c))
      /\ UNCHANGED <<ride, bill, locked, linked, earnings, world, handed, handled, failures>>
  BY DEF RecordDuplicate, Running, Finish
<1>2. c \in CallType /\ ~c.holds /\ Sound(c, bill, gateway, duplicates)
  BY <1>1, CallFacts DEF LockHeld
<1>3. c.pay \in Pays /\ Settled(bill) /\ bill.paidBy # c.pay
  BY <1>1, <1>2 DEF Sound, KnowsPayment, Judged
<1>4. Accounted(c, bill', gateway', duplicates')
  BY <1>1, <1>2 DEF Accounted, Sound, KnowsPayment, KnowsEvent
<1>5. Forward(bill, bill', gateway, gateway', duplicates, duplicates')
  BY <1>1 DEF Forward
<1> HIDE DEF c
<1>6. Ready(Ended(c), bill', gateway', duplicates')
  BY <1>2, <1>4, EndedReady
<1>7. CallsSound' /\ call' \in [Calls -> CallType] /\ call'[p] = Ended(c)
  BY <1>1, <1>5, <1>6, CallsForward DEF Ready
<1>8. TypeOK'
  BY <1>1, <1>3, <1>7 DEF TypeOK, DuplicateCapture
<1>9. SettledFirst' /\ MarksFit' /\ OrdersKnown'
  BY <1>1, <1>3 DEF SettledFirst, MarksFit, OrdersKnown
<1>10. CreditedOnce'
  BY <1>1, <1>6 DEF CreditedOnce, Ready, Become, TypeOK
<1>11. NoCaptureIsForgotten' /\ PaymentIsNotItsOwnDuplicate'
  BY <1>1, <1>3 DEF NoCaptureIsForgotten, PaymentIsNotItsOwnDuplicate
<1>12. LockOK'
  BY <1>1, <1>3 DEF LockOK
<1> QED BY <1>7, <1>8, <1>9, <1>10, <1>11, <1>12

LEMMA EarnInsertStep ==
  ASSUME IInv, NEW p \in Calls, EarnInsert(p)
  PROVE  IInv'
<1> DEFINE c == call[p]
           n == [c EXCEPT !.pc = "earnLink"]
<1> USE DEF IInv, world
<1>1. /\ c.pc = "earnInsert" /\ Become(p, n)
      /\ earnings' = IF earnings = <<>> THEN <<ModeOf(c.doc)>> ELSE earnings
      /\ UNCHANGED <<ride, bill, locked, duplicates, linked, world, handed, handled, failures>>
  BY DEF EarnInsert, Running, Goto, InsertEarning
<1>2. /\ c \in CallType /\ ~c.holds /\ Sound(c, bill, gateway, duplicates)
      /\ Accounted(c, bill, gateway, duplicates)
  BY <1>1, CallFacts DEF LockHeld
<1>3. Settled(bill) /\ ModeOf(c.doc) = ModeOf(bill)
  BY <1>1, <1>2 DEF Sound, KnowsDocument, Crediting, ModeOf
<1>4. /\ n \in CallType /\ n.pc = "earnLink" /\ n.doc = c.doc /\ n.op = c.op /\ n.pay = c.pay
      /\ n.saw = c.saw /\ n.holds = FALSE
  BY <1>2 DEF CallType, Pc
<1> HIDE DEF n, c
<1>5. Sound(n, bill', gateway', duplicates')
  BY <1>1, <1>2, <1>4 DEF Sound, Accounted, KnowsDocument, KnowsPayment, KnowsEvent, KnowsOrder,
                          Crediting, Judged, LockHeld
<1>6. CallsSound' /\ call' \in [Calls -> CallType]
  BY <1>1, <1>5, CallsForward, StandStill
<1>7. earnings' = <<ModeOf(bill)>>
  BY <1>1, <1>3 DEF CreditedOnce
<1>8. earnings' \in Seq({"CASH", "ONLINE"}) /\ earnings' # <<>>
  BY <1>7 DEF ModeOf
<1>9. TypeOK'
  BY <1>1, <1>6, <1>8 DEF TypeOK
<1>10. SettledFirst' /\ MarksFit' /\ OrdersKnown'
  BY <1>1, <1>3 DEF SettledFirst, MarksFit, OrdersKnown
<1>11. CreditedOnce'
  BY <1>1, <1>7, <1>8 DEF CreditedOnce
<1>12. NoCaptureIsForgotten' /\ PaymentIsNotItsOwnDuplicate'
  BY <1>1 DEF NoCaptureIsForgotten, PaymentIsNotItsOwnDuplicate
<1>13. LockOK'
  BY <1>1, <1>3 DEF LockOK
<1> QED BY <1>6, <1>9, <1>10, <1>11, <1>12, <1>13

LEMMA EarnLinkStep ==
  ASSUME IInv, NEW p \in Calls, EarnLink(p)
  PROVE  IInv'
<1> DEFINE c == call[p]
<1> USE DEF IInv, world
<1>1. /\ c.pc = "earnLink" /\ linked' = TRUE /\ Become(p, Ended(c))
      /\ UNCHANGED <<ride, bill, locked, duplicates, earnings, world, handed, handled, failures>>
  BY DEF EarnLink, Running, Finish
<1>2. /\ c \in CallType /\ ~c.holds /\ Sound(c, bill, gateway, duplicates)
      /\ Accounted(c, bill, gateway, duplicates)
  BY <1>1, CallFacts DEF LockHeld
<1>3. Settled(bill) /\ earnings # <<>>
  BY <1>1, <1>2 DEF Sound, KnowsDocument, Crediting, CreditedOnce
<1> HIDE DEF c
<1>4. Ready(Ended(c), bill', gateway', duplicates')
  BY <1>1, <1>2, EndedReady
<1>5. CallsSound' /\ call' \in [Calls -> CallType]
  BY <1>1, <1>4, CallsForward, StandStill DEF Ready
<1>6. TypeOK'
  BY <1>1, <1>5 DEF TypeOK
<1>7. SettledFirst' /\ MarksFit' /\ OrdersKnown'
  BY <1>1, <1>3 DEF SettledFirst, MarksFit, OrdersKnown
<1>8. CreditedOnce'
  BY <1>1, <1>3 DEF CreditedOnce
<1>9. NoCaptureIsForgotten' /\ PaymentIsNotItsOwnDuplicate'
  BY <1>1 DEF NoCaptureIsForgotten, PaymentIsNotItsOwnDuplicate
<1>10. LockOK'
  BY <1>1, <1>3 DEF LockOK
<1> QED BY <1>5, <1>6, <1>7, <1>8, <1>9, <1>10

-----------------------------------------------------------------------------
(* Razorpay, the customer's checkout and the clock.                        *)

LEMMA PayStep ==
  ASSUME IInv, NEW g \in Pays, NEW o \in Orders, Pay(g, o)
  PROVE  IInv'
<1> USE DEF IInv, record
<1>1. /\ o \in handed /\ gateway[g].status = "none"
      /\ gateway' = [gateway EXCEPT ![g] = [order |-> o, status |-> "created"]]
      /\ UNCHANGED <<record, aged, past, handed, handled, call, failures>>
  BY DEF Pay
<1>2. /\ gateway' \in [Pays -> RazorpayPayment]
      /\ gateway'[g].order = o /\ gateway'[g].status = "created"
      /\ \A h \in Pays : h # g => gateway'[h] = gateway[h]
  BY <1>1 DEF TypeOK, RazorpayPayment
<1>3. Forward(bill, bill', gateway, gateway', duplicates, duplicates')
  BY <1>1, <1>2 DEF Forward
<1>4. CallsSound'
  BY <1>1, <1>3, SoundForward DEF CallsSound
<1>5. TypeOK'
  BY <1>1, <1>2 DEF TypeOK
<1>6. SettledFirst' /\ MarksFit' /\ OrdersKnown'
  BY <1>1, <1>2 DEF SettledFirst, MarksFit, OrdersKnown
<1>7. CreditedOnce' /\ NoCaptureIsForgotten' /\ PaymentIsNotItsOwnDuplicate'
  BY <1>1 DEF CreditedOnce, NoCaptureIsForgotten, PaymentIsNotItsOwnDuplicate
<1>8. LockOK'
  BY <1>1 DEF LockOK, Reusable
<1> QED BY <1>4, <1>5, <1>6, <1>7, <1>8

LEMMA GatewayMovesStep ==
  ASSUME IInv, NEW g \in Pays, GatewayMoves(g)
  PROVE  IInv'
<1> USE DEF IInv, record
<1>1. PICK move \in {<<"created", "authorized">>, <<"created", "failed">>,
                     <<"authorized", "captured">>} :
        /\ gateway[g].status = move[1]
        /\ gateway' = [gateway EXCEPT ![g].status = move[2]]
  BY DEF GatewayMoves
<1>2. UNCHANGED <<record, aged, past, handed, handled, call, failures>>
  BY DEF GatewayMoves
<1>3. /\ move[1] \in {"created", "authorized"} /\ move[2] \in {"authorized", "failed", "captured"}
      /\ move[1] = "authorized" => move[2] = "captured"
  OBVIOUS
<1> DEFINE gp == [gateway[g] EXCEPT !.status = move[2]]
<1>4. gateway[g] \in RazorpayPayment /\ gateway' = [gateway EXCEPT ![g] = gp]
  BY <1>1 DEF TypeOK
<1>5. gp \in RazorpayPayment /\ gp.order = gateway[g].order /\ gp.status = move[2]
  BY <1>3, <1>4 DEF RazorpayPayment
<1> HIDE DEF gp
<1>6. /\ gateway' \in [Pays -> RazorpayPayment] /\ gateway'[g] = gp
      /\ \A h \in Pays : h # g => gateway'[h] = gateway[h]
  BY <1>4, <1>5 DEF TypeOK
<1>7. Forward(bill, bill', gateway, gateway', duplicates, duplicates')
  BY <1>1, <1>2, <1>3, <1>5, <1>6 DEF Forward
<1>8. CallsSound'
  BY <1>2, <1>7, SoundForward DEF CallsSound
<1>9. TypeOK'
  BY <1>2, <1>6 DEF TypeOK
<1>10. SettledFirst' /\ MarksFit' /\ OrdersKnown'
  BY <1>1, <1>2, <1>3, <1>5, <1>6 DEF SettledFirst, MarksFit, OrdersKnown
<1>11. CreditedOnce' /\ NoCaptureIsForgotten' /\ PaymentIsNotItsOwnDuplicate'
  BY <1>2 DEF CreditedOnce, NoCaptureIsForgotten, PaymentIsNotItsOwnDuplicate
<1>12. LockOK'
  BY <1>2 DEF LockOK, Reusable
<1> QED BY <1>8, <1>9, <1>10, <1>11, <1>12

\* Orders age or leave the horizon, and the lease expires, only when nobody is inside the lock.
LEMMA ClockStep ==
  ASSUME IInv, OrderAges \/ OrderPassesHorizon \/ LeaseExpires
  PROVE  IInv'
<1> USE DEF IInv
<1>1. /\ \A p \in Calls : ~call[p].holds
      /\ UNCHANGED <<ride, bill, duplicates, linked, earnings, gateway, handed, handled, call, failures>>
      /\ locked' \in BOOLEAN /\ aged \subseteq aged' /\ aged' \subseteq OrdersOf(bill)
      /\ past' \in SUBSET aged'
  <2>1. CASE OrderAges
    <3>1. \A p \in Calls : call[p].pc \notin LockHeld \cup {"reopen"}
      BY <2>1 DEF OrderAges, InOpenAttempt, LockHeld
    <3> QED BY <2>1, <3>1, CallFacts DEF OrderAges, record, OrdersKnown, TypeOK
  <2>2. CASE LeaseExpires
    BY <2>2 DEF LeaseExpires, world, OrdersKnown, TypeOK
  <2>3. CASE OrderPassesHorizon
    <3>1. \A p \in Calls : call[p].pc \notin LockHeld \cup {"reopen"}
      BY <2>3 DEF OrderPassesHorizon, Running, LockHeld
    <3> QED BY <2>3, <3>1, CallFacts DEF OrderPassesHorizon, record, OrdersKnown, TypeOK
  <2> QED BY <2>1, <2>2, <2>3
<1>2. CallsSound'
  BY <1>1 DEF CallsSound
<1>3. TypeOK'
  <2>1. OrdersOf(bill) \subseteq Orders
    BY OrdersAreOrders DEF TypeOK
  <2> QED BY <1>1, <2>1 DEF TypeOK
<1>4. SettledFirst' /\ MarksFit' /\ OrdersKnown'
  BY <1>1 DEF SettledFirst, MarksFit, OrdersKnown
<1>5. CreditedOnce' /\ NoCaptureIsForgotten' /\ PaymentIsNotItsOwnDuplicate'
  BY <1>1 DEF CreditedOnce, NoCaptureIsForgotten, PaymentIsNotItsOwnDuplicate
<1>6. LockOK'
  <2>1. \A p \in Calls : call'[p].pc \notin LockHeld
    BY <1>1 DEF CallsSound, Sound, KnowsOrder
  <2> QED BY <1>1, <2>1 DEF LockOK, Raises, LockHeld
<1> QED BY <1>2, <1>3, <1>4, <1>5, <1>6

-----------------------------------------------------------------------------
(* The invariant holds.                                                    *)

LEMMA InitHolds == Init => IInv
<1> SUFFICES ASSUME Init PROVE IInv
  OBVIOUS
<1> USE DEF Init
<1>1. bill \in Bill /\ OrdersOf(bill) = {} /\ bill.status = "NONE" /\ bill.attempts = <<>>
      /\ bill.gateway = "RAZORPAY" /\ bill.paidBy = NoPay /\ bill.processing = NoPay
  BY NoBillHasNoOrders DEF NoBill
<1>2. ~Settled(bill)
  BY <1>1 DEF Settled, SETTLED_PAYMENT_STATUSES
<1>3. ASSUME NEW p \in Calls
      PROVE  /\ Sound(call[p], bill, gateway, duplicates) /\ call[p] \in CallType
             /\ call[p].pc = "idle" /\ ~call[p].holds
  <2>1. call[p] = Idle
    OBVIOUS
  <2> QED BY <2>1, IdleReady DEF Ready, Sound, Idle
<1>4. TypeOK
  <2>1. gateway \in [Pays -> RazorpayPayment]
    BY DEF RazorpayPayment
  <2>2. call = [p \in Calls |-> call[p]]
    OBVIOUS
  <2>3. call \in [Calls -> CallType]
    BY <1>3, <2>2
  <2>4. earnings \in Seq({"CASH", "ONLINE"}) /\ failures \in 0..MaxFailures
    OBVIOUS
  <2> QED BY <1>1, <2>1, <2>3, <2>4 DEF TypeOK, PAYABLE_RIDE_PAYMENT_STATUSES
<1>5. CallsSound /\ LockOK
  BY <1>3 DEF CallsSound, LockOK, Raises
<1>6. SettledFirst /\ MarksFit /\ OrdersKnown
  BY <1>1, <1>2 DEF SettledFirst, MarksFit, OrdersKnown
<1>7. CreditedOnce /\ NoCaptureIsForgotten /\ PaymentIsNotItsOwnDuplicate
  BY <1>3 DEF CreditedOnce, NoCaptureIsForgotten, PaymentIsNotItsOwnDuplicate
<1> QED BY <1>4, <1>5, <1>6, <1>7 DEF IInv

LEMMA CallStepHolds ==
  ASSUME IInv, NEW p \in Calls, CallStep(p)
  PROVE  IInv'
<1>1. CASE OpenBill(p)          BY <1>1, OpenBillStep
<1>2. CASE PayCash(p)           BY <1>2, PayCashStep
<1>3. CASE Reopen(p)            BY <1>3, ReopenStep
<1>4. CASE LockOrder(p)         BY <1>4, LockOrderStep
<1>5. CASE OrderLockBusy(p)     BY <1>5, OrderLockBusyStep
<1>6. CASE RaiseOrder(p)        BY <1>6, RaiseOrderStep
<1>7. CASE PushOrder(p)         BY <1>7, PushOrderStep
<1>8. CASE UnlockOrder(p)       BY <1>8, UnlockOrderStep
<1>9. CASE OrderRide(p)         BY <1>9, OrderRideStep
<1>10. CASE VerifyFetch(p)      BY <1>10, VerifyFetchStep
<1>11. CASE VerifyPark(p)       BY <1>11, VerifyParkStep
<1>12. CASE MarkEvent(p)        BY <1>12, MarkEventStep
<1>13. CASE ReconcileFetch(p)   BY <1>13, ReconcileFetchStep
<1>14. CASE ReconcileDeferred(p) BY <1>14, ReconcileDeferredStep
<1>15. CASE Capture(p)          BY <1>15, CaptureStep
<1>16. CASE Settle(p)           BY <1>16, SettleStep
<1>17. CASE RecordDuplicate(p)  BY <1>17, RecordDuplicateStep
<1>18. CASE SettleFailed(p)     BY <1>18, SettleFailedStep
<1>19. CASE RideFailed(p) \/ RideProcessing(p) BY <1>19, RideFailedStep
<1>20. CASE MarkProcessing(p)   BY <1>20, MarkProcessingStep
<1>21. CASE RidePaid(p)         BY <1>21, RidePaidStep
<1>22. CASE EarnFind(p)         BY <1>22, EarnFindStep
<1>23. CASE EarnInsert(p)       BY <1>23, EarnInsertStep
<1>24. CASE EarnLink(p)         BY <1>24, EarnLinkStep
<1> QED
  BY <1>1, <1>2, <1>3, <1>4, <1>5, <1>6, <1>7, <1>8, <1>9, <1>10, <1>11, <1>12, <1>13, <1>14,
     <1>15, <1>16, <1>17, <1>18, <1>19, <1>20, <1>21, <1>22, <1>23, <1>24 DEF CallStep

LEMMA StepHolds ==
  ASSUME IInv, [Next]_vars
  PROVE  IInv'
<1>1. ASSUME NEW p \in Calls, Request(p)
      PROVE  IInv'
  BY <1>1, TapPayStep, ReconcileStep, VerifyStep, ReportFailureStep DEF Request
<1>2. ASSUME NEW p \in Calls, Background(p)
      PROVE  IInv'
  BY <1>2, WebhookStep, ReconcileStep, CreditMissingStep DEF Background
<1>3. ASSUME NEW p \in Calls, EarnError(p) \/ Fail(p)
      PROVE  IInv'
  BY <1>3, EarnErrorStep, FailStep
<1>4. ASSUME NEW g \in Pays, GatewayMoves(g) \/ \E o \in Orders : Pay(g, o)
      PROVE  IInv'
  BY <1>4, GatewayMovesStep, PayStep
<1>5. CASE OrderAges \/ OrderPassesHorizon \/ LeaseExpires
  BY <1>5, ClockStep
<1>6. CASE UNCHANGED vars
  BY <1>6 DEF vars, record, world, IInv, TypeOK, CallsSound, SettledFirst, MarksFit, OrdersKnown,
              CreditedOnce, NoCaptureIsForgotten, PaymentIsNotItsOwnDuplicate, LockOK, Reusable
<1> QED BY <1>1, <1>2, <1>3, <1>4, <1>5, <1>6, CallStepHolds DEF Next

\* What every reachable state satisfies: a handler that kept a document, an answer of
\* Razorpay or an order across its awaits knows what Sound says of the bill it writes next
\* (payments.service.ts, webhooks and payment-reconciliation.service.ts together).
THEOREM Invariance == Spec => []IInv
<1>1. IInv /\ [Next]_vars => IInv'
  BY StepHolds
<1> QED BY <1>1, InitHolds, PTL DEF Spec

\* The bill, the ride's payment status, the earning lines and every call's locals keep
\* their types: the schema of payment.schema.ts and what its handlers hold between awaits.
THEOREM TypeCorrect == Spec => []TypeOK
<1>1. IInv => TypeOK
  BY DEF IInv
<1> QED BY <1>1, Invariance, PTL

\* Whatever races: cash, verify, webhook, failure report and reconciler show a ride as paid
\* only when its money was collected, forget no capture, never flag the payment that settled
\* the bill as its own duplicate, and credit the driver once, for the way it was paid.
THEOREM MoneyKept == Spec => []MoneyIsKept
<1>1. IInv => MoneyIsKept
  <2> SUFFICES ASSUME IInv PROVE MoneyIsKept
    OBVIOUS
  <2>1. PaidMeansCollected
    BY DEF IInv, SettledFirst, PaidMeansCollected
  <2>2. OneEarning
    BY DEF IInv, CreditedOnce, OneEarning
  <2> QED BY <2>1, <2>2 DEF MoneyIsKept, IInv
<1> QED BY <1>1, Invariance, PTL

\* The order of every checkout the app was handed is on the bill, and until its last order
\* leaves the horizon an open bill is on one of the reconciler's two lists, whatever failed.
THEOREM OrdersInReach == Spec => []OrdersAreInReach
<1>1. IInv => OrdersAreInReach
  <2> SUFFICES ASSUME IInv PROVE OrdersAreInReach
    OBVIOUS
  <2>1. HandedOrdersAreKnown
    BY DEF IInv, OrdersKnown, HandedOrdersAreKnown
  <2>2. ReconcilerSeesEveryOpenBill
    <3> SUFFICES ASSUME Open(bill), OrdersOf(bill) \ past # {}
                 PROVE  StaleProcessing \/ OpenOrderToCheck
      BY DEF ReconcilerSeesEveryOpenBill
    <3>1. ~Settled(bill) /\ bill.gateway = "RAZORPAY"
      BY OpenIsUnsettled DEF IInv, TypeOK, SettledFirst
    <3> QED BY <3>1 DEF Open, OPEN_PAYMENT_STATUSES, StaleProcessing, OpenOrderToCheck, IInv, MarksFit
  <2> QED BY <2>1, <2>2 DEF OrdersAreInReach
<1> QED BY <1>1, Invariance, PTL

-----------------------------------------------------------------------------
(* What a step may do to the bill.                                         *)

\* How the bill was settled, its duplicates, its earning and the number of its orders.
Abstract == <<bill.gateway, bill.paidBy, duplicates, linked, Len(bill.attempts)>>

LEMMA CallStepOnBill ==
  ASSUME IInv, NEW p \in Calls, CallStep(p)
  PROVE  \/ Abstract' = Abstract
         \/ PayCash(p) \/ PushOrder(p) \/ Settle(p) \/ RecordDuplicate(p) \/ EarnLink(p)
<1> USE DEF Abstract
<1>0. bill \in Bill /\ bill.attempts \in Seq(Attempt)
  BY DEF IInv, TypeOK, Bill
<1>1. CASE OpenBill(p)
  <2>1. CASE bill.status = "NONE"
    <3>1. bill' = [NoBill EXCEPT !.status = "CREATED"]
      BY <1>1, <2>1 DEF OpenBill
    <3>2. bill'.attempts = <<>> /\ bill'.gateway = "RAZORPAY" /\ bill'.paidBy = NoPay
      BY <3>1 DEF NoBill
    <3>3. bill.attempts = <<>> /\ bill.gateway = "RAZORPAY" /\ bill.paidBy = NoPay
      BY <2>1 DEF IInv, SettledFirst, Settled, SETTLED_PAYMENT_STATUSES
    <3>4. duplicates' = duplicates /\ linked' = linked
      BY <1>1 DEF OpenBill
    <3> QED BY <3>2, <3>3, <3>4
  <2>2. CASE bill.status # "NONE"
    BY <1>1, <2>2 DEF OpenBill
  <2> QED BY <2>1, <2>2
<1>2. CASE Reopen(p)
  BY <1>0, <1>2 DEF Reopen, Bill
<1>3. CASE SettleFailed(p)
  <2>1. duplicates' = duplicates /\ linked' = linked
        /\ (bill' = bill \/ \E order : bill' = FailedOn(order))
    BY <1>3 DEF SettleFailed
  <2>2. ASSUME NEW order, bill' = FailedOn(order)
        PROVE  Abstract' = Abstract
    <3>1. Len(Mark(bill.attempts, order, Unpaid, "FAILED")) = Len(bill.attempts)
      BY <1>0, MarkKeepsOrders
    <3>2. /\ bill'.attempts = Mark(bill.attempts, order, Unpaid, "FAILED")
          /\ bill'.gateway = bill.gateway /\ bill'.paidBy = bill.paidBy
      BY <1>0, <2>2 DEF FailedOn, Bill
    <3> QED BY <2>1, <3>1, <3>2
  <2> QED BY <2>1, <2>2
<1>4. CASE MarkProcessing(p)
  <2> DEFINE m == Mark(bill.attempts, gateway[call[p].pay].order, Unpaid, "ATTEMPTED")
  <2>1. /\ duplicates' = duplicates /\ linked' = linked
        /\ \/ bill' = bill
           \/ \E status : bill' = [bill EXCEPT !.status = status, !.processing = call[p].pay,
                                               !.attempts = m]
    BY <1>4 DEF MarkProcessing
  <2>2. Len(m) = Len(bill.attempts)
    BY <1>0, MarkKeepsOrders
  <2> HIDE DEF m
  <2>3. bill' = bill \/ (bill'.attempts = m /\ bill'.gateway = bill.gateway
                         /\ bill'.paidBy = bill.paidBy)
    BY <1>0, <2>1 DEF Bill
  <2> QED BY <2>1, <2>2, <2>3
<1>5. CASE \/ VerifyFetch(p) \/ VerifyPark(p) \/ MarkEvent(p) \/ ReconcileFetch(p)
           \/ ReconcileDeferred(p) \/ OrderLockBusy(p) \/ RaiseOrder(p) \/ Capture(p)
           \/ EarnFind(p)
  <2>1. record' = record
    BY <1>5 DEF VerifyFetch, VerifyPark, MarkEvent, ReconcileFetch, ReconcileDeferred,
                OrderLockBusy, RaiseOrder, Capture, EarnFind
  <2> QED BY <2>1 DEF record
<1>6. CASE \/ LockOrder(p) \/ UnlockOrder(p) \/ OrderRide(p) \/ RideFailed(p)
           \/ RideProcessing(p) \/ RidePaid(p) \/ EarnInsert(p)
  BY <1>6 DEF LockOrder, UnlockOrder, OrderRide, RideFailed, RideProcessing, RidePaid, EarnInsert
<1> QED BY <1>1, <1>2, <1>3, <1>4, <1>5, <1>6 DEF CallStep

LEMMA OtherStepOnBill ==
  ASSUME IInv, Next, ~\E p \in Calls : CallStep(p)
  PROVE  Abstract' = Abstract
<1>1. \/ record' = record
      \/ UNCHANGED <<ride, bill, duplicates, linked, earnings>>
  BY DEF Next, Request, Background, TapPay, Verify, ReportFailure, Webhook, Reconcile,
         Receipt, CreditMissing, EarnError, Fail, GatewayMoves, Pay, OrderAges,
         OrderPassesHorizon, LeaseExpires
<1> QED BY <1>1 DEF record, Abstract

LEMMA BillStepsOnly ==
  ASSUME IInv, [Next]_vars
  PROVE  \/ Abstract' = Abstract
         \/ \E p \in Calls : \/ PayCash(p) \/ PushOrder(p) \/ Settle(p)
                             \/ RecordDuplicate(p) \/ EarnLink(p)
<1>1. CASE UNCHANGED vars
  BY <1>1 DEF vars, record, Abstract
<1>2. CASE Next
  BY <1>2, CallStepOnBill, OtherStepOnBill
<1> QED BY <1>1, <1>2

\* "A double tap must not raise two orders": the order lock of openAttempt, its lease, its
\* re-reads and the `finally` of a holder that found nothing let an order be added only
\* when the latest one is paid or too old to be re-used.
THEOREM OrdersDoNotPileUp == Spec => NoOrderPilesUp
<1>1. ASSUME IInv, [Next]_vars, Len(bill'.attempts) > Len(bill.attempts)
      PROVE  ~Reusable(bill)
  <2>1. bill.attempts \in Seq(Attempt) /\ bill \in Bill
    BY <1>1 DEF IInv, TypeOK, Bill
  <2>2. Abstract' # Abstract
    BY <1>1, <2>1 DEF Abstract
  <2>3. PICK p \in Calls : \/ PayCash(p) \/ PushOrder(p) \/ Settle(p)
                           \/ RecordDuplicate(p) \/ EarnLink(p)
    BY <1>1, <2>2, BillStepsOnly
  <2>4. CASE PushOrder(p)
    <3>1. Open(bill) /\ call[p].pc = "push"
      BY <1>1, <2>1, <2>4 DEF PushOrder, Running
    <3>2. ~Settled(bill)
      BY <2>1, <3>1, OpenIsUnsettled
    <3> QED BY <1>1, <3>1, <3>2 DEF IInv, LockOK
  <2>5. CASE PayCash(p)
    <3>1. bill'.attempts = bill.attempts
      BY <2>1, <2>5 DEF PayCash, Bill
    <3> QED BY <1>1, <2>1, <3>1
  <2>6. CASE Settle(p)
    <3> DEFINE m == Mark(bill.attempts, gateway[call[p].pay].order, Unpaid, "PAID")
    <3>1. Len(m) = Len(bill.attempts)
      BY <2>1, MarkKeepsOrders
    <3>2. bill' = SettledBy(call[p].pay) \/ bill' = bill
      BY <2>6 DEF Settle
    <3>3. bill'.attempts = m \/ bill'.attempts = bill.attempts
      BY <2>1, <3>2 DEF SettledBy, Bill
    <3> HIDE DEF m
    <3> QED BY <1>1, <2>1, <3>1, <3>3
  <2>7. CASE RecordDuplicate(p) \/ EarnLink(p)
    BY <1>1, <2>1, <2>7 DEF RecordDuplicate, EarnLink
  <2> QED BY <2>3, <2>4, <2>5, <2>6, <2>7
<1>2. IInv /\ [Next]_vars
        => [Len(bill'.attempts) > Len(bill.attempts) => ~Reusable(bill)]_vars
  BY <1>1
<1> QED BY <1>2, Invariance, PTL DEF Spec, NoOrderPilesUp

\* The handlers and their races implement BillSettlement: one settlement, in cash or by one
\* captured payment; every other capture is only flagged; one credit, afterwards.
THEOREM ImplementsTheBill == Spec => ImplementsSettlement
<1>1. Init => Settlement!Init
  BY DEF Init, NoBill, Settlement!Init
<1>2. ASSUME IInv, [Next]_vars
      PROVE  [Settlement!Next]_<<bill.gateway = "CASH", bill.paidBy, duplicates, linked>>
  <2> USE DEF Settlement!Next, Settlement!Unsettled
  <2>1. bill \in Bill /\ (Settled(bill) => bill.gateway = "CASH" \/ bill.paidBy # NoPay)
        /\ (~Settled(bill) => bill.gateway # "CASH" /\ bill.paidBy = NoPay)
    BY <1>2 DEF IInv, TypeOK, SettledFirst, Bill
  <2>2. CASE Abstract' = Abstract
    BY <2>2 DEF Abstract
  <2>3. ASSUME NEW p \in Calls, PayCash(p)
        PROVE  Settlement!SettleInCash \/ UNCHANGED <<bill, duplicates, linked>>
    <3>1. CASE CashAdmitted(bill)
      <4>1. bill' = [bill EXCEPT !.status = "CAPTURED", !.gateway = "CASH"]
            /\ UNCHANGED <<duplicates, linked>> /\ ~Settled(bill)
        BY <2>1, <2>3, <3>1, OpenIsUnsettled DEF PayCash, CashAdmitted
      <4>2. bill'.gateway = "CASH" /\ bill'.paidBy = bill.paidBy
        BY <2>1, <4>1 DEF Bill
      <4> QED BY <2>1, <4>1, <4>2 DEF Settlement!SettleInCash
    <3>2. CASE ~CashAdmitted(bill)
      BY <2>3, <3>2 DEF PayCash
    <3> QED BY <3>1, <3>2
  <2>4. ASSUME NEW p \in Calls, Settle(p)
        PROVE  \/ \E g \in Pays : Settlement!SettleBy(g)
               \/ UNCHANGED <<bill, duplicates, linked>>
    <3>1. CASE Open(bill)
      <4>1. bill' = SettledBy(call[p].pay) /\ UNCHANGED <<duplicates, linked>> /\ ~Settled(bill)
        BY <2>1, <2>4, <3>1, OpenIsUnsettled DEF Settle, SettleAdmitted
      <4>2. call[p].pay \in Pays
        BY <1>2, <2>4 DEF Settle, Running, IInv, CallsSound, Sound, KnowsPayment, Judged
      <4>3. bill'.gateway = bill.gateway /\ bill'.paidBy = call[p].pay
        BY <2>1, <4>1 DEF Bill, SettledBy
      <4> QED BY <2>1, <4>1, <4>2, <4>3 DEF Settlement!SettleBy
    <3>2. CASE ~Open(bill)
      BY <2>4, <3>2 DEF Settle, SettleAdmitted
    <3> QED BY <3>1, <3>2
  <2>5. ASSUME NEW p \in Calls, RecordDuplicate(p)
        PROVE  \E g \in Pays : Settlement!Flag(g)
    <3>1. call[p].pay \in Pays /\ Settled(bill) /\ bill.paidBy # call[p].pay
      BY <1>2, <2>5 DEF RecordDuplicate, Running, IInv, CallsSound, Sound, KnowsPayment, Judged
    <3> QED BY <2>1, <2>5, <3>1 DEF RecordDuplicate, Settlement!Flag
  <2>6. ASSUME NEW p \in Calls, EarnLink(p)
        PROVE  Settlement!Credit
    <3>1. Settled(bill)
      BY <1>2, <2>6 DEF EarnLink, Running, IInv, CallsSound, Sound, KnowsDocument, Crediting
    <3> QED BY <2>1, <2>6, <3>1 DEF EarnLink, Settlement!Credit
  <2>7. ASSUME NEW p \in Calls, PushOrder(p)
        PROVE  UNCHANGED <<bill.gateway, bill.paidBy, duplicates, linked>>
    BY <2>1, <2>7 DEF PushOrder, Bill
  <2> QED BY <1>2, <2>2, <2>3, <2>4, <2>5, <2>6, <2>7, BillStepsOnly
<1>3. IInv /\ [Next]_vars
        => [Settlement!Next]_<<bill.gateway = "CASH", bill.paidBy, duplicates, linked>>
  BY <1>2
<1> QED BY <1>1, <1>3, Invariance, PTL DEF Spec, ImplementsSettlement, Settlement!Spec
=============================================================================
