--------------------------- MODULE Reconciliation ---------------------------
(***************************************************************************)
(* Comparing what Razorpay holds with what the books say                   *)
(* (PaymentReconciliationService), while the gateway's payments move on    *)
(* and webhooks settle the same bill.  A run lists Razorpay's payments     *)
(* page by page, reads the bills they belong to, and compares each item    *)
(* with that copy; whatever disagrees becomes an exception of the run, and *)
(* the safe ones are applied first through the ordinary settlement.        *)
(*                                                                         *)
(* One bill stands for all of them: runs and settlements of different      *)
(* bills never touch each other.  A refund returns a whole payment.        *)
(***************************************************************************)
EXTENDS Naturals, FiniteSets

CONSTANTS
  Runs,         \* runs of one window, by an admin or by the daily pass
  Pages,        \* the pages Razorpay lists the bill's payments on
  MAX_PAGES,    \* pages a run reads
  MaxFailures   \* calls to the database or to Razorpay that fail in a run

VARIABLES
  item,      \* item[x]: the status of a payment at Razorpay
  bill,      \* [paid, dups, refunds]: the payment it counts, flagged captures, refunds known
  run,       \* run[m]: [status, key, fresh, exceptions, truncated]
  job,       \* job[m]: [pc, page, list, doc, todo, seen, found, lost]: execute, while it runs
  failures   \* failures so far

reconciliationVars == <<item, bill, run, job, failures>>

None == "none"
Items == UNION {Pages[p] : p \in DOMAIN Pages}
PaymentsSeen == {None, "authorized", "captured", "refunded"}
ReconciliationRunStatus == {None, "RUNNING", "COMPLETED", "FAILED"}
ReconciliationExceptionType ==
  {"REFUND_MISMATCH", "UNTRACKED_DUPLICATE", "GATEWAY_PAID_NOT_RECORDED",
   "AUTHORIZED_NOT_CAPTURED", "RECORDED_PAID_NOT_AT_GATEWAY"}
ReconciliationException ==
  [item : Items, type : ReconciliationExceptionType, healed : BOOLEAN]
PaymentReconciliationRun ==
  [status : ReconciliationRunStatus, key : {None, "daily", "admin"}, fresh : BOOLEAN,
   exceptions : SUBSET ReconciliationException, truncated : BOOLEAN]
Book == [paid : Items \cup {None, "cash"}, dups : SUBSET Items, refunds : SUBSET Items]

Captured(status) == status \in {"captured", "refunded"}
NoBook == [paid |-> None, dups |-> {}, refunds |-> {}]
NoList == [x \in {} |-> None]
Idle == [pc |-> "idle", page |-> 1, list |-> NoList, doc |-> NoBook, todo |-> {}, seen |-> {},
         found |-> {}, lost |-> {}]
At(m, pc) == job[m].pc = pc
Goes(m, r) == job' = [job EXCEPT ![m] = r]

Init ==
  /\ item = [x \in Items |-> None]
  /\ bill = NoBook
  /\ run = [m \in Runs |-> [status |-> None, key |-> None, fresh |-> FALSE, exceptions |-> {},
                            truncated |-> FALSE]]
  /\ job = [m \in Runs |-> Idle]
  /\ failures = 0

-----------------------------------------------------------------------------
\* Settlement, which webhooks and the run share: the first capture pays the bill, every other one
\* is flagged as a duplicate.
FirstWins(b, x) == IF b.paid = None THEN [b EXCEPT !.paid = x] ELSE b
Settled(b, x) ==
  IF b.paid = None THEN [b EXCEPT !.paid = x]
  ELSE IF b.paid = x THEN b
  ELSE [b EXCEPT !.dups = @ \cup {x}]

\* syncPayment: the refunds Razorpay knows of the bill's payments.
Synced(b) == [b EXCEPT !.refunds = @ \cup {x \in Items : /\ item[x] = "refunded"
                                                         /\ x = b.paid \/ x \in b.dups}]

\* applyGatewayPayment of a handler that holds doc and was told status.  An authorisation is
\* captured on the word of doc alone.
Captures(doc, status) == status = "authorized" /\ doc.paid = None
Applied(doc, x, status) ==
  IF Captured(status) \/ Captures(doc, status)
  THEN IF status = "refunded" THEN Synced(Settled(bill, x)) ELSE Settled(bill, x)
  ELSE bill
Capture(doc, x, status) ==
  item' = IF Captures(doc, status) /\ item[x] = "authorized"
          THEN [item EXCEPT ![x] = "captured"] ELSE item

\* Razorpay: a customer pays, the authorisation is captured there, the payment is refunded.
Pay(x) ==
  /\ item[x] = None
  /\ \E status \in {"authorized", "captured"} : item' = [item EXCEPT ![x] = status]
  /\ UNCHANGED <<bill, run, job, failures>>
Refund(x) ==
  /\ item[x] = "captured"
  /\ item' = [item EXCEPT ![x] = "refunded"]
  /\ UNCHANGED <<bill, run, job, failures>>

\* A webhook, or a verify, that applies what Razorpay says now.
Webhook(x) ==
  /\ item[x] # None
  /\ bill' = Applied(bill, x, item[x])
  /\ Capture(bill, x, item[x])
  /\ UNCHANGED <<run, job, failures>>
PayCash ==
  /\ bill.paid = None
  /\ bill' = [bill EXCEPT !.paid = "cash"]
  /\ UNCHANGED <<item, run, job, failures>>

-----------------------------------------------------------------------------
\* An admin starts a run unless one is running that is not stale; two that ask together both run.
NoneRunning == \A m \in Runs : ~(run[m].status = "RUNNING" /\ run[m].fresh)
Started(key) == [status |-> "RUNNING", key |-> key, fresh |-> TRUE, exceptions |-> {},
                 truncated |-> FALSE]

Ask(m) ==
  /\ At(m, "idle") /\ run[m].status = None /\ NoneRunning
  /\ Goes(m, [job[m] EXCEPT !.pc = "asked"])
  /\ UNCHANGED <<item, bill, run, failures>>
Start(m) ==
  /\ At(m, "asked")
  /\ run' = [run EXCEPT ![m] = Started("admin")]
  /\ Goes(m, [job[m] EXCEPT !.pc = "list"])
  /\ UNCHANGED <<item, bill, failures>>

\* The daily pass of an instance: it looks for the day's key, and the unique key settles the race.
KeyTaken(key) == key = "daily" /\ \E m \in Runs : run[m].key = key
CheckDaily(m) ==
  /\ At(m, "idle") /\ run[m].status = None /\ ~KeyTaken("daily")
  /\ Goes(m, [job[m] EXCEPT !.pc = "due"])
  /\ UNCHANGED <<item, bill, run, failures>>
EnsureDailyRun(m) ==
  /\ At(m, "due")
  /\ IF KeyTaken("daily")
     THEN /\ Goes(m, [job[m] EXCEPT !.pc = "over"])
          /\ UNCHANGED run
     ELSE /\ run' = [run EXCEPT ![m] = Started("daily")]
          /\ Goes(m, [job[m] EXCEPT !.pc = "list"])
  /\ UNCHANGED <<item, bill, failures>>

\* Thirty minutes pass, in a run that is slow or whose process died.
GrowsStale(m) ==
  /\ run[m].status = "RUNNING" /\ run[m].fresh
  /\ run' = [run EXCEPT ![m].fresh = FALSE]
  /\ UNCHANGED <<item, bill, job, failures>>

\* execute: one page of Razorpay's list, cut at the page cap.
ListPage(m) ==
  LET p == job[m].page
      L == IF p \in DOMAIN Pages THEN {x \in Pages[p] : item[x] # None} ELSE {}
  IN /\ At(m, "list")
     /\ IF p > MAX_PAGES \/ p \notin DOMAIN Pages
        THEN /\ Goes(m, [job[m] EXCEPT !.pc = "recorded"])
             /\ run' = [run EXCEPT ![m].truncated = p \in DOMAIN Pages]
        ELSE /\ Goes(m, [job[m] EXCEPT !.pc = "find", !.list = [x \in L |-> item[x]], !.todo = L])
             /\ UNCHANGED run
     /\ UNCHANGED <<item, bill, failures>>

\* The bills of the page's orders, read once for the whole page.
FindBills(m) ==
  /\ At(m, "find")
  /\ Goes(m, [job[m] EXCEPT !.pc = "compare", !.doc = bill])
  /\ UNCHANGED <<item, bill, run, failures>>

\* What the run writes down about an item, given the copy it compared and the bill after applying.
Found(m, x, after) ==
  LET doc == job[m].doc
      told == job[m].list[x]
      Is(type, healed) == {[item |-> x, type |-> type, healed |-> healed]}
  IN IF Captured(told)
     THEN IF doc.paid = x
          THEN IF (told = "refunded") = (x \in bill.refunds) THEN {}
               ELSE Is("REFUND_MISMATCH", (told = "refunded") = (x \in after.refunds))
          ELSE IF doc.paid # None
          THEN IF x \in doc.dups THEN {} ELSE Is("UNTRACKED_DUPLICATE", x \in after.dups)
          ELSE Is("GATEWAY_PAID_NOT_RECORDED", after.paid # None)
     ELSE Is("AUTHORIZED_NOT_CAPTURED", doc.paid = None /\ after.paid = x)

\* compare applies nothing to a payment that matches or is a known duplicate.
Applies(m, x) ==
  LET doc == job[m].doc IN
    IF Captured(job[m].list[x]) THEN doc.paid # x /\ x \notin doc.dups ELSE doc.paid = None
Compared(m, x) ==
  IF Applies(m, x) THEN Applied(job[m].doc, x, job[m].list[x])
  ELSE IF /\ job[m].doc.paid = x
          /\ (job[m].list[x] = "refunded") # (x \in bill.refunds)
  THEN Synced(bill)
  ELSE bill

Compare(m, x) ==
  /\ At(m, "compare") /\ x \in job[m].todo
  /\ bill' = Compared(m, x)
  /\ IF Applies(m, x) THEN Capture(job[m].doc, x, job[m].list[x]) ELSE UNCHANGED item
  /\ Goes(m, [job[m] EXCEPT !.todo = @ \ {x},
                            !.seen = IF Captured(job[m].list[x]) THEN @ \cup {x} ELSE @,
                            !.found = @ \cup Found(m, x, Compared(m, x))])
  /\ UNCHANGED <<run, failures>>

\* safeApply swallows a failure and goes by the bill as it stands.
CompareFails(m, x) ==
  /\ At(m, "compare") /\ x \in job[m].todo /\ Applies(m, x)
  /\ failures < MaxFailures /\ failures' = failures + 1
  /\ Goes(m, [job[m] EXCEPT !.todo = @ \ {x}, !.lost = @ \cup {x},
                            !.seen = IF Captured(job[m].list[x]) THEN @ \cup {x} ELSE @,
                            !.found = @ \cup Found(m, x, bill)])
  /\ UNCHANGED <<item, bill, run>>

NextPage(m) ==
  /\ At(m, "compare") /\ job[m].todo = {}
  /\ Goes(m, [job[m] EXCEPT !.pc = "list", !.page = @ + 1, !.list = NoList, !.doc = NoBook])
  /\ UNCHANGED <<item, bill, run, failures>>

\* The other direction: a bill we call paid online whose payment no page showed is asked for, and
\* one that cannot be fetched counts as missing.
Missing(m, fetched) ==
  IF bill.paid \in Items \ job[m].seen /\ ~(fetched /\ Captured(item[bill.paid]))
  THEN {[item |-> bill.paid, type |-> "RECORDED_PAID_NOT_AT_GATEWAY", healed |-> FALSE]}
  ELSE {}

Save(m, status, found) ==
  /\ run' = [run EXCEPT ![m].status = status, ![m].exceptions = found]
  /\ Goes(m, [job[m] EXCEPT !.pc = "over", !.found = {}])
CheckRecorded(m) ==
  /\ At(m, "recorded")
  /\ \E fetched \in BOOLEAN :
       /\ IF fetched THEN UNCHANGED failures
          ELSE /\ failures < MaxFailures /\ failures' = failures + 1
               /\ job[m].lost = {}
       /\ Save(m, "COMPLETED", job[m].found \cup Missing(m, fetched))
  /\ UNCHANGED <<item, bill>>

\* Razorpay's list fails: the run keeps what it found and says so.
ListFails(m) ==
  /\ At(m, "list")
  /\ failures < MaxFailures /\ failures' = failures + 1
  /\ Save(m, "FAILED", job[m].found)
  /\ UNCHANGED <<item, bill>>

Next ==
  \/ \E x \in Items : Pay(x) \/ Refund(x) \/ Webhook(x)
  \/ PayCash
  \/ \E m \in Runs :
       \/ Ask(m) \/ Start(m) \/ CheckDaily(m) \/ EnsureDailyRun(m) \/ GrowsStale(m)
       \/ ListPage(m) \/ FindBills(m) \/ NextPage(m) \/ CheckRecorded(m) \/ ListFails(m)
       \/ \E x \in Items : Compare(m, x) \/ CompareFails(m, x)

Spec == Init /\ [][Next]_reconciliationVars

-----------------------------------------------------------------------------
\* Type invariant: the bill and the runs hold the values their schemas allow.
TypeOK ==
  /\ item \in [Items -> PaymentsSeen]
  /\ bill \in Book
  /\ \A m \in Runs : run[m] \in PaymentReconciliationRun /\ job[m].doc \in Book

Recorded(x) == x = bill.paid \/ x \in bill.dups

\* When a run has compared a whole window, every capture it was told of is the payment of its
\* bill, a flagged duplicate, or an exception somebody has to look at, although the bill it
\* compared may have been settled since by a webhook or by a second run.  The exception is a
\* payment whose application failed in that run (execute, compare).
NothingGoesUnnoticed ==
  \A m \in Runs : run[m].status = "COMPLETED" =>
    \A x \in job[m].seen \ job[m].lost :
      Recorded(x) \/ \E e \in run[m].exceptions : e.item = x /\ ~e.healed

\* What a run calls healed is in the books: the capture it speaks of is recorded, and refunds it
\* re-read are known (compare).
HealedIsRecorded ==
  \A m \in Runs : \A e \in run[m].exceptions :
    e.healed /\ e.item \notin job[m].lost =>
      Recorded(e.item) /\ (e.type = "REFUND_MISMATCH" => e.item \in bill.refunds)

\* A payment we call paid is reported as absent from Razorpay only when Razorpay could not be
\* asked: captures are never taken back (execute, second pass).
PaidIsNotMissing ==
  failures = 0 => \A m \in Runs : \A e \in run[m].exceptions :
                    e.type # "RECORDED_PAID_NOT_AT_GATEWAY"

\* A day is compared by one run at most, however many instances find it due at once
\* (ensureDailyRun).
OneDailyRun == Cardinality({m \in Runs : run[m].key = "daily"}) <= 1
=============================================================================
