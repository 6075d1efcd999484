------------------------------ MODULE Earnings ------------------------------
(***************************************************************************)
(* What drivers earn: the versioned commission of one ride type, whose     *)
(* rate in force at the completion a ride is credited at, while admins     *)
(* append versions and withdraw scheduled ones (CommissionService,         *)
(* splitFare); and paying a driver, where admins record payouts of         *)
(* AVAILABLE ledger lines and recover outstanding refund clawbacks from    *)
(* them while lines mature, refunds are clawed back and adjustments are    *)
(* waived (EarningsAdminService, EarningsService.promoteMatured).          *)
(*                                                                         *)
(* Time is a small clock.  ensureForRideType leaves a history whose first  *)
(* version starts when it is seeded, or earlier when it is copied; rides   *)
(* may have completed before that.                                         *)
(* updateMany flips its documents one by one, so two payouts may share out *)
(* the lines they both list.  A request that dies never takes its next     *)
(* step.                                                                   *)
(***************************************************************************)
EXTENDS Integers, FiniteSets, FiniteSetsExt, TLAPS

CONSTANTS
  Rides,       \* rides whose trip is over
  Admins,      \* admins with a change in flight
  Rates,       \* percentages
  Tolerance,   \* BACKDATE_TOLERANCE_MS, in ticks
  Boot,        \* when the ride type's history is made sure of
  MaxTime,     \* bound: the clock
  MaxVersions, \* bound: versions
  Gross,       \* fares, in paise, for splitFare
  Lines,       \* ledger lines of the driver
  Net,         \* netEarningPaise of each
  Adjs,        \* clawbacks, named by their age: 1 is the oldest
  Owed,        \* amountPaise of each
  Payouts,     \* payouts that admins record
  Asked        \* the sets of lines an admin may list

VARIABLES
  versions,    \* commission_configs of the ride type: [version, value, from, at, live];
               \* at: when it was written
  now,
  change,      \* change[a]: the update in flight
  credited,    \* credited[r]: the rate a ride was credited at: [completed, rate], or NoLine
  line,        \* line[l]: [status, payout]
  adj,         \* adj[a]: [status, payout]
  payout       \* payout[q]: [pc, lines, todo, picked, gross, deduction, amount]

commissionVars == <<versions, now, change, credited>>
payoutVars == <<line, adj, payout>>

\* ensureForRideType: seeded now, or copied with an earlier start.
SeededVersions ==
  {{[version |-> 1, value |-> r, from |-> first, at |-> first, live |-> TRUE]} :
     r \in Rates, first \in 0..Boot}

NoLine == [completed |-> -1, rate |-> 0]
Resting == [pc |-> "idle", from |-> 0, value |-> 0, began |-> 0]
Live == {v \in versions : v.live}
Begun(t) == {v \in Live : v.from <= t}

\* findInForce: the ACTIVE version with the latest effectiveFrom that is not after t;
\* before the first one, the first.
InForce(t) ==
  IF Begun(t) = {} THEN CHOOSE v \in Live : \A w \in Live : v.from <= w.from
  ELSE CHOOSE v \in Begun(t) : \A w \in Begun(t) : w.from <= v.from

CommissionConfig ==
  [version : 1..MaxVersions, value : Rates, from : 0..MaxTime, at : 0..MaxTime, live : BOOLEAN]

None == "none"
EarningStatus == {"PENDING", "AVAILABLE", "PAID"}
AdjustmentStatus == {None, "OUTSTANDING", "SETTLED", "WAIVED"}
NetOf(S) == MapThenSumSet(LAMBDA l : Net[l], S)
OwedOf(S) == MapThenSumSet(LAMBDA a : Owed[a], S)
New == [pc |-> "new", lines |-> {}, todo |-> {}, picked |-> {}, gross |-> 0, deduction |-> 0,
        amount |-> 0]
LinesOf(q) == {l \in Lines : line[l].payout = q}
AdjsOf(q) == {a \in Adjs : adj[a].payout = q}
Outstanding == {a \in Adjs : adj[a].status = "OUTSTANDING"}

DriverEarning == [status : EarningStatus, payout : Payouts \cup {None}]
DriverEarningAdjustment == [status : AdjustmentStatus, payout : Payouts \cup {None}]
DriverPayout ==
  [lines : SUBSET Lines, picked : SUBSET Adjs, gross : Nat, deduction : Nat, amount : Nat]

Init ==
  /\ versions \in SeededVersions
  /\ now = Boot
  /\ change = [a \in Admins |-> Resting]
  /\ credited = [r \in Rides |-> NoLine]
  /\ line = [l \in Lines |-> [status |-> "PENDING", payout |-> None]]
  /\ adj = [a \in Adjs |-> [status |-> None, payout |-> None]]
  /\ payout = [q \in Payouts |-> New]

-----------------------------------------------------------------------------
(* Commission versions.                                                    *)

\* Not before the tolerance, and not at the start of another live version.
MayStart(from) == from >= now - Tolerance /\ \A v \in Live : v.from # from

\* update(): refused when it would change nothing.
CheckChange(a) ==
  /\ change[a].pc = "idle"
  /\ \E from \in 0..MaxTime, value \in Rates :
       /\ MayStart(from)
       /\ ~(InForce(from).value = value /\ InForce(from).from <= from)
       /\ change' = [change EXCEPT ![a] = [pc |-> "write", from |-> from, value |-> value, began |-> now]]
  /\ UNCHANGED <<versions, now, credited>>

\* The unique indexes refuse a second live version with the same start; a version
\* number that was taken meanwhile is tried again with the next.
WriteVersion(a) ==
  /\ change[a].pc = "write"
  /\ Cardinality(versions) < MaxVersions
  /\ versions' = IF \E v \in Live : v.from = change[a].from THEN versions
                 ELSE versions \cup {[version |-> Max({v.version : v \in versions}) + 1,
                                      value |-> change[a].value, from |-> change[a].from, at |-> now,
                                      live |-> TRUE]}
  /\ change' = [change EXCEPT ![a] = Resting]
  /\ UNCHANGED <<now, credited>>

Withdrawable(v) == v.live /\ v.from > now

CancelScheduled ==
  /\ \E v \in versions :
       Withdrawable(v) /\ versions' = (versions \ {v}) \cup {[v EXCEPT !.live = FALSE]}
  /\ UNCHANGED <<now, change, credited>>

\* recordForPayment resolves the rate at completion and keeps it on the line (two reads and an
\* insert in one step: a version written in between is one written after).
Credit(r, t) ==
  /\ credited[r] = NoLine /\ t <= now
  /\ credited' = [credited EXCEPT ![r] = [completed |-> t, rate |-> InForce(t).value]]
  /\ UNCHANGED <<versions, now, change>>

Tick == now < MaxTime /\ now' = now + 1 /\ UNCHANGED <<versions, change, credited>>

CommissionNext ==
  \/ \E a \in Admins : CheckChange(a) \/ WriteVersion(a)
  \/ CancelScheduled
  \/ \E r \in Rides, t \in 0..MaxTime : Credit(r, t)
  \/ Tick

\* percentOfPaise rounds half up.
percentOfPaise(paise, percent) == (paise * percent + 50) \div 100
splitFare(gross, percent) ==
  LET commission == percentOfPaise(gross, percent) IN
  [commission |-> commission, net |-> gross - commission]

-----------------------------------------------------------------------------
(* The ledger.                                                             *)

At(q, pc) == payout[q].pc = pc
Goes(q, r) == payout' = [payout EXCEPT ![q] = r]

\* promoteMatured, which every read of the ledger runs first: lines whose hold is over.
PromoteMatured ==
  /\ \E M \in SUBSET {l \in Lines : line[l].status = "PENDING"} :
       /\ M # {}
       /\ line' = [l \in Lines |-> IF l \in M THEN [line[l] EXCEPT !.status = "AVAILABLE"] ELSE line[l]]
  /\ UNCHANGED <<adj, payout>>

\* recordRefundClawback: a processed refund leaves an adjustment, also of a paid line.
Clawback(a) ==
  /\ adj[a].status = None
  /\ adj' = [adj EXCEPT ![a].status = "OUTSTANDING"]
  /\ UNCHANGED <<line, payout>>

Waivable(a) == adj[a].status = "OUTSTANDING"

WaiveAdjustment(a) ==
  /\ Waivable(a)
  /\ adj' = [adj EXCEPT ![a].status = "WAIVED"]
  /\ UNCHANGED <<line, payout>>

-----------------------------------------------------------------------------
(* createPayout(); markPaid is a payout of one line.                       *)

\* Every line that is listed must be AVAILABLE when the request arrives.
CheckLines(q) ==
  /\ At(q, "new")
  /\ \E S \in Asked :
       /\ \A l \in S : line[l].status = "AVAILABLE"
       /\ Goes(q, [New EXCEPT !.pc = "flip", !.lines = S, !.todo = S, !.amount = NetOf(S)])
  /\ UNCHANGED <<line, adj>>

Payable(l) == line[l].status = "AVAILABLE"

FlipLine(q) ==
  /\ At(q, "flip")
  /\ \E l \in payout[q].todo :
       /\ line' = IF Payable(l) THEN [line EXCEPT ![l] = [status |-> "PAID", payout |-> q]] ELSE line
       /\ Goes(q, [payout[q] EXCEPT !.todo = @ \ {l},
                                    !.pc = IF payout[q].todo = {l} THEN "settled" ELSE "flip"])
  /\ UNCHANGED adj

\* (A bug: what was listed is taken for what was settled.)
GrossListed(q) == NetOf(payout[q].lines)
\* What this payout did flip; without a line the payout is withdrawn.
GrossSettled(q) == NetOf(LinesOf(q))

ReadSettled(q) ==
  /\ At(q, "settled")
  /\ Goes(q, IF LinesOf(q) = {}
               THEN [New EXCEPT !.pc = "withdrawn"]
               ELSE [payout[q] EXCEPT !.pc = "pick", !.lines = LinesOf(q), !.gross = GrossSettled(q)])
  /\ UNCHANGED <<line, adj>>

\* Oldest first, whole adjustments that still fit.
PickDeductions(outstanding, gross) ==
  LET picked[a \in 0..Cardinality(Adjs)] ==
        IF a = 0 THEN {}
        ELSE LET before == picked[a - 1] IN
             IF a \in outstanding /\ OwedOf(before) + Owed[a] <= gross THEN before \cup {a} ELSE before
  IN picked[Cardinality(Adjs)]

Pick(q) ==
  /\ At(q, "pick")
  /\ LET picked == PickDeductions(Outstanding, payout[q].gross) IN
     Goes(q, [payout[q] EXCEPT !.pc = IF picked = {} THEN "save" ELSE "recover",
                               !.picked = picked, !.todo = picked])
  /\ UNCHANGED <<line, adj>>

Recoverable(a) == adj[a].status = "OUTSTANDING"

Recover(q) ==
  /\ At(q, "recover")
  /\ \E a \in payout[q].todo :
       /\ adj' = IF Recoverable(a) THEN [adj EXCEPT ![a] = [status |-> "SETTLED", payout |-> q]] ELSE adj
       /\ Goes(q, [payout[q] EXCEPT !.todo = @ \ {a},
                                    !.pc = IF payout[q].todo = {a} THEN "recovered" ELSE "recover"])
  /\ UNCHANGED line

\* What this payout did recover.
ReadRecovered(q) ==
  /\ At(q, "recovered")
  /\ Goes(q, [payout[q] EXCEPT !.pc = "save", !.deduction = OwedOf(AdjsOf(q))])
  /\ UNCHANGED <<line, adj>>

SavePayout(q) ==
  /\ At(q, "save")
  /\ Goes(q, [payout[q] EXCEPT !.pc = "saved", !.amount = payout[q].gross - payout[q].deduction])
  /\ UNCHANGED <<line, adj>>

PayoutNext ==
  \/ PromoteMatured
  \/ \E a \in Adjs : Clawback(a) \/ WaiveAdjustment(a)
  \/ \E q \in Payouts :
       \/ CheckLines(q) \/ FlipLine(q) \/ ReadSettled(q) \/ Pick(q) \/ Recover(q)
       \/ ReadRecovered(q) \/ SavePayout(q)

Next ==
  \/ CommissionNext /\ UNCHANGED payoutVars
  \/ PayoutNext /\ UNCHANGED commissionVars

Spec == Init /\ [][Next]_<<commissionVars, payoutVars>>

-----------------------------------------------------------------------------
\* Type invariant: the history, the ledger and the payouts under way.
TypeOK ==
  /\ versions \subseteq CommissionConfig
  /\ now \in 0..MaxTime
  /\ \A a \in Admins : change[a].pc \in {"idle", "write"}
  /\ line \in [Lines -> DriverEarning] /\ adj \in [Adjs -> DriverEarningAdjustment]
  /\ \A q \in Payouts : [f \in {"lines", "picked", "gross", "deduction", "amount"} |-> payout[q][f]] \in DriverPayout

\* The moment a ride that completed at t takes its rate from: one that is older than the
\* history, the start of the earliest version.
RatedFrom(t) == IF Begun(t) = {} THEN InForce(t).from ELSE t

\* No change of the history, however it was timed, alters a rate that was taken from more
\* than the tolerance before the change was asked for: rides that had finished keep theirs,
\* paid or not ("history is not rewritable", commission.service.ts:32).  Rides older than
\* the history keep theirs from the tolerance after its start: until then a back-dated
\* version becomes the earliest one (:156).
Settled(t) == \A a \in Admins : change[a].pc = "write" => RatedFrom(t) < change[a].began - Tolerance
HistoryStandsStep == \A t \in 0..now : Settled(t) => InForce(t)'.value = InForce(t).value
HistoryStands == [][HistoryStandsStep]_commissionVars

\* A line has the rate in force when its ride completed, however long after that it was
\* paid, unless a version written since was back-dated onto that moment, or, for a ride
\* older than the history, before its start (earnings.service.ts:158).
CreditedAtCompletion ==
  \A r \in Rides, t \in 0..now :
    /\ credited[r].completed = t
    /\ \A v \in versions : v.from <= RatedFrom(t) => v.version = 1 \/ v.at < t
    => credited[r].rate = InForce(t).value

\* The driver's share and the commission add back up to the fare, and neither is negative.
SharesAddUp ==
  \A g \in Gross : \A p \in Rates :
    LET s == splitFare(g, p) IN s.commission + s.net = g /\ s.commission >= 0 /\ s.net >= 0

\* "Two admins paying the same line concurrently settle it exactly once, and the payout
\* records only what it settled" (earnings-admin.service.ts:358): the saved payouts
\* transfer the net of the lines that point at them less the clawbacks that do.
PayoutsAddUp ==
  \A q \in Payouts :
    At(q, "saved") =>
      /\ payout[q].gross = NetOf(LinesOf(q))
      /\ payout[q].amount = NetOf(LinesOf(q)) - OwedOf(AdjsOf(q))

\* The clawbacks recovered from a payout fit in it, so no payout is negative, whatever
\* was waived, clawed back or recovered elsewhere between the read and the update.
DeductionsFit == \A q \in Payouts : payout[q].deduction <= payout[q].gross

\* A clawback is settled or waived once: what one payout recovered, or an admin wrote
\* off, is not taken again or taken back.
SettledOnceStep == \A a \in Adjs : adj[a].status \in {"SETTLED", "WAIVED"} => adj'[a] = adj[a]
SettledOnce == [][SettledOnceStep]_payoutVars

-----------------------------------------------------------------------------
(* Proofs: the rates, for any number of changes, versions and rides.       *)

ClockIsNumber == Tolerance \in Nat /\ MaxTime \in Nat /\ Boot \in Nat

Version == [version : Nat, value : Rates, from : Nat, at : Nat, live : BOOLEAN]
\* The earliest live version; it has begun.
First(v) == v \in Live /\ v.from <= now /\ \A w \in Live : w # v => v.from < w.from

\* One version is the earliest; versions are numbered from 1; what has been judged starts
\* within the tolerance of when it was asked for; rides are credited once they are over.
HistoryBegins ==
  /\ now \in Nat /\ versions \subseteq Version
  /\ \E v \in Live : First(v)
  /\ \E n \in Nat \ {0} : {v.version : v \in versions} = 1..n
  /\ \A a \in Admins :
       change[a].pc = "write" =>
         /\ change[a].from \in Nat /\ change[a].value \in Rates /\ change[a].began \in Nat
         /\ change[a].from >= change[a].began - Tolerance
  /\ \A r \in Rides : credited[r] # NoLine => credited[r].completed \in 0..now
  /\ DOMAIN credited = Rides /\ DOMAIN change = Admins

\* The rate of a moment depends only on the live versions that had begun by then.
LEMMA SameInForce ==
  ASSUME NEW t, Begun(t)' = Begun(t), Begun(t) # {}
  PROVE  InForce(t)' = InForce(t)
  <1>1. InForce(t) = CHOOSE v \in Begun(t) : \A w \in Begun(t) : w.from <= v.from
    BY DEF InForce, Begun
  <1>2. InForce(t)' = CHOOSE v \in Begun(t)' : \A w \in Begun(t)' : w.from <= v.from
    BY DEF InForce, Begun
  <1> QED BY <1>1, <1>2

\* A moment before the history has the rate of the earliest version's start.
LEMMA BeforeTheFirst ==
  ASSUME HistoryBegins, NEW t \in 0..now, NEW v \in Live, First(v), Begun(t) = {}
  PROVE  InForce(t) = v /\ RatedFrom(t) = v.from /\ t < v.from /\ v.from \in 0..now
  <1>1. v \in Version /\ Live \subseteq Version
    BY DEF HistoryBegins, Live
  <1>2. ASSUME NEW w \in Live, \A x \in Live : w.from <= x.from
        PROVE  w = v
    BY <1>1, <1>2 DEF First, Version
  <1>3. \A w \in Live : v.from <= w.from
    BY <1>1 DEF First, Version
  <1>4. InForce(t) = v
    BY <1>2, <1>3 DEF InForce
  <1> QED BY <1>1, <1>4 DEF RatedFrom, Begun, First, Version, HistoryBegins

\* A rate is taken from a moment of the history.
LEMMA RatedWithin ==
  ASSUME HistoryBegins, NEW t \in 0..now
  PROVE  RatedFrom(t) \in 0..now
  <1>1. CASE Begun(t) = {}
    BY <1>1, BeforeTheFirst DEF HistoryBegins
  <1>2. CASE Begun(t) # {}
    BY <1>2 DEF RatedFrom
  <1> QED BY <1>1, <1>2

\* A step that leaves alone which versions had begun where a rate is taken from leaves the rate.
LEMMA RateStays ==
  ASSUME HistoryBegins, HistoryBegins', NEW t \in 0..now, now' >= now,
         NEW s, s = RatedFrom(t), Begun(s)' = Begun(s)
  PROVE  InForce(t)' = InForce(t) /\ RatedFrom(t)' = s
  <1>1. CASE Begun(t) # {}
    BY <1>1, SameInForce DEF RatedFrom
  <1>2. CASE Begun(t) = {}
    <2>1. PICK v \in Live : First(v)
      BY DEF HistoryBegins
    <2>2. InForce(t) = v /\ s = v.from /\ t < v.from
      BY <1>2, <2>1, BeforeTheFirst
    <2>3. Live \subseteq Version /\ Live' \subseteq Version
      BY DEF HistoryBegins, Live
    <2>4. Begun(s) = {v}
      BY <2>1, <2>2, <2>3 DEF Begun, First, Version
    <2>5. v \in Live' /\ \A w \in Live' : w # v => v.from < w.from
      BY <2>2, <2>3, <2>4 DEF Begun, Version
    <2>6. First(v)'
      BY <2>1, <2>3, <2>5 DEF First, Version, HistoryBegins
    <2>7. Begun(t)' = {}
      BY <2>2, <2>3, <2>5 DEF Begun, Version
    <2>8. t \in 0..now'
      BY DEF HistoryBegins
    <2>9. InForce(t)' = v /\ RatedFrom(t)' = v.from
      <3>1. v \in Version /\ \A w \in Live' : v.from <= w.from
        BY <2>3, <2>5 DEF Version
      <3>2. \A w \in Live' : (\A x \in Live' : w.from <= x.from) => w = v
        BY <2>3, <2>5 DEF Version
      <3>3. InForce(t)' = v
        BY <2>5, <2>7, <3>1, <3>2 DEF InForce
      <3> QED BY <2>7, <3>3 DEF RatedFrom
    <2> QED BY <2>2, <2>9
  <1> QED BY <1>1, <1>2

\* The next number is not the first.
LEMMA NextVersion ==
  ASSUME HistoryBegins
  PROVE  \E n \in Nat \ {0} : /\ {v.version : v \in versions} = 1..n
                              /\ Max({v.version : v \in versions}) = n
  <1>1. PICK n \in Nat \ {0} : {v.version : v \in versions} = 1..n
    BY DEF HistoryBegins
  <1>2. Max(1..n) = n
    <2>1. n \in 1..n /\ \A y \in 1..n : n >= y
      OBVIOUS
    <2>2. Max(1..n) \in 1..n /\ \A y \in 1..n : Max(1..n) >= y
      BY <2>1 DEF Max
    <2> QED BY <2>1, <2>2
  <1> QED BY <1>1, <1>2

\* What a write adds: nothing, or a version of the change that was judged.
LEMMA WriteAdds ==
  ASSUME HistoryBegins, NEW a \in Admins, WriteVersion(a)
  PROVE  \/ versions' = versions
         \/ \E v \in Version :
              /\ versions' = versions \cup {v}
              /\ v.version > 1 /\ v.at = now /\ v.from = change[a].from /\ v.live
              /\ \A w \in Live : w.from # v.from
              /\ \E n \in Nat \ {0} : {w.version : w \in versions'} = 1..n
  <1>1. CASE \E v \in Live : v.from = change[a].from
    BY <1>1 DEF WriteVersion
  <1>2. CASE ~\E v \in Live : v.from = change[a].from
    <2>1. PICK n \in Nat \ {0} : /\ {v.version : v \in versions} = 1..n
                                 /\ Max({v.version : v \in versions}) = n
      BY NextVersion
    <2> DEFINE v == [version |-> n + 1, value |-> change[a].value, from |-> change[a].from,
                     at |-> now, live |-> TRUE]
    <2>2. versions' = versions \cup {v}
      BY <1>2, <2>1 DEF WriteVersion
    <2>3. change[a].pc = "write"
      BY DEF WriteVersion
    <2>4. /\ v \in Version /\ v.version = n + 1 /\ v.at = now /\ v.from = change[a].from /\ v.live
      BY <2>3 DEF Version, HistoryBegins
    <2> HIDE DEF v
    <2>5. {w.version : w \in versions'} = 1..(n + 1)
      BY <2>1, <2>2, <2>4
    <2> QED BY <1>2, <2>2, <2>4, <2>5
  <1> QED BY <1>1, <1>2

\* What a withdrawal changes: a version that has not begun.
LEMMA WithdrawalChanges ==
  ASSUME HistoryBegins, CancelScheduled
  PROVE  \E v \in versions, w \in Version :
           /\ v.from > now /\ w.from = v.from /\ w.version = v.version /\ w.at = v.at /\ ~w.live
           /\ versions' = (versions \ {v}) \cup {w}
  <1>1. PICK v \in versions : /\ Withdrawable(v)
                              /\ versions' = (versions \ {v}) \cup {[v EXCEPT !.live = FALSE]}
    BY DEF CancelScheduled
  <1> DEFINE w == [v EXCEPT !.live = FALSE]
  <1>2. /\ w \in Version /\ w.from = v.from /\ w.version = v.version /\ w.at = v.at /\ ~w.live
    BY DEF Version, HistoryBegins
  <1>3. v.from > now
    BY <1>1 DEF Withdrawable
  <1>4. versions' = (versions \ {v}) \cup {w}
    BY <1>1
  <1> HIDE DEF w
  <1> QED BY <1>2, <1>3, <1>4

\* No step changes which versions had begun at a moment that is past, unless a version written
\* now starts there.
LEMMA BegunStays ==
  ASSUME HistoryBegins, NEW t \in 0..now,
         \/ \E a \in Admins : WriteVersion(a) /\ t < change[a].from
         \/ CancelScheduled
         \/ UNCHANGED versions
  PROVE  Begun(t)' = Begun(t)
  <1>1. ASSUME NEW a \in Admins, WriteVersion(a), t < change[a].from
        PROVE  Begun(t)' = Begun(t)
    <2>1. versions' = versions \/ \E v \in Version : /\ versions' = versions \cup {v}
                                                     /\ v.from = change[a].from
      BY <1>1, WriteAdds
    <2> QED BY <1>1, <2>1 DEF Begun, Live, HistoryBegins, Version
  <1>2. CASE CancelScheduled
    <2>1. PICK v \in versions, w \in Version :
            v.from > now /\ ~w.live /\ versions' = (versions \ {v}) \cup {w}
      BY <1>2, WithdrawalChanges
    <2> QED BY <2>1 DEF Begun, Live, HistoryBegins, Version
  <1>3. CASE UNCHANGED versions
    BY <1>3 DEF Begun, Live
  <1> QED BY <1>1, <1>2, <1>3

\* A version that is written becomes the earliest one, or leaves it the earliest.
LEMMA FirstWritten ==
  ASSUME HistoryBegins, NEW a \in Admins, WriteVersion(a)
  PROVE  \E x \in Live' : First(x)'
  <1>1. now' = now
    BY DEF WriteVersion
  <1>2. PICK x \in Live : First(x)
    BY DEF HistoryBegins
  <1>3. CASE versions' = versions
    BY <1>1, <1>2, <1>3 DEF First, Live
  <1>4. CASE versions' # versions
    <2>1. PICK v \in Version : /\ versions' = versions \cup {v} /\ v.live
                               /\ \A w \in Live : w.from # v.from
      BY <1>4, WriteAdds
    <2>2. Live' = Live \cup {v} /\ Live \subseteq Version
      BY <2>1 DEF Live, HistoryBegins
    <2>3. CASE v.from < x.from
      <3>1. \A w \in Live' : w # v => v.from < w.from
        BY <1>2, <2>1, <2>2, <2>3 DEF First, Version
      <3> QED BY <1>1, <1>2, <2>1, <2>2, <2>3, <3>1 DEF First, Version, HistoryBegins
    <2>4. CASE ~(v.from < x.from)
      <3>1. x.from < v.from
        BY <1>2, <2>1, <2>2, <2>4 DEF Version
      <3> QED BY <1>1, <1>2, <2>2, <3>1 DEF First
    <2> QED BY <2>3, <2>4
  <1> QED BY <1>3, <1>4

\* The earliest version has begun, so it is not withdrawn.
LEMMA FirstKept ==
  ASSUME HistoryBegins, CancelScheduled
  PROVE  \E x \in Live' : First(x)'
  <1>1. now' = now
    BY DEF CancelScheduled
  <1>2. PICK x \in Live : First(x)
    BY DEF HistoryBegins
  <1>3. PICK v \in versions, w \in Version :
          v.from > now /\ ~w.live /\ versions' = (versions \ {v}) \cup {w}
    BY WithdrawalChanges
  <1>4. x # v
    BY <1>2, <1>3 DEF First, Live, HistoryBegins, Version
  <1>5. x \in Live' /\ Live' \subseteq Live
    BY <1>2, <1>3, <1>4 DEF Live
  <1> QED BY <1>1, <1>2, <1>5 DEF First

LEMMA HistoryStep ==
  ASSUME ClockIsNumber, HistoryBegins, CommissionNext
  PROVE  HistoryBegins'
  <1>1. ASSUME NEW a \in Admins, CheckChange(a)
        PROVE  HistoryBegins'
    <2>1. PICK from \in 0..MaxTime, value \in Rates :
            /\ MayStart(from)
            /\ change' = [change EXCEPT ![a] = [pc |-> "write", from |-> from, value |-> value, began |-> now]]
      BY <1>1 DEF CheckChange
    <2>2. UNCHANGED <<versions, now, credited>>
      BY <1>1 DEF CheckChange
    <2>3. \A b \in Admins : change'[b].pc = "write" =>
            /\ change'[b].from \in Nat /\ change'[b].value \in Rates /\ change'[b].began \in Nat
            /\ change'[b].from >= change'[b].began - Tolerance
      BY <2>1 DEF HistoryBegins, MayStart
    <2>4. DOMAIN change' = Admins
      BY <2>1 DEF HistoryBegins
    <2> QED BY <2>2, <2>3, <2>4 DEF HistoryBegins, First, Live
  <1>2. ASSUME NEW a \in Admins, WriteVersion(a)
        PROVE  HistoryBegins'
    <2>1. UNCHANGED <<now, credited>> /\ change' = [change EXCEPT ![a] = Resting]
      BY <1>2 DEF WriteVersion
    <2>2. \A b \in Admins : change'[b].pc = "write" => change'[b] = change[b]
      BY <2>1 DEF HistoryBegins, Resting
    <2>3. DOMAIN change' = Admins
      BY <2>1 DEF HistoryBegins
    <2>4. /\ versions' \subseteq Version
          /\ \E n \in Nat \ {0} : {w.version : w \in versions'} = 1..n
      BY <1>2, WriteAdds DEF HistoryBegins
    <2>5. \E x \in Live' : First(x)'
      BY <1>2, FirstWritten
    <2> QED BY <2>1, <2>2, <2>3, <2>4, <2>5 DEF HistoryBegins
  <1>3. CASE CancelScheduled
    <2>1. PICK v \in versions, w \in Version :
            /\ v.from > now /\ w.version = v.version
            /\ versions' = (versions \ {v}) \cup {w}
      BY <1>3, WithdrawalChanges
    <2>2. UNCHANGED <<now, change, credited>>
      BY <1>3 DEF CancelScheduled
    <2>3. {x.version : x \in versions'} = {x.version : x \in versions}
      BY <2>1
    <2>4. versions' \subseteq Version
      BY <2>1 DEF HistoryBegins
    <2>5. \E x \in Live' : First(x)'
      BY <1>3, FirstKept
    <2> QED BY <2>2, <2>3, <2>4, <2>5 DEF HistoryBegins
  <1>4. ASSUME NEW r \in Rides, NEW t \in 0..MaxTime, Credit(r, t)
        PROVE  HistoryBegins'
    <2>1. UNCHANGED <<versions, now, change>> /\ t <= now
      BY <1>4 DEF Credit
    <2>2. /\ DOMAIN credited' = Rides
          /\ \A q \in Rides : q # r => credited'[q] = credited[q]
          /\ credited'[r].completed = t
      BY <1>4 DEF Credit, HistoryBegins
    <2> QED BY <2>1, <2>2 DEF HistoryBegins, First, Live
  <1>5. CASE Tick
    <2>1. now' = now + 1 /\ UNCHANGED <<versions, change, credited>>
      BY <1>5 DEF Tick
    <2>2. \A x \in Live : First(x) => First(x)'
      BY <2>1 DEF First, Live, HistoryBegins, Version
    <2> QED BY <2>1, <2>2 DEF HistoryBegins, Live
  <1> QED BY <1>1, <1>2, <1>3, <1>4, <1>5 DEF CommissionNext

\* A change of the history leaves every moment alone that is settled.
LEMMA StandsStep ==
  ASSUME ClockIsNumber, HistoryBegins, CommissionNext
  PROVE  HistoryStandsStep
  <1> SUFFICES ASSUME NEW t \in 0..now, Settled(t)
               PROVE  InForce(t)'.value = InForce(t).value
    BY DEF HistoryStandsStep
  <1>1. RatedFrom(t) \in 0..now
    BY RatedWithin
  <1>2. PICK m \in 0..now : m = RatedFrom(t)
    BY <1>1
  <1>3. Begun(m)' = Begun(m)
    <2>1. ASSUME NEW a \in Admins, WriteVersion(a)
          PROVE  m < change[a].from
      BY <1>2, <2>1 DEF WriteVersion, Settled, HistoryBegins, ClockIsNumber
    <2>2. ~(\E a \in Admins : WriteVersion(a)) => CancelScheduled \/ UNCHANGED versions
      BY DEF CommissionNext, CheckChange, Credit, Tick
    <2> QED BY <2>1, <2>2, BegunStays
  <1>4. HistoryBegins' /\ now' >= now
    BY HistoryStep DEF CommissionNext, CheckChange, WriteVersion, CancelScheduled, Credit, Tick,
                       HistoryBegins
  <1>5. InForce(t)' = InForce(t)
    BY <1>2, <1>3, <1>4, RateStays
  <1> QED BY <1>5

\* A version that starts no later than where a rate is taken from still does once it is written.
LEMMA WrittenBefore ==
  ASSUME HistoryBegins, HistoryBegins', now' = now, NEW t \in 0..now, NEW v \in Version,
         v.live, versions' = versions \cup {v}, v.from <= RatedFrom(t)
  PROVE  v.from <= RatedFrom(t)'
  <1>1. Live' = Live \cup {v} /\ Live' \subseteq Version
    BY DEF Live, HistoryBegins
  <1>2. CASE Begun(t)' # {}
    <2>1. RatedFrom(t)' = t
      BY <1>2 DEF RatedFrom
    <2>2. CASE Begun(t) # {}
      BY <2>1, <2>2 DEF RatedFrom
    <2>3. CASE Begun(t) = {}
      BY <1>1, <1>2, <2>1, <2>3 DEF Begun
    <2> QED BY <2>2, <2>3
  <1>3. CASE Begun(t)' = {}
    <2>1. Begun(t) = {}
      BY <1>1, <1>3 DEF Begun
    <2>2. PICK x \in Live : First(x)
      BY DEF HistoryBegins
    <2>3. RatedFrom(t) = x.from
      BY <2>1, <2>2, BeforeTheFirst
    <2>4. PICK y \in Live' : First(y)'
      BY DEF HistoryBegins
    <2>5. RatedFrom(t)' = y.from
      <3>1. \A w \in Live' : y.from <= w.from
        BY <1>1, <2>4 DEF First, Version
      <3>2. ASSUME NEW w \in Live', \A z \in Live' : w.from <= z.from
            PROVE  w = y
        BY <1>1, <2>4, <3>2 DEF First, Version
      <3>3. InForce(t)' = y
        BY <1>3, <3>1, <3>2 DEF InForce
      <3> QED BY <1>3, <3>3 DEF RatedFrom
    <2>6. y = v \/ y = x
      BY <1>1, <2>2, <2>4 DEF First, Version
    <2> QED BY <1>1, <2>3, <2>5, <2>6 DEF Version
  <1> QED BY <1>2, <1>3

\* A ride that was credited keeps the rate of its completion as long as nothing is back-dated
\* onto it, or before the history.
LEMMA CreditedStep ==
  ASSUME ClockIsNumber, HistoryBegins, CreditedAtCompletion, CommissionNext
  PROVE  CreditedAtCompletion'
  <1>0. HistoryBegins'
    BY HistoryStep
  <1> SUFFICES ASSUME NEW r \in Rides, NEW c \in 0..now', credited'[r].completed = c,
                      \A v \in versions' : v.from <= RatedFrom(c)' => v.version = 1 \/ v.at < c
               PROVE  credited'[r].rate = InForce(c)'.value
    BY DEF CreditedAtCompletion
  <1>a. credited'[r] # NoLine
    BY <1>0 DEF NoLine, HistoryBegins
  <1>1. CASE credited[r] # NoLine /\ credited'[r] = credited[r]
    <2>1. c \in 0..now /\ now \in Nat
      BY <1>1 DEF HistoryBegins
    <2>2. PICK m \in 0..now : m = RatedFrom(c)
      BY <2>1, RatedWithin
    <2>3. /\ Begun(m)' = Begun(m)
          /\ \A v \in versions : v.from <= m => v \in versions'
      <3>1. ASSUME NEW a \in Admins, WriteVersion(a)
            PROVE  \/ versions' = versions
                   \/ m < change[a].from /\ versions \subseteq versions'
        <4>1. CASE versions' # versions
          <5>1. PICK v \in Version :
                  /\ versions' = versions \cup {v}
                  /\ v.version > 1 /\ v.at = now /\ v.from = change[a].from /\ v.live
            BY <3>1, <4>1, WriteAdds
          <5>2. now' = now
            BY <3>1 DEF WriteVersion
          <5>3. ~(v.from <= m)
            <6> SUFFICES ASSUME v.from <= m PROVE FALSE
              OBVIOUS
            <6>1. v.from <= RatedFrom(c)'
              BY <1>0, <2>1, <2>2, <5>1, <5>2, WrittenBefore
            <6>2. v.version = 1 \/ v.at < c
              BY <5>1, <6>1
            <6> QED BY <2>1, <5>1, <6>2 DEF Version
          <5> QED BY <2>2, <5>1, <5>3 DEF Version
        <4> QED BY <4>1
      <3>2. CASE \E a \in Admins : WriteVersion(a)
        BY <3>1, <3>2, BegunStays
      <3>3. CASE CancelScheduled
        <4>1. PICK v \in versions, w \in Version :
                /\ v.from > now /\ versions' = (versions \ {v}) \cup {w}
          BY <3>3, WithdrawalChanges
        <4>2. \A x \in versions : x.from <= m => x \in versions'
          BY <2>1, <4>1 DEF HistoryBegins, Version
        <4> QED BY <3>3, <4>2, BegunStays
      <3>4. CASE UNCHANGED versions
        BY <3>4, BegunStays
      <3> QED BY <3>2, <3>3, <3>4 DEF CommissionNext, CheckChange, Credit, Tick
    <2>4. now' >= now
      BY <2>1 DEF CommissionNext, CheckChange, WriteVersion, CancelScheduled, Credit, Tick
    <2>5. InForce(c)' = InForce(c) /\ RatedFrom(c)' = m
      BY <1>0, <2>1, <2>2, <2>3, <2>4, RateStays
    <2>6. credited[r].rate = InForce(c).value
      <3>1. \A v \in versions : v.from <= RatedFrom(c) => v.version = 1 \/ v.at < c
        BY <2>2, <2>3, <2>5
      <3>2. credited[r].completed = c
        BY <1>1
      <3> QED BY <2>1, <3>1, <3>2 DEF CreditedAtCompletion
    <2> QED BY <1>1, <2>5, <2>6
  <1>2. CASE ~(credited[r] # NoLine /\ credited'[r] = credited[r])
    <2>1. PICK t \in 0..MaxTime : Credit(r, t)
      BY <1>a, <1>2 DEF CommissionNext, CheckChange, WriteVersion, CancelScheduled, Credit, Tick, HistoryBegins
    <2>2. credited'[r] = [completed |-> t, rate |-> InForce(t).value] /\ versions' = versions
      BY <2>1 DEF Credit, HistoryBegins
    <2>3. c = t /\ InForce(c)' = InForce(c)
      BY <2>2 DEF InForce, Begun, Live
    <2> QED BY <2>2, <2>3
  <1> QED BY <1>1, <1>2

PayoutStep(q) ==
  \/ CheckLines(q) \/ FlipLine(q) \/ ReadSettled(q) \/ Pick(q) \/ Recover(q)
  \/ ReadRecovered(q) \/ SavePayout(q)

-----------------------------------------------------------------------------
(* Proofs: the payouts, for any number of lines, clawbacks and payouts.    *)

\* No clawback owes nothing: the one sum whose value the proofs need.
LEMMA NothingOwed == OwedOf({}) = 0
  <1> DEFINE Sums(iter) ==
               iter = [s \in SUBSET {} |-> IF s = {} THEN 0
                        ELSE Owed[CHOOSE x \in s : TRUE] + iter[s \ {CHOOSE x \in s : TRUE}]]
  <1>1. OwedOf({}) = (CHOOSE iter : Sums(iter))[{}]
    BY Zenon DEF OwedOf, MapThenSumSet, MapThenFoldSet
  <1>2. Sums([s \in SUBSET {} |-> 0])
    OBVIOUS
  <1>3. Sums(CHOOSE iter : Sums(iter))
    <2> HIDE DEF Sums
    <2> QED BY <1>2
  <1> QED BY <1>1, <1>3

\* A line points to a payout once it is paid, a clawback once it is settled.
PointersAreFinal ==
  /\ line \in [Lines -> DriverEarning] /\ adj \in [Adjs -> DriverEarningAdjustment]
  /\ \A l \in Lines : line[l].status # "PAID" => line[l].payout = None
  /\ \A a \in Adjs : adj[a].status # "SETTLED" => adj[a].payout = None

\* A payout under way has its label and its amounts.
Slip(p) == {"pc", "gross", "deduction", "amount"} \subseteq DOMAIN p

\* What a payout has read is what points to it: nothing is added to its lines once it has read
\* them, nor to its clawbacks once it has read those.
Agrees(q) ==
  LET p == payout[q] IN
  /\ Slip(p)
  /\ p.pc \in {"new", "flip", "settled", "withdrawn", "pick"} => AdjsOf(q) = {}
  /\ p.pc \in {"new", "flip", "settled", "pick"} => p.deduction = 0
  /\ p.pc \in {"pick", "recover", "recovered", "save", "saved"} => p.gross = NetOf(LinesOf(q))
  /\ p.pc \in {"save", "saved"} => p.deduction = OwedOf(AdjsOf(q))
  /\ p.pc = "saved" => p.amount = p.gross - p.deduction
PayoutsAgree == DOMAIN payout = Payouts /\ \A q \in Payouts : Agrees(q)

LEMMA PointersStep ==
  ASSUME None \notin Payouts, PointersAreFinal, PayoutNext
  PROVE  PointersAreFinal'
  <1> USE DEF PointersAreFinal, DriverEarning, DriverEarningAdjustment, EarningStatus,
              AdjustmentStatus
  <1>1. CASE PromoteMatured
    BY <1>1 DEF PromoteMatured
  <1>2. ASSUME NEW a \in Adjs, Clawback(a) \/ WaiveAdjustment(a)
        PROVE  PointersAreFinal'
    <2>1. PICK status \in {"OUTSTANDING", "WAIVED"} : adj' = [adj EXCEPT ![a].status = status]
      BY <1>2 DEF Clawback, WaiveAdjustment
    <2>2. adj[a].payout = None
      BY <1>2 DEF Clawback, WaiveAdjustment, Waivable, None
    <2> DEFINE c == [adj[a] EXCEPT !.status = status]
    <2>3. c \in DriverEarningAdjustment /\ c.payout = None
      BY <2>2
    <2>4. adj' = [adj EXCEPT ![a] = c] /\ UNCHANGED line
      BY <1>2, <2>1 DEF Clawback, WaiveAdjustment
    <2> HIDE DEF c
    <2> QED BY <2>3, <2>4
  <1>3. ASSUME NEW q \in Payouts, FlipLine(q)
        PROVE  PointersAreFinal'
    <2>1. PICK l : line' = IF Payable(l) THEN [line EXCEPT ![l] = [status |-> "PAID", payout |-> q]]
                           ELSE line
      BY <1>3 DEF FlipLine
    <2> DEFINE c == [status |-> "PAID", payout |-> q]
    <2>2. c \in DriverEarning /\ c.status = "PAID"
      OBVIOUS
    <2>3. line' = [line EXCEPT ![l] = c] \/ line' = line
      BY <2>1
    <2>4. UNCHANGED adj
      BY <1>3 DEF FlipLine
    <2> HIDE DEF c
    <2> QED BY <2>2, <2>3, <2>4
  <1>4. ASSUME NEW q \in Payouts, Recover(q)
        PROVE  PointersAreFinal'
    <2>1. PICK a : adj' = IF Recoverable(a) THEN [adj EXCEPT ![a] = [status |-> "SETTLED", payout |-> q]]
                          ELSE adj
      BY <1>4 DEF Recover
    <2> DEFINE c == [status |-> "SETTLED", payout |-> q]
    <2>2. c \in DriverEarningAdjustment /\ c.status = "SETTLED"
      OBVIOUS
    <2>3. adj' = [adj EXCEPT ![a] = c] \/ adj' = adj
      BY <2>1
    <2>4. UNCHANGED line
      BY <1>4 DEF Recover
    <2> HIDE DEF c
    <2> QED BY <2>2, <2>3, <2>4
  <1>5. ASSUME NEW q \in Payouts,
               CheckLines(q) \/ ReadSettled(q) \/ Pick(q) \/ ReadRecovered(q) \/ SavePayout(q)
        PROVE  PointersAreFinal'
    BY <1>5 DEF CheckLines, ReadSettled, Pick, ReadRecovered, SavePayout
  <1> QED BY <1>1, <1>2, <1>3, <1>4, <1>5 DEF PayoutNext

\* Only the payout itself adds to its lines and to its clawbacks.
LEMMA LinesKept ==
  ASSUME PointersAreFinal, PayoutNext, NEW q \in Payouts, None \notin Payouts, ~FlipLine(q)
  PROVE  LinesOf(q)' = LinesOf(q)
  <1> USE DEF PointersAreFinal, DriverEarning, EarningStatus, LinesOf
  <1>1. CASE PromoteMatured
    BY <1>1 DEF PromoteMatured
  <1>2. CASE UNCHANGED line
    BY <1>2
  <1>3. ASSUME NEW r \in Payouts, FlipLine(r), r # q
        PROVE  LinesOf(q)' = LinesOf(q)
    <2>1. PICK l : line' = IF Payable(l) THEN [line EXCEPT ![l] = [status |-> "PAID", payout |-> r]]
                           ELSE line
      BY <1>3 DEF FlipLine
    <2>2. \A k \in Lines : line'[k].payout = q <=> line[k].payout = q
      BY <1>3, <2>1 DEF Payable
    <2> QED BY <2>2
  <1> QED BY <1>1, <1>2, <1>3 DEF PayoutNext, Clawback, WaiveAdjustment, CheckLines, ReadSettled, Pick,
                                  Recover, ReadRecovered, SavePayout

LEMMA AdjsKept ==
  ASSUME PointersAreFinal, PayoutNext, NEW q \in Payouts, None \notin Payouts, ~Recover(q)
  PROVE  AdjsOf(q)' = AdjsOf(q)
  <1> USE DEF PointersAreFinal, DriverEarningAdjustment, AdjustmentStatus, AdjsOf
  <1>1. ASSUME NEW a \in Adjs, Clawback(a) \/ WaiveAdjustment(a)
        PROVE  AdjsOf(q)' = AdjsOf(q)
    <2>1. \A b \in Adjs : adj'[b].payout = adj[b].payout
      BY <1>1 DEF Clawback, WaiveAdjustment
    <2> QED BY <2>1
  <1>2. CASE UNCHANGED adj
    BY <1>2
  <1>3. ASSUME NEW r \in Payouts, Recover(r), r # q
        PROVE  AdjsOf(q)' = AdjsOf(q)
    <2>1. PICK a : adj' = IF Recoverable(a) THEN [adj EXCEPT ![a] = [status |-> "SETTLED", payout |-> r]]
                          ELSE adj
      BY <1>3 DEF Recover
    <2>2. \A b \in Adjs : adj'[b].payout = q <=> adj[b].payout = q
      BY <1>3, <2>1 DEF Recoverable
    <2> QED BY <2>2
  <1> QED BY <1>1, <1>2, <1>3 DEF PayoutNext, PromoteMatured, CheckLines, FlipLine, ReadSettled, Pick,
                                  ReadRecovered, SavePayout

\* Payout q goes on at a label, with its amounts; the others rest.
Gets(q, pc, gross, deduction, amount) ==
  /\ DOMAIN payout' = Payouts /\ \A r \in Payouts : r # q => payout'[r] = payout[r]
  /\ Slip(payout'[q]) /\ payout'[q].pc = pc /\ payout'[q].gross = gross
  /\ payout'[q].deduction = deduction /\ payout'[q].amount = amount

LEMMA GoesGets ==
  ASSUME DOMAIN payout = Payouts, NEW q \in Payouts, NEW p, Slip(p), Goes(q, p)
  PROVE  Gets(q, p.pc, p.gross, p.deduction, p.amount)
  <1>1. payout'[q] = p
    BY DEF Goes
  <1>2. DOMAIN payout' = Payouts /\ \A r \in Payouts : r # q => payout'[r] = payout[r]
    BY DEF Goes
  <1> QED BY <1>1, <1>2 DEF Gets

LEMMA NewIsSlip ==
  Slip(New) /\ New.pc = "new" /\ New.gross = 0 /\ New.deduction = 0 /\ New.amount = 0
  BY DEF Slip, New

\* The amounts of a payout, action by action.
LEMMA PayoutMoves ==
  ASSUME PayoutsAgree, NEW q \in Payouts
  PROVE  /\ CheckLines(q) => \E amount : Gets(q, "flip", 0, 0, amount)
         /\ FlipLine(q) => \E pc \in {"flip", "settled"} :
              Gets(q, pc, payout[q].gross, payout[q].deduction, payout[q].amount)
         /\ ReadSettled(q) =>
              \/ Gets(q, "withdrawn", 0, 0, 0)
              \/ Gets(q, "pick", NetOf(LinesOf(q)), payout[q].deduction, payout[q].amount)
         /\ Pick(q) => \E pc \in {"save", "recover"} :
              Gets(q, pc, payout[q].gross, payout[q].deduction, payout[q].amount)
         /\ Recover(q) => \E pc \in {"recover", "recovered"} :
              Gets(q, pc, payout[q].gross, payout[q].deduction, payout[q].amount)
         /\ ReadRecovered(q) => Gets(q, "save", payout[q].gross, OwedOf(AdjsOf(q)), payout[q].amount)
         /\ SavePayout(q) => Gets(q, "saved", payout[q].gross, payout[q].deduction,
                                  payout[q].gross - payout[q].deduction)
  <1>0. DOMAIN payout = Payouts /\ Slip(payout[q])
    BY DEF PayoutsAgree, Agrees
  <1>1. ASSUME CheckLines(q) PROVE \E amount : Gets(q, "flip", 0, 0, amount)
    <2>1. PICK S \in Asked :
            Goes(q, [New EXCEPT !.pc = "flip", !.lines = S, !.todo = S, !.amount = NetOf(S)])
      BY <1>1 DEF CheckLines
    <2> DEFINE p == [New EXCEPT !.pc = "flip", !.lines = S, !.todo = S, !.amount = NetOf(S)]
    <2>2. Slip(p) /\ p.pc = "flip" /\ p.gross = 0 /\ p.deduction = 0
      BY DEF New, Slip
    <2>3. Goes(q, p)
      BY <2>1
    <2> HIDE DEF p
    <2>4. Gets(q, p.pc, p.gross, p.deduction, p.amount)
      BY <1>0, <2>2, <2>3, GoesGets
    <2> QED BY <2>2, <2>4
  <1>2. ASSUME FlipLine(q)
        PROVE  \E pc \in {"flip", "settled"} :
                 Gets(q, pc, payout[q].gross, payout[q].deduction, payout[q].amount)
    <2>1. PICK l : Goes(q, [payout[q] EXCEPT !.todo = @ \ {l},
                                             !.pc = IF payout[q].todo = {l} THEN "settled" ELSE "flip"])
      BY <1>2 DEF FlipLine
    <2> DEFINE p == [payout[q] EXCEPT !.todo = @ \ {l},
                                      !.pc = IF payout[q].todo = {l} THEN "settled" ELSE "flip"]
    <2>2. /\ Slip(p) /\ p.pc \in {"flip", "settled"} /\ p.gross = payout[q].gross
          /\ p.deduction = payout[q].deduction /\ p.amount = payout[q].amount
      BY <1>0 DEF Slip
    <2>3. Goes(q, p)
      BY <2>1
    <2> HIDE DEF p
    <2>4. Gets(q, p.pc, p.gross, p.deduction, p.amount)
      BY <1>0, <2>2, <2>3, GoesGets
    <2> QED BY <2>2, <2>4
  <1>3. ASSUME ReadSettled(q)
        PROVE  \/ Gets(q, "withdrawn", 0, 0, 0)
               \/ Gets(q, "pick", NetOf(LinesOf(q)), payout[q].deduction, payout[q].amount)
    <2> DEFINE w == [New EXCEPT !.pc = "withdrawn"]
               p == [payout[q] EXCEPT !.pc = "pick", !.lines = LinesOf(q), !.gross = GrossSettled(q)]
    <2>1. Slip(w) /\ w.pc = "withdrawn" /\ w.gross = 0 /\ w.deduction = 0 /\ w.amount = 0
      BY DEF New, Slip
    <2>2. /\ Slip(p) /\ p.pc = "pick" /\ p.gross = NetOf(LinesOf(q))
          /\ p.deduction = payout[q].deduction /\ p.amount = payout[q].amount
      BY <1>0 DEF Slip, GrossSettled
    <2>3. Goes(q, w) \/ Goes(q, p)
      BY <1>3 DEF ReadSettled
    <2> HIDE DEF w, p
    <2>4. Gets(q, w.pc, w.gross, w.deduction, w.amount) \/ Gets(q, p.pc, p.gross, p.deduction, p.amount)
      BY <1>0, <2>1, <2>2, <2>3, GoesGets
    <2> QED BY <2>1, <2>2, <2>4
  <1>4. ASSUME Pick(q)
        PROVE  \E pc \in {"save", "recover"} :
                 Gets(q, pc, payout[q].gross, payout[q].deduction, payout[q].amount)
    <2>1. PICK picked : Goes(q, [payout[q] EXCEPT !.pc = IF picked = {} THEN "save" ELSE "recover",
                                                  !.picked = picked, !.todo = picked])
      BY <1>4 DEF Pick
    <2> DEFINE p == [payout[q] EXCEPT !.pc = IF picked = {} THEN "save" ELSE "recover",
                                      !.picked = picked, !.todo = picked]
    <2>2. /\ Slip(p) /\ p.pc \in {"save", "recover"} /\ p.gross = payout[q].gross
          /\ p.deduction = payout[q].deduction /\ p.amount = payout[q].amount
      BY <1>0 DEF Slip
    <2>3. Goes(q, p)
      BY <2>1
    <2> HIDE DEF p
    <2>4. Gets(q, p.pc, p.gross, p.deduction, p.amount)
      BY <1>0, <2>2, <2>3, GoesGets
    <2> QED BY <2>2, <2>4
  <1>5. ASSUME Recover(q)
        PROVE  \E pc \in {"recover", "recovered"} :
                 Gets(q, pc, payout[q].gross, payout[q].deduction, payout[q].amount)
    <2>1. PICK a : Goes(q, [payout[q] EXCEPT !.todo = @ \ {a},
                                             !.pc = IF payout[q].todo = {a} THEN "recovered" ELSE "recover"])
      BY <1>5 DEF Recover
    <2> DEFINE p == [payout[q] EXCEPT !.todo = @ \ {a},
                                      !.pc = IF payout[q].todo = {a} THEN "recovered" ELSE "recover"]
    <2>2. /\ Slip(p) /\ p.pc \in {"recover", "recovered"} /\ p.gross = payout[q].gross
          /\ p.deduction = payout[q].deduction /\ p.amount = payout[q].amount
      BY <1>0 DEF Slip
    <2>3. Goes(q, p)
      BY <2>1
    <2> HIDE DEF p
    <2>4. Gets(q, p.pc, p.gross, p.deduction, p.amount)
      BY <1>0, <2>2, <2>3, GoesGets
    <2> QED BY <2>2, <2>4
  <1>6. ASSUME ReadRecovered(q)
        PROVE  Gets(q, "save", payout[q].gross, OwedOf(AdjsOf(q)), payout[q].amount)
    <2> DEFINE p == [payout[q] EXCEPT !.pc = "save", !.deduction = OwedOf(AdjsOf(q))]
    <2>1. /\ Slip(p) /\ p.pc = "save" /\ p.gross = payout[q].gross
          /\ p.deduction = OwedOf(AdjsOf(q)) /\ p.amount = payout[q].amount
      BY <1>0 DEF Slip
    <2>2. Goes(q, p)
      BY <1>6 DEF ReadRecovered
    <2> HIDE DEF p
    <2>3. Gets(q, p.pc, p.gross, p.deduction, p.amount)
      BY <1>0, <2>1, <2>2, GoesGets
    <2> QED BY <2>1, <2>3
  <1>7. ASSUME SavePayout(q)
        PROVE  Gets(q, "saved", payout[q].gross, payout[q].deduction,
                    payout[q].gross - payout[q].deduction)
    <2> DEFINE p == [payout[q] EXCEPT !.pc = "saved", !.amount = payout[q].gross - payout[q].deduction]
    <2>1. /\ Slip(p) /\ p.pc = "saved" /\ p.gross = payout[q].gross
          /\ p.deduction = payout[q].deduction /\ p.amount = payout[q].gross - payout[q].deduction
      BY <1>0 DEF Slip
    <2>2. Goes(q, p)
      BY <1>7 DEF SavePayout
    <2> HIDE DEF p
    <2>3. Gets(q, p.pc, p.gross, p.deduction, p.amount)
      BY <1>0, <2>1, <2>2, GoesGets
    <2> QED BY <2>1, <2>3
  <1> QED BY <1>1, <1>2, <1>3, <1>4, <1>5, <1>6, <1>7

\* Any other step leaves payout q and what it has read alone.
LEMMA OthersRest ==
  ASSUME DOMAIN payout = Payouts, PayoutNext, NEW q \in Payouts, ~PayoutStep(q)
  PROVE  payout'[q] = payout[q] /\ DOMAIN payout' = Payouts
  <1>1. ASSUME NEW r \in Payouts, PayoutStep(r)
        PROVE  payout'[q] = payout[q] /\ DOMAIN payout' = Payouts
    <2>1. r # q
      BY <1>1
    <2>2. PICK p : Goes(r, p)
      BY <1>1 DEF PayoutStep, CheckLines, FlipLine, ReadSettled, Pick, Recover, ReadRecovered, SavePayout
    <2> QED BY <2>1, <2>2 DEF Goes
  <1>2. CASE UNCHANGED payout
    BY <1>2
  <1> QED BY <1>1, <1>2 DEF PayoutNext, PayoutStep, PromoteMatured, Clawback, WaiveAdjustment

LEMMA AgreesStep ==
  ASSUME None \notin Payouts, PointersAreFinal, PayoutsAgree, PayoutNext, NEW q \in Payouts
  PROVE  Agrees(q)' /\ DOMAIN payout' = Payouts
  <1>0. /\ Slip(payout[q]) /\ Agrees(q) /\ DOMAIN payout = Payouts
    BY DEF PayoutsAgree, Agrees
  <1>1. ~FlipLine(q) => LinesOf(q)' = LinesOf(q)
    BY <1>0, LinesKept
  <1>2. ~Recover(q) => AdjsOf(q)' = AdjsOf(q)
    BY <1>0, AdjsKept
  <1>3. CASE CheckLines(q)
    <2>1. payout[q].pc = "new"
      BY <1>3 DEF CheckLines, At
    <2>2. AdjsOf(q)' = {}
      BY <1>0, <1>2, <2>1 DEF Recover, At, Agrees
    <2>3. PICK amount : Gets(q, "flip", 0, 0, amount)
      BY <1>3, PayoutMoves
    <2> QED BY <2>2, <2>3 DEF Agrees, Gets
  <1>4. CASE FlipLine(q)
    <2>1. payout[q].pc = "flip"
      BY <1>4 DEF FlipLine, At
    <2>2. AdjsOf(q)' = {} /\ payout[q].deduction = 0
      BY <1>0, <1>2, <2>1 DEF Recover, At, Agrees
    <2>3. PICK pc \in {"flip", "settled"} :
            Gets(q, pc, payout[q].gross, payout[q].deduction, payout[q].amount)
      BY <1>4, PayoutMoves
    <2> QED BY <2>2, <2>3 DEF Agrees, Gets
  <1>5. CASE ReadSettled(q)
    <2>1. payout[q].pc = "settled"
      BY <1>5 DEF ReadSettled, At
    <2>2. AdjsOf(q)' = {} /\ payout[q].deduction = 0 /\ LinesOf(q)' = LinesOf(q)
      BY <1>0, <1>1, <1>2, <2>1 DEF Recover, FlipLine, At, Agrees
    <2>3. \/ Gets(q, "withdrawn", 0, 0, 0)
          \/ Gets(q, "pick", NetOf(LinesOf(q)), payout[q].deduction, payout[q].amount)
      BY <1>5, PayoutMoves
    <2> QED BY <2>2, <2>3 DEF Agrees, Gets
  <1>6. CASE Pick(q)
    <2>1. payout[q].pc = "pick"
      BY <1>6 DEF Pick, At
    <2>2. /\ AdjsOf(q)' = {} /\ payout[q].deduction = 0 /\ LinesOf(q)' = LinesOf(q)
          /\ payout[q].gross = NetOf(LinesOf(q))
      BY <1>0, <1>1, <1>2, <2>1 DEF Recover, FlipLine, At, Agrees
    <2>3. PICK pc \in {"save", "recover"} :
            Gets(q, pc, payout[q].gross, payout[q].deduction, payout[q].amount)
      BY <1>6, PayoutMoves
    <2> QED BY <2>2, <2>3, NothingOwed DEF Agrees, Gets
  <1>7. CASE Recover(q)
    <2>1. payout[q].pc = "recover"
      BY <1>7 DEF Recover, At
    <2>2. LinesOf(q)' = LinesOf(q) /\ payout[q].gross = NetOf(LinesOf(q))
      BY <1>0, <1>1, <2>1 DEF FlipLine, At, Agrees
    <2>3. PICK pc \in {"recover", "recovered"} :
            Gets(q, pc, payout[q].gross, payout[q].deduction, payout[q].amount)
      BY <1>7, PayoutMoves
    <2> QED BY <2>2, <2>3 DEF Agrees, Gets
  <1>8. CASE ReadRecovered(q)
    <2>1. payout[q].pc = "recovered"
      BY <1>8 DEF ReadRecovered, At
    <2>2. /\ LinesOf(q)' = LinesOf(q) /\ AdjsOf(q)' = AdjsOf(q)
          /\ payout[q].gross = NetOf(LinesOf(q))
      BY <1>0, <1>1, <1>2, <2>1 DEF FlipLine, Recover, At, Agrees
    <2>3. Gets(q, "save", payout[q].gross, OwedOf(AdjsOf(q)), payout[q].amount)
      BY <1>8, PayoutMoves
    <2> QED BY <2>2, <2>3 DEF Agrees, Gets
  <1>9. CASE SavePayout(q)
    <2>1. payout[q].pc = "save"
      BY <1>9 DEF SavePayout, At
    <2>2. /\ LinesOf(q)' = LinesOf(q) /\ AdjsOf(q)' = AdjsOf(q)
          /\ payout[q].gross = NetOf(LinesOf(q)) /\ payout[q].deduction = OwedOf(AdjsOf(q))
      BY <1>0, <1>1, <1>2, <2>1 DEF FlipLine, Recover, At, Agrees
    <2>3. Gets(q, "saved", payout[q].gross, payout[q].deduction,
               payout[q].gross - payout[q].deduction)
      BY <1>9, PayoutMoves
    <2> QED BY <2>2, <2>3 DEF Agrees, Gets
  <1>10. CASE ~PayoutStep(q)
    <2>1. payout'[q] = payout[q] /\ DOMAIN payout' = Payouts
      BY <1>0, <1>10, OthersRest
    <2>2. LinesOf(q)' = LinesOf(q) /\ AdjsOf(q)' = AdjsOf(q)
      BY <1>1, <1>2, <1>10 DEF PayoutStep
    <2> QED BY <1>0, <2>1, <2>2 DEF Agrees
  <1> QED BY <1>3, <1>4, <1>5, <1>6, <1>7, <1>8, <1>9, <1>10 DEF PayoutStep

\* A clawback that was settled or waived is left alone.
LEMMA SettledStep ==
  ASSUME PointersAreFinal, PayoutNext
  PROVE  SettledOnceStep
  <1> USE DEF PointersAreFinal
  <1> SUFFICES ASSUME NEW a \in Adjs, adj[a].status \in {"SETTLED", "WAIVED"}
               PROVE  adj'[a] = adj[a]
    BY DEF SettledOnceStep
  <1>1. ASSUME NEW b \in Adjs, Clawback(b) \/ WaiveAdjustment(b)
        PROVE  adj'[a] = adj[a]
    <2>1. b # a
      BY <1>1 DEF Clawback, WaiveAdjustment, Waivable, None
    <2> QED BY <1>1, <2>1 DEF Clawback, WaiveAdjustment
  <1>2. ASSUME NEW q \in Payouts, Recover(q)
        PROVE  adj'[a] = adj[a]
    <2>1. PICK b : adj' = IF Recoverable(b) THEN [adj EXCEPT ![b] = [status |-> "SETTLED", payout |-> q]]
                          ELSE adj
      BY <1>2 DEF Recover
    <2>2. Recoverable(b) => b # a
      BY DEF Recoverable
    <2> QED BY <2>1, <2>2
  <1>3. CASE UNCHANGED adj
    BY <1>3
  <1> QED BY <1>1, <1>2, <1>3 DEF PayoutNext, PromoteMatured, CheckLines, FlipLine, ReadSettled, Pick,
                                  ReadRecovered, SavePayout

LEMMA Begins == ClockIsNumber /\ Init => HistoryBegins /\ CreditedAtCompletion
  <1> SUFFICES ASSUME ClockIsNumber, Init
               PROVE  HistoryBegins /\ CreditedAtCompletion
    OBVIOUS
  <1>1. PICK r \in Rates, first \in 0..Boot :
          versions = {[version |-> 1, value |-> r, from |-> first, at |-> first, live |-> TRUE]}
    BY DEF Init, SeededVersions
  <1> DEFINE v == [version |-> 1, value |-> r, from |-> first, at |-> first, live |-> TRUE]
  <1>2. v \in Version /\ v.version = 1 /\ v.from <= Boot /\ v.live
    BY DEF Version, ClockIsNumber
  <1>3. versions = {v}
    BY <1>1
  <1> HIDE DEF v
  <1>4. Live = {v} /\ First(v)
    BY <1>2, <1>3 DEF Live, First, Init
  <1>5. {w.version : w \in versions} = 1..1
    BY <1>2, <1>3
  <1>6. \A a \in Admins : change[a].pc = "idle"
    BY DEF Init, Resting
  <1>7. \A r1 \in Rides : credited[r1] = NoLine /\ NoLine.completed = -1
    BY DEF Init, NoLine
  <1>8. CreditedAtCompletion
    BY <1>7 DEF CreditedAtCompletion, Init, ClockIsNumber
  <1> QED BY <1>2, <1>3, <1>4, <1>5, <1>6, <1>7, <1>8 DEF Init, HistoryBegins, ClockIsNumber

LEMMA BeginsEmpty == None \notin Payouts /\ Init => PointersAreFinal /\ PayoutsAgree
  <1> SUFFICES ASSUME None \notin Payouts, Init
               PROVE  PointersAreFinal /\ PayoutsAgree
    OBVIOUS
  <1>1. PointersAreFinal
    BY DEF Init, PointersAreFinal, DriverEarning, DriverEarningAdjustment, EarningStatus,
           AdjustmentStatus
  <1>2. \A q \in Payouts : AdjsOf(q) = {} /\ payout[q] = New
    BY DEF Init, AdjsOf
  <1>3. \A q \in Payouts : Agrees(q)
    BY <1>2, NewIsSlip DEF Agrees
  <1> QED BY <1>1, <1>3 DEF Init, PayoutsAgree

\* The bounds of the clock are numbers, and no payout has the name that stands for none.
LedgerAssumption == ClockIsNumber /\ None \notin Payouts

\* The inductive invariant of the rates and of the ledger.
EarningsInv == HistoryBegins /\ CreditedAtCompletion /\ PointersAreFinal /\ PayoutsAgree

LEMMA EarningsStep ==
  LedgerAssumption /\ EarningsInv /\ [Next]_<<commissionVars, payoutVars>> => EarningsInv'
  <1> SUFFICES ASSUME LedgerAssumption, EarningsInv, [Next]_<<commissionVars, payoutVars>>
               PROVE  EarningsInv'
    OBVIOUS
  <1> USE DEF EarningsInv, LedgerAssumption
  <1>1. CommissionNext => HistoryBegins' /\ CreditedAtCompletion'
    BY HistoryStep, CreditedStep
  <1>2. UNCHANGED commissionVars => HistoryBegins' /\ CreditedAtCompletion'
    <2> SUFFICES ASSUME UNCHANGED commissionVars
                 PROVE  HistoryBegins' /\ CreditedAtCompletion'
      OBVIOUS
    <2>1. HistoryBegins'
      BY DEF commissionVars, HistoryBegins, First, Live
    <2>2. ASSUME NEW t
          PROVE  InForce(t)' = InForce(t) /\ RatedFrom(t)' = RatedFrom(t)
      <3>1. Live' = Live /\ Begun(t)' = Begun(t)
        BY DEF commissionVars, Live, Begun
      <3>2. InForce(t)' = InForce(t)
        BY <3>1 DEF InForce
      <3> QED BY <3>1, <3>2 DEF RatedFrom
    <2>3. CreditedAtCompletion'
      BY <2>2 DEF commissionVars, CreditedAtCompletion
    <2> QED BY <2>1, <2>3
  <1>3. PayoutNext => PointersAreFinal' /\ PayoutsAgree'
    <2> SUFFICES ASSUME PayoutNext
                 PROVE  PointersAreFinal' /\ PayoutsAgree'
      OBVIOUS
    <2>1. PointersAreFinal'
      BY PointersStep
    <2>2. \A q \in Payouts : Agrees(q)' /\ DOMAIN payout' = Payouts
      BY AgreesStep
    <2>3. DOMAIN payout' = Payouts
      <3>1. Payouts = {} => payout' = payout
        BY DEF PayoutNext, PromoteMatured, Clawback, WaiveAdjustment
      <3> QED BY <2>2, <3>1 DEF PayoutsAgree
    <2> QED BY <2>1, <2>2, <2>3 DEF PayoutsAgree
  <1>4. UNCHANGED payoutVars => PointersAreFinal' /\ PayoutsAgree'
    <2> SUFFICES ASSUME UNCHANGED payoutVars
                 PROVE  PointersAreFinal' /\ PayoutsAgree'
      OBVIOUS
    <2>1. PointersAreFinal'
      BY DEF payoutVars, PointersAreFinal
    <2>2. \A q \in Payouts : LinesOf(q)' = LinesOf(q) /\ AdjsOf(q)' = AdjsOf(q)
      BY DEF payoutVars, LinesOf, AdjsOf
    <2>3. \A q \in Payouts : Agrees(q)'
      BY <2>2 DEF payoutVars, PayoutsAgree, Agrees
    <2> QED BY <2>1, <2>3 DEF payoutVars, PayoutsAgree
  <1> QED BY <1>1, <1>2, <1>3, <1>4 DEF Next

\* The invariant holds whatever admins change, record and waive at the same time: every action
\* of CommissionService, EarningsAdminService and promoteMatured keeps it.
THEOREM EarningsInvariance == ASSUME LedgerAssumption PROVE Spec => []EarningsInv
  <1>1. Init => EarningsInv
    BY Begins, BeginsEmpty DEF EarningsInv, LedgerAssumption
  <1>2. EarningsInv /\ [Next]_<<commissionVars, payoutVars>> => EarningsInv'
    BY EarningsStep
  <1> QED BY <1>1, <1>2, PTL DEF Spec

\* A ride keeps the commission rate that was in force when it completed, however its credit was
\* delayed and whatever versions admins appended or withdrew since, unless one was back-dated
\* onto that moment, or before the start of the history the ride is older than
\* (CommissionService.update and resolve, EarningsService.recordForPayment).
THEOREM RidesKeepTheirRate == ASSUME LedgerAssumption PROVE Spec => []CreditedAtCompletion
  <1>1. EarningsInv => CreditedAtCompletion
    BY DEF EarningsInv
  <1> QED BY <1>1, EarningsInvariance, PTL

\* No write of CommissionService, judged however long before, alters a rate that is taken from
\* further back than the tolerance at which it was judged; a moment before the first version
\* takes its rate from that version's start, which a back-dated version can precede.
THEOREM RatesStand == ASSUME LedgerAssumption PROVE Spec => HistoryStands
  <1>1. EarningsInv /\ [Next]_<<commissionVars, payoutVars>> => [HistoryStandsStep]_commissionVars
    BY StandsStep DEF EarningsInv, LedgerAssumption, Next, commissionVars, payoutVars
  <1> QED BY <1>1, EarningsInvariance, PTL DEF Spec, HistoryStands

\* Payouts that admins record at the same time, of lines and clawbacks they may both have listed,
\* each transfer the net of exactly the lines that point at them less the clawbacks that do
\* (createPayout's updateMany, its re-read and its recovery of adjustments).
THEOREM PayoutsMatchTheLedger == ASSUME LedgerAssumption PROVE Spec => []PayoutsAddUp
  <1>1. EarningsInv => PayoutsAddUp
    BY DEF At, EarningsInv, PayoutsAgree, Agrees, PayoutsAddUp
  <1> QED BY <1>1, EarningsInvariance, PTL

\* A clawback that a payout recovered or an admin waived stays as it is, whoever had read it as
\* outstanding before (the conditional updateMany of createPayout, waiveAdjustment).
THEOREM ClawbacksSettleOnce == ASSUME LedgerAssumption PROVE Spec => SettledOnce
  <1>1. EarningsInv /\ [Next]_<<commissionVars, payoutVars>> => [SettledOnceStep]_payoutVars
    BY SettledStep DEF EarningsInv, Next, commissionVars, payoutVars
  <1> QED BY <1>1, EarningsInvariance, PTL DEF Spec, SettledOnce

\* The commission and the driver's share add back up to the fare and neither is negative, for any
\* fare in paise and any percentage an admin may set (percentOfPaise, splitFare).
THEOREM SplitsAddUp == ASSUME Gross \subseteq Nat, Rates \subseteq 0..100 PROVE SharesAddUp
  <1> SUFFICES ASSUME NEW g \in Gross, NEW p \in Rates
               PROVE  LET s == splitFare(g, p) IN s.commission + s.net = g /\ s.commission >= 0 /\ s.net >= 0
    BY DEF SharesAddUp
  <1> DEFINE c == percentOfPaise(g, p)
  <1>1. g \in Nat /\ p \in 0..100
    OBVIOUS
  <1>2. g * p \in Nat /\ g * p <= g * 100
    BY <1>1
  <1>3. c \in Nat /\ c <= g
    BY <1>1, <1>2 DEF percentOfPaise
  <1>4. splitFare(g, p) = [commission |-> c, net |-> g - c]
    BY DEF splitFare
  <1> HIDE DEF c
  <1> QED BY <1>1, <1>3, <1>4
=============================================================================
