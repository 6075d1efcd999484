--------------------------- MODULE CancellationFees ---------------------------
(* What a cancelled ride costs its customer: the versioned policy, the fee assessed before
   the ride's conditional transition, the record written after it and an admin's decision
   on the fee (cancellations.service.ts, cancellation-fee.ts, RideLifecycle.cancel). *)
EXTENDS Integers, Sequences, FiniteSets

CONSTANTS
  Cancellers,  \* requests to cancel in flight: [actor]
  Admins,      \* requests of admins in flight
  Rules,       \* customer fee rules an admin may save
  Fare,        \* the booked fare
  MaxTime,     \* bound: the clock
  MaxVersions, \* bound: policy versions
  MaxCrashes   \* bound: handlers that die or records that fail

VARIABLES
  policies,    \* cancellation_policies, by version
  ride,        \* [status, acceptedAt]; acceptedAt -1: not accepted
  left,        \* what the cancellation left behind: [status, at, version] it was assessed by
  copy,        \* the fee on the ride: [amount, status], or NoFee
  row,         \* the cancellations document: [amount, status], or NoFee
  cancel,      \* cancel[c]: [pc, status, fee, version, at]
  desk,        \* desk[a]: [pc, version, to]
  now, tries, crashes

feeVars == <<policies, ride, left, copy, row, cancel, desk, now, tries, crashes>>

Actors == {"CUSTOMER", "DRIVER", "ADMIN"}
FEE_ELIGIBLE_STATUSES == {"DRIVER_ACCEPTED", "DRIVER_ARRIVED"}
Cancellable(actor) ==
  FEE_ELIGIBLE_STATUSES \cup (IF actor = "DRIVER" THEN {} ELSE {"SEARCHING", "DRIVER_ASSIGNED"})
NoFee == [amount |-> 0, status |-> "none"]
Idle == [pc |-> "idle", actor |-> "CUSTOMER", status |-> "SEARCHING", fee |-> 0, version |-> 0, at |-> 0]
Away == [pc |-> "idle", version |-> 0, to |-> NoFee.status]

FeeStatuses == {"none", "DUE", "NOT_APPLICABLE", "WAIVED", "COLLECTED"}
CustomerFeePolicy ==
  [enabled : BOOLEAN, grace : Int, fixed : Int, percent : Int, max : Int, statuses : SUBSET FEE_ELIGIBLE_STATUSES]
RideCancellation == [amount : 0..Fare, status : FeeStatuses]
Cancellation == [amount : 0..Fare, status : FeeStatuses]

Init ==
  /\ policies = <<[enabled |-> FALSE, grace |-> 0, fixed |-> 0, percent |-> 0, max |-> 0,
                   statuses |-> FEE_ELIGIBLE_STATUSES]>>
  /\ ride = [status |-> "SEARCHING", acceptedAt |-> -1]
  /\ left = [status |-> "none", actor |-> "none", acceptedAt |-> -1, at |-> 0, version |-> 0]
  /\ copy = NoFee /\ row = NoFee
  /\ cancel = [c \in Cancellers |-> Idle] /\ desk = [a \in Admins |-> Away]
  /\ now = 0 /\ tries = [a \in Admins |-> 0] /\ crashes = 0

Least(x, y) == IF x < y THEN x ELSE y
Most(x, y) == IF x < y THEN y ELSE x
\* Math.round of a non-negative sum of rupees and hundredths.
Rounded(hundredths) == (hundredths + 50) \div 100

\* assessCancellationFee.
Applies(rule, actor, status, acceptedAt, at) ==
  /\ actor = "CUSTOMER" /\ rule.enabled
  /\ status \in FEE_ELIGIBLE_STATUSES \cap rule.statuses
  /\ acceptedAt # -1 /\ at >= acceptedAt + Most(0, rule.grace)
Amount(rule, fare) ==
  LET raw == Rounded(100 * Most(0, rule.fixed) + Most(0, fare) * Least(100, Most(0, rule.percent)))
      capped == IF rule.max > 0 THEN Least(raw, rule.max) ELSE raw IN
  Least(capped, Most(0, fare))
Fee(rule, actor, status, acceptedAt, at) ==
  IF Applies(rule, actor, status, acceptedAt, at) THEN Amount(rule, Fare) ELSE 0
FeeStatus(amount) == IF amount > 0 THEN "DUE" ELSE "NOT_APPLICABLE"

-----------------------------------------------------------------------------
(* The ride's other transitions *)

TRANSITIONS ==
  {<<"SEARCHING", "DRIVER_ASSIGNED">>, <<"DRIVER_ASSIGNED", "SEARCHING">>,
   <<"DRIVER_ASSIGNED", "DRIVER_ACCEPTED">>, <<"DRIVER_ACCEPTED", "DRIVER_ARRIVED">>,
   <<"DRIVER_ARRIVED", "RIDE_STARTED">>}
Advance ==
  /\ \E to \in {t[2] : t \in {e \in TRANSITIONS : e[1] = ride.status}} :
       ride' = [status |-> to, acceptedAt |-> IF to = "DRIVER_ACCEPTED" THEN now ELSE ride.acceptedAt]
  /\ UNCHANGED <<policies, left, copy, row, cancel, desk, now, tries, crashes>>

Tick ==
  /\ now < MaxTime /\ now' = now + 1
  /\ UNCHANGED <<policies, ride, left, copy, row, cancel, desk, tries, crashes>>

-----------------------------------------------------------------------------
(* cancel: reads, assesses, transitions from the status it read, records *)

Assess(c, actor) ==
  /\ cancel[c].pc = "idle" /\ ride.status \in Cancellable(actor)
  /\ cancel' = [cancel EXCEPT ![c] =
       [pc |-> "apply", actor |-> actor, status |-> ride.status, version |-> Len(policies), at |-> now,
        fee |-> Fee(policies[Len(policies)], actor, ride.status, ride.acceptedAt, now)]]
  /\ UNCHANGED <<policies, ride, left, copy, row, desk, now, tries, crashes>>

\* The compare-and-set; when it misses, the loop reads again.
Seen(c) == ride.status = cancel[c].status
Apply(c) ==
  /\ cancel[c].pc = "apply"
  /\ IF Seen(c)
     THEN /\ left' = [status |-> ride.status, actor |-> cancel[c].actor, acceptedAt |-> ride.acceptedAt,
                      at |-> cancel[c].at, version |-> cancel[c].version]
          /\ ride' = [ride EXCEPT !.status = "CANCELLED"]
          /\ copy' = [amount |-> cancel[c].fee, status |-> FeeStatus(cancel[c].fee)]
          /\ cancel' = [cancel EXCEPT ![c].pc = "record"]
     ELSE cancel' = [cancel EXCEPT ![c] = Idle] /\ UNCHANGED <<ride, left, copy>>
  /\ UNCHANGED <<policies, row, desk, now, tries, crashes>>

\* A record that cannot be written is logged and left out.
Record(c) ==
  /\ cancel[c].pc = "record" /\ cancel' = [cancel EXCEPT ![c] = Idle]
  /\ \/ row' = [amount |-> cancel[c].fee, status |-> FeeStatus(cancel[c].fee)] /\ UNCHANGED crashes
     \/ crashes < MaxCrashes /\ crashes' = crashes + 1 /\ UNCHANGED row
  /\ UNCHANGED <<policies, ride, left, copy, desk, now, tries>>

-----------------------------------------------------------------------------
(* Admins *)

\* updatePolicy: a version taken meanwhile is retried on top of the winner, three times.
ReadPolicy(a) ==
  /\ desk[a].pc = "idle" /\ Len(policies) < MaxVersions
  /\ desk' = [desk EXCEPT ![a] = [pc |-> "policy", version |-> Len(policies) + 1, to |-> "none"]]
  /\ tries' = [tries EXCEPT ![a] = 1]
  /\ UNCHANGED <<policies, ride, left, copy, row, cancel, now, crashes>>

WritePolicy(a) ==
  /\ desk[a].pc = "policy"
  /\ IF desk[a].version = Len(policies) + 1
     THEN /\ \E r \in Rules : policies' = Append(policies, r)
          /\ desk' = [desk EXCEPT ![a] = Away] /\ tries' = [tries EXCEPT ![a] = 0]
     ELSE /\ UNCHANGED policies
          /\ IF tries[a] < 3 /\ Len(policies) < MaxVersions
             THEN desk' = [desk EXCEPT ![a].version = Len(policies) + 1] /\ tries' = [tries EXCEPT ![a] = @ + 1]
             ELSE desk' = [desk EXCEPT ![a] = Away] /\ tries' = [tries EXCEPT ![a] = 0]
  /\ UNCHANGED <<ride, left, copy, row, cancel, now, crashes>>

\* resolveFee: the record is decided on by a compare-and-set, then the ride's copy follows.
Resolvable == row.status = "DUE"
ResolveFee(a) ==
  /\ desk[a].pc = "idle" /\ Resolvable
  /\ \E to \in {"WAIVED", "COLLECTED"} :
       /\ row' = [row EXCEPT !.status = to]
       /\ desk' = [desk EXCEPT ![a] = [pc |-> "copy", version |-> 0, to |-> to]]
  /\ UNCHANGED <<policies, ride, left, copy, cancel, now, tries, crashes>>

Copied(a) == desk[a].to
CopyFee(a) ==
  /\ desk[a].pc = "copy" /\ desk' = [desk EXCEPT ![a] = Away]
  /\ \/ copy' = [copy EXCEPT !.status = Copied(a)] /\ UNCHANGED crashes
     \/ crashes < MaxCrashes /\ crashes' = crashes + 1 /\ UNCHANGED copy
  /\ UNCHANGED <<policies, ride, left, row, cancel, now, tries>>

Next ==
  \/ Advance \/ Tick
  \/ \E c \in Cancellers : (\E actor \in Actors : Assess(c, actor)) \/ Apply(c) \/ Record(c)
  \/ \E a \in Admins : ReadPolicy(a) \/ WritePolicy(a) \/ ResolveFee(a) \/ CopyFee(a)

Spec == Init /\ [][Next]_feeVars

-----------------------------------------------------------------------------
TypeOK ==
  /\ ride.status \in {t[1] : t \in TRANSITIONS} \cup {"RIDE_STARTED", "CANCELLED"}
  /\ \A v \in DOMAIN policies : policies[v] \in CustomerFeePolicy
  /\ copy \in RideCancellation /\ row \in Cancellation
  /\ \A c \in Cancellers : cancel[c].pc \in {"idle", "apply", "record"}
  /\ \A a \in Admins : desk[a].pc \in {"idle", "policy", "copy"}

\* "The transition is conditional on that same status, so the fee cannot go stale"
\* (ride-lifecycle.service.ts:889): the fee on a cancelled ride is the one a published policy
\* gives for the status the ride was taken from, whatever moved during the cancellation.
FeeOfTheStatusLeft ==
  ride.status = "CANCELLED" =>
    /\ left.version \in DOMAIN policies
    /\ copy.amount = Fee(policies[left.version], left.actor, left.status, left.acceptedAt, left.at)

\* No fee exceeds the fare or the rule's cap, for every rule an admin can save.
FeesAreCapped ==
  \A v \in DOMAIN policies : \A fare \in {0, 1, 8, 33, Fare} :
    LET amount == Amount(policies[v], fare) IN
    amount \in 0..fare /\ (policies[v].max > 0 => amount <= policies[v].max)

\* "Keep the ride's denormalised copy in step" (cancellations.service.ts:522): when no call is
\* at work and none died, the record and the ride tell the customer the same.
CopyInStep ==
  crashes = 0 /\ (\A c \in Cancellers : cancel[c].pc # "record") /\ (\A a \in Admins : desk[a].pc # "copy")
    => copy = row

\* A fee is decided on once.
DecidedOnceStep == row.status \in {"WAIVED", "COLLECTED", "NOT_APPLICABLE"} => row' = row
DecidedOnce == [][DecidedOnceStep]_feeVars
=============================================================================
