--------------------------- MODULE AccountDeletion ---------------------------
(***************************************************************************)
(* An account deleted by its owner while the rest of the system goes on:   *)
(* bookings or assignments, unsettled money, an admin's block, and the     *)
(* access guard's cached answers in each server instance                   *)
(* (AccountDeletionService, AccountStatusService, and what they meet in    *)
(* RidesService.create, DriverAvailabilityService.goOnline, MatchingService*)
(* and AdminPeopleService.setCustomerStatus).                              *)
(*                                                                         *)
(* One account, a customer's or a driver's, with at most one active ride.  *)
(***************************************************************************)
EXTENDS Naturals, FiniteSets

CONSTANTS
  Instances,   \* server instances; each caches isAllowed for itself
  Roles,       \* the roles the account may have
  MaxStarts,   \* bound: bookings, or going online
  MaxEnds,     \* bound: rides ended
  MaxBlocks    \* bound: blocks and unblocks

VARIABLES
  role,        \* CUSTOMER or DRIVER
  status,      \* ACTIVE, BLOCKED or DELETED
  erased,      \* the personal data and the phone number are gone
  ride,        \* "none", or when the active ride was begun: "early" or "late"
  owed,        \* a fee is DUE, or earnings are unsettled
  online,      \* the driver's profile is online
  start,       \* a booking, or goOnline: "idle" or "judged"
  deletion,    \* where the deletion is
  rechecked,   \* its second check is over
  restore,     \* the status it claimed the account from
  admin,       \* setCustomerStatus: the status it is about to save, or "idle"
  cache,       \* cache[i]: "none", "yes" or "no"
  lookup,      \* lookup[i]: what a running isAllowed has read, or "none"
  starts, ends, blocks

userVars == <<role, status, erased>>
workVars == <<ride, owed, online, start, starts, ends>>
deletionVars == <<deletion, rechecked, restore>>
guardVars == <<cache, lookup>>
accountVars == <<userVars, workVars, deletionVars, admin, blocks, guardVars>>

Init ==
  /\ role \in Roles
  /\ status = "ACTIVE" /\ erased = FALSE
  /\ ride = "none" /\ owed = FALSE /\ online = FALSE
  /\ start = "idle"
  /\ deletion = "idle" /\ rechecked = FALSE /\ restore = "ACTIVE"
  /\ admin = "idle"
  /\ cache = [i \in Instances |-> "none"] /\ lookup = [i \in Instances |-> "none"]
  /\ starts = 0 /\ ends = 0 /\ blocks = 0

Goes(from, to) == deletion = from /\ deletion' = to
\* deletion runs in the instance of the request.
Invalidates(i) == cache' = [cache EXCEPT ![i] = "none"]

-----------------------------------------------------------------------------
(* What goes on meanwhile.                                                 *)

\* create() and goOnline() refuse a user who is not ACTIVE.
MayStart == status = "ACTIVE"

JudgeStart ==
  /\ start = "idle" /\ starts < MaxStarts /\ MayStart
  /\ start' = "judged"
  /\ starts' = starts + 1
  /\ UNCHANGED <<userVars, ride, owed, online, ends, deletionVars, admin, blocks, guardVars>>

\* The ride is inserted, or the driver's profile goes online, some awaits later.
Begun == IF rechecked THEN "late" ELSE "early"
Start ==
  /\ start = "judged"
  /\ start' = "idle"
  /\ IF role = "CUSTOMER"
       THEN ride' = (IF ride = "none" THEN Begun ELSE ride) /\ UNCHANGED online
       ELSE online' = TRUE /\ UNCHANGED ride
  /\ UNCHANGED <<userVars, owed, starts, ends, deletionVars, admin, blocks, guardVars>>

\* MatchingService.reserve asks for an online driver, not for an active account.
Assign ==
  /\ online /\ ride = "none"
  /\ ride' = Begun
  /\ UNCHANGED <<userVars, owed, online, start, starts, ends, deletionVars,
                 admin, blocks, guardVars>>

\* The ride ends, in a fee or earnings to settle or in neither.
EndRide ==
  /\ ride # "none" /\ ends < MaxEnds
  /\ ride' = "none" /\ ends' = ends + 1
  /\ owed' \in {owed, TRUE}
  /\ UNCHANGED <<userVars, online, start, starts, deletionVars, admin, blocks, guardVars>>

Settle ==
  /\ owed /\ owed' = FALSE
  /\ UNCHANGED <<userVars, ride, online, start, starts, ends, deletionVars, admin,
                 blocks, guardVars>>

-----------------------------------------------------------------------------
(* deleteAccount()                                                         *)

\* assertNothingUnsettled
Unsettled == ride # "none" \/ owed

FirstCheck ==
  /\ Goes("idle", IF Unsettled THEN "idle" ELSE "claim")
  /\ status \in {"ACTIVE", "BLOCKED"}   \* any account that is not DELETED
  /\ UNCHANGED <<userVars, workVars, rechecked, restore, admin, blocks, guardVars>>

\* The conditional update: a blocked account is not deleted.
Claimable == status = "ACTIVE"

Claim ==
  /\ Goes("claim", IF Claimable THEN "claimed" ELSE "idle")
  /\ status' = IF Claimable THEN "DELETED" ELSE status
  /\ restore' = IF Claimable THEN status ELSE restore
  /\ UNCHANGED <<role, erased, workVars, rechecked, admin, blocks, guardVars>>

InvalidateClaimed ==
  /\ Goes("claimed", "recheck")
  /\ \E i \in Instances : Invalidates(i)
  /\ UNCHANGED <<userVars, workVars, rechecked, restore, admin, blocks, lookup>>

\* (A bug: the account is not looked at again.)
StandsUnchecked == TRUE
Stands == ~Unsettled

\* A ride booked between the first check and the claim is caught here.
SecondCheck ==
  /\ Goes("recheck", IF Stands THEN "revoke" ELSE "restore")
  /\ rechecked' = Stands
  /\ UNCHANGED <<userVars, workVars, restore, admin, blocks, guardVars>>

Restore ==
  /\ Goes("restore", "idle")
  /\ status' = restore
  /\ \E i \in Instances : Invalidates(i)
  /\ UNCHANGED <<role, erased, workVars, rechecked, restore, admin, blocks, lookup>>

RevokeSessions ==
  /\ Goes("revoke", IF role = "DRIVER" THEN "eraseDriver" ELSE "erase")
  /\ UNCHANGED <<userVars, workVars, rechecked, restore, admin, blocks, guardVars>>

EraseDriver ==
  /\ Goes("eraseDriver", "erase")
  /\ online' = FALSE
  /\ UNCHANGED <<userVars, ride, owed, start, starts, ends, rechecked, restore, admin,
                 blocks, guardVars>>

ErasePersonalData ==
  /\ Goes("erase", "done")
  /\ erased' = TRUE
  /\ UNCHANGED <<role, status, workVars, rechecked, restore, admin, blocks, guardVars>>

-----------------------------------------------------------------------------
(* An admin blocks a customer, or unblocks one: the document that was read *)
(* is saved, whatever it has become.                                       *)

ReadCustomer ==
  /\ role = "CUSTOMER" /\ admin = "idle" /\ blocks < MaxBlocks
  /\ \/ status # "BLOCKED" /\ ride = "none" /\ admin' = "BLOCKED"
     \/ status # "ACTIVE" /\ admin' = "ACTIVE"
  /\ blocks' = blocks + 1
  /\ UNCHANGED <<userVars, workVars, deletionVars, guardVars>>

SaveCustomer ==
  /\ admin \in {"ACTIVE", "BLOCKED"}
  /\ status' = admin
  /\ admin' = "saved"
  /\ UNCHANGED <<role, erased, workVars, deletionVars, blocks, guardVars>>

InvalidateSaved ==
  /\ admin = "saved" /\ admin' = "idle"
  /\ \E i \in Instances : Invalidates(i)
  /\ UNCHANGED <<userVars, workVars, deletionVars, blocks, lookup>>

-----------------------------------------------------------------------------
(* isAllowed(), for every authenticated request of the account.            *)

Look(i) ==
  /\ cache[i] = "none" /\ lookup[i] = "none"
  /\ lookup' = [lookup EXCEPT ![i] = IF status = "ACTIVE" THEN "yes" ELSE "no"]
  /\ UNCHANGED <<userVars, workVars, deletionVars, admin, blocks, cache>>

Answer(i) ==
  /\ lookup[i] # "none"
  /\ cache' = [cache EXCEPT ![i] = lookup[i]]
  /\ lookup' = [lookup EXCEPT ![i] = "none"]
  /\ UNCHANGED <<userVars, workVars, deletionVars, admin, blocks>>

\* (A bug: an answer that let the account in is kept for good.)
LapsesUnlessAllowed(i) == cache[i] = "no"
\* CACHE_TTL_MS after it was read an entry is ignored.
Lapses(i) == cache[i] # "none"

CacheExpires(i) ==
  /\ Lapses(i)
  /\ Invalidates(i)
  /\ UNCHANGED <<userVars, workVars, deletionVars, admin, blocks, lookup>>

Delete ==
  \/ FirstCheck \/ Claim \/ InvalidateClaimed \/ SecondCheck \/ Restore
  \/ RevokeSessions \/ EraseDriver \/ ErasePersonalData
Next ==
  \/ JudgeStart \/ Start \/ Assign \/ EndRide \/ Settle
  \/ Delete
  \/ ReadCustomer \/ SaveCustomer \/ InvalidateSaved
  \/ \E i \in Instances : Look(i) \/ Answer(i) \/ CacheExpires(i)

Spec == Init /\ [][Next]_accountVars

\* A cached answer has a life; the deletion and a lookup, once begun, go on.
Fairness ==
  /\ \A i \in Instances : WF_accountVars(CacheExpires(i)) /\ WF_accountVars(Answer(i))
  /\ WF_accountVars(Delete)
FairSpec == Spec /\ Fairness

-----------------------------------------------------------------------------
TypeOK ==
  /\ role \in Roles /\ status \in {"ACTIVE", "BLOCKED", "DELETED"}
  /\ ride \in {"none", "early", "late"}
  /\ restore = "ACTIVE"
  /\ cache \in [Instances -> {"none", "yes", "no"}]

\* "A ride booked between the check above and the claim is caught here"
\* (account-deletion.service.ts:153): data is erased only if every ride begun before
\* the second check was over by then.
EarlyRidesAreCaught == rechecked => ride # "early"

\* "From here on every guard (access token check, ride booking, going online) sees a
\* DELETED user" (account-deletion.service.ts:136): while the claim stands, no booking
\* and no goOnline passes its guard.
GuardsSeeTheClaimStep == start' = "judged" /\ start = "idle" => status # "DELETED"
GuardsSeeTheClaim == [][GuardsSeeTheClaimStep]_accountVars

\* An admin's block is never turned into a deletion by a request that checked before.
BlockedIsNotDeletedStep == status = "BLOCKED" => status' # "DELETED"
BlockedIsNotDeleted == [][BlockedIsNotDeletedStep]_accountVars

\* In every instance, an account that is no longer ACTIVE is let in by a cached answer
\* for at most that answer's life, also when a lookup raced the invalidation.
Locked(i) == status # "ACTIVE" /\ cache[i] = "yes"
LockIsFelt == \A i \in Instances : Locked(i) ~> ~Locked(i)

\* "... so nothing new can start" (account-deletion.service.ts:137): once the data is
\* erased the account has no active ride.
NothingNewStarts == erased /\ status = "DELETED" => ride = "none"
=============================================================================
