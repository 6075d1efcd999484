---------------------------- MODULE DeviceTokens ----------------------------
(***************************************************************************)
(* The push tokens of phones on which people sign in and out, and the      *)
(* pushes of a notification to them (DeviceTokensService,                  *)
(* NotificationsService.deliver).  A registration is three writes; between *)
(* them other phones register, sign out and lose their tokens.             *)
(***************************************************************************)
EXTENDS Naturals, FiniteSets

CONSTANTS
  Tokens,       \* FCM tokens
  PhoneOf,      \* the device each was issued to
  People,       \* accounts
  Requests,     \* registrations in flight
  Deliveries,   \* notifications being pushed
  MaxPerUser,   \* deviceTokensMaxPerUser
  MaxRegistrations, MaxDeliveries   \* bounds

VARIABLES
  token,      \* token[t]: [user, active, reason]
  request,    \* request[q]: [pc, user, token, stale]: register, between its writes
  delivery,   \* delivery[d]: [pc, user, tokens]: deliver, between reading the tokens and the answers
  dead,       \* tokens FCM no longer knows
  count       \* [registrations, deliveries] so far

tokenVars == <<token, request, delivery, dead, count>>

None == "none"
DeviceTokenDeactivation == {"LOGOUT", "REPLACED", "UNREGISTERED", "LIMIT"}
DeviceToken ==
  [user : People \cup {None}, active : BOOLEAN, reason : DeviceTokenDeactivation \cup {None}]
NoRequest == [pc |-> "idle", user |-> None, token |-> None, stale |-> {}]
NoDelivery == [pc |-> "idle", user |-> None, tokens |-> {}]

Init ==
  /\ token = [t \in Tokens |-> [user |-> None, active |-> FALSE, reason |-> None]]
  /\ request = [q \in Requests |-> NoRequest]
  /\ delivery = [d \in Deliveries |-> NoDelivery]
  /\ dead = {}
  /\ count = [registrations |-> 0, deliveries |-> 0]

ActiveOf(u) == {t \in Tokens : token[t].user = u /\ token[t].active}
Deactivated(S, reason) ==
  [t \in Tokens |-> IF t \in S THEN [token[t] EXCEPT !.active = FALSE, !.reason = reason]
                    ELSE token[t]]

-----------------------------------------------------------------------------
\* register: the token moves to the caller and is active again, whoever held it; the unique index
\* on the token sends the loser of a first registration back to update.
Upsert(q, t, u) ==
  /\ request[q].pc = "idle" /\ t \notin dead /\ count.registrations < MaxRegistrations
  /\ token' = [token EXCEPT ![t] = [user |-> u, active |-> TRUE, reason |-> None]]
  /\ request' = [request EXCEPT ![q] = [pc |-> "replace", user |-> u, token |-> t, stale |-> {}]]
  /\ count' = [count EXCEPT !.registrations = @ + 1]
  /\ UNCHANGED <<delivery, dead>>

\* Every other token of the phone, for any account, is dead.
Replaced(q) ==
  {t \in Tokens \ {request[q].token} :
     PhoneOf[t] = PhoneOf[request[q].token] /\ token[t].active}
Replace(q) ==
  /\ request[q].pc = "replace"
  /\ token' = Deactivated(Replaced(q), "REPLACED")
  /\ request' = [request EXCEPT ![q].pc = "limit"]
  /\ UNCHANGED <<delivery, dead, count>>

\* enforceLimit reads the tokens beyond the limit, the least recently used ones, then deactivates
\* what it read by id alone.  Use is not modelled, so any of them may be the ones.
FindStale(q) ==
  /\ request[q].pc = "limit"
  /\ LET mine == ActiveOf(request[q].user) IN
       \/ /\ Cardinality(mine) <= MaxPerUser
          /\ request' = [request EXCEPT ![q] = NoRequest]
       \/ \E keep \in SUBSET mine :
            /\ Cardinality(mine) > MaxPerUser /\ Cardinality(keep) = MaxPerUser
            /\ request' = [request EXCEPT ![q].pc = "trim", ![q].stale = mine \ keep]
  /\ UNCHANGED <<token, delivery, dead, count>>
Trim(q) ==
  /\ request[q].pc = "trim"
  /\ token' = Deactivated(request[q].stale, "LIMIT")
  /\ request' = [request EXCEPT ![q] = NoRequest]
  /\ UNCHANGED <<delivery, dead, count>>

\* deactivate and deactivateDevice: the caller's own token, or their tokens on the phone.
Deactivate(t) ==
  /\ token[t].active
  /\ token' = Deactivated({t}, "LOGOUT")
  /\ UNCHANGED <<request, delivery, dead, count>>
DeactivateDevice(u, phone) ==
  /\ token' = Deactivated({t \in ActiveOf(u) : PhoneOf[t] = phone}, "LOGOUT")
  /\ token' # token
  /\ UNCHANGED <<request, delivery, dead, count>>

\* deactivateAllForUser: sessions revoked, everywhere or on every phone but one.
DeactivateAllForUser(u, except) ==
  /\ token' = Deactivated({t \in ActiveOf(u) : PhoneOf[t] \notin except}, "LOGOUT")
  /\ token' # token
  /\ UNCHANGED <<request, delivery, dead, count>>

\* The app is uninstalled: FCM forgets the token, for good.
Uninstall(t) ==
  /\ t \notin dead
  /\ dead' = dead \cup {t}
  /\ UNCHANGED <<token, request, delivery, count>>

-----------------------------------------------------------------------------
\* deliver: the active tokens, at most MaxPerUser of them, then the answers of FCM.
ActiveTokens(d, u) ==
  /\ delivery[d].pc = "idle" /\ count.deliveries < MaxDeliveries
  /\ \E some \in SUBSET ActiveOf(u) :
       /\ Cardinality(some) = (IF Cardinality(ActiveOf(u)) <= MaxPerUser
                               THEN Cardinality(ActiveOf(u)) ELSE MaxPerUser)
       /\ delivery' = [delivery EXCEPT ![d] =
            IF some = {} THEN NoDelivery ELSE [pc |-> "sent", user |-> u, tokens |-> some]]
  /\ count' = [count EXCEPT !.deliveries = @ + 1]
  /\ UNCHANGED <<token, request, dead>>

\* markInvalid: what FCM called unregistered is deactivated, whoever holds it by now.
MarkInvalid(d) ==
  /\ delivery[d].pc = "sent"
  /\ token' = Deactivated({t \in delivery[d].tokens \cap dead : token[t].active}, "UNREGISTERED")
  /\ delivery' = [delivery EXCEPT ![d] = NoDelivery]
  /\ UNCHANGED <<request, dead, count>>

Next ==
  \/ \E q \in Requests : \/ \E t \in Tokens, u \in People : Upsert(q, t, u)
                         \/ Replace(q) \/ FindStale(q) \/ Trim(q)
  \/ \E t \in Tokens : Deactivate(t) \/ Uninstall(t)
  \/ \E u \in People, t \in Tokens : \/ DeactivateDevice(u, PhoneOf[t])
                                     \/ DeactivateAllForUser(u, {PhoneOf[t]})
                                     \/ DeactivateAllForUser(u, {})
  \/ \E d \in Deliveries : MarkInvalid(d) \/ \E u \in People : ActiveTokens(d, u)

Spec == Init /\ [][Next]_tokenVars

-----------------------------------------------------------------------------
\* Type invariant: a token is the row its schema allows, and an inactive one says why.
TypeOK ==
  /\ token \in [Tokens -> DeviceToken]
  /\ \A t \in Tokens : token[t].user # None => (token[t].active = (token[t].reason = None))

Settled == \A q \in Requests : request[q].pc = "idle"

\* When no registration is in flight a phone has one active token at most, so after an account
\* switch or a token refresh nobody else's pushes reach it, although two registrations of one
\* phone may each retire the other's token (register).
OneTokenPerPhone ==
  Settled => \A t, v \in Tokens :
    token[t].active /\ token[v].active /\ PhoneOf[t] = PhoneOf[v] => t = v

\* Nor does an account then hold more active tokens than the limit, although each registration
\* trims what it read some time ago (enforceLimit).
LimitHolds == Settled => \A u \in People : Cardinality(ActiveOf(u)) <= MaxPerUser
=============================================================================
