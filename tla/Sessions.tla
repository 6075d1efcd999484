------------------------------ MODULE Sessions ------------------------------
(***************************************************************************)
(* Signing in to one account and staying signed in: password and code      *)
(* sign-in, rotation of refresh tokens, sign-out, the one-time ticket of a *)
(* password reset, and an admin blocking the account (AuthService,         *)
(* TokenService, LoginOtpService, PasswordResetService,                    *)
(* AdminPeopleService.setCustomerStatus).                                  *)
(*                                                                         *)
(* A request reads, judges and writes in separate steps; one that dies     *)
(* never takes its next step.  A code that proved the phone is consumed in *)
(* module OtpCodes; here it is a sign-in that needs no password.           *)
(***************************************************************************)
EXTENDS Naturals, FiniteSets

CONSTANTS
  Requests,     \* slots for the account holder's requests
  MaxSessions,  \* bound: user_sessions documents
  MaxTickets,   \* bound: password_resets issued
  MaxBlocks     \* bound: times an admin blocks the account

VARIABLES
  status,       \* of the user: ACTIVE or BLOCKED
  session,      \* session[s]: "none", "active" or "revoked"
  proof,        \* proof[s]: resets there had been when its holder signed in
  ticket,       \* the password_resets document: a token, or 0
  request,      \* request[p]
  admin,        \* the admin's request to block: "idle" or "saved"
  tickets, resets, blocks,
  redeemed      \* redeemed[t]: passwords set with token t

reqVars == <<session, proof, ticket, request, tickets, resets, redeemed>>
sessionVars == <<status, reqVars, admin, blocks>>

Resting == [pc |-> "idle", s |-> 0, t |-> 0, proof |-> 0, sawActive |-> FALSE]

UserSession == {"none", "active", "revoked"}

Init ==
  /\ status = "ACTIVE"
  /\ session = [s \in 1..MaxSessions |-> "none"]
  /\ proof = [s \in 1..MaxSessions |-> 0]
  /\ ticket = 0 /\ tickets = 0
  /\ redeemed = [t \in 1..MaxTickets |-> 0]
  /\ request = [p \in Requests |-> Resting]
  /\ admin = "idle" /\ blocks = 0 /\ resets = 0

At(p, pc) == request[p].pc = pc
Goes(p, r) == request' = [request EXCEPT ![p] = r]
Then(p, pc) == Goes(p, [request[p] EXCEPT !.pc = pc])
Begins(p, r) ==
  At(p, "idle") /\ Goes(p, [r EXCEPT !.sawActive = (status = "ACTIVE"), !.proof = resets])
Revoke(S) == session' = [s \in 1..MaxSessions |->
                           IF s \in S /\ session[s] = "active" THEN "revoked" ELSE session[s]]

-----------------------------------------------------------------------------
(* Sign-in, with the password or a code: judge the account, open a session. *)

\* (A bug: only a deleted account is refused.)
CanSignInAnyway == status \in {"ACTIVE", "BLOCKED"}
\* assertCanSignIn, of the user document that was read.
CanSignIn == status = "ACTIVE"

SignIn(p) ==
  /\ CanSignIn
  /\ Begins(p, [Resting EXCEPT !.pc = "open"])
  /\ UNCHANGED <<status, session, proof, ticket, tickets, resets, redeemed, admin, blocks>>

\* completeSignIn, startSession, issueTokenPair: a new user_sessions document.
OpenSession(p) ==
  /\ At(p, "open")
  /\ \E s \in 1..MaxSessions :
       /\ session[s] = "none" /\ \A r \in 1..(s - 1) : session[r] # "none"
       /\ session' = [session EXCEPT ![s] = "active"]
       /\ proof' = [proof EXCEPT ![s] = request[p].proof]
  /\ Goes(p, Resting)
  /\ UNCHANGED <<status, ticket, tickets, resets, redeemed, admin, blocks>>

-----------------------------------------------------------------------------
(* refresh(), logout() and logoutEverywhere()                              *)

\* verifyRefreshToken: the session of the token is active.
Refresh(p) ==
  /\ \E s \in 1..MaxSessions :
       /\ session[s] = "active"
       /\ At(p, "idle")
       /\ Goes(p, [pc |-> "judge", s |-> s, t |-> 0, proof |-> proof[s],
                   sawActive |-> status = "ACTIVE"])
  /\ UNCHANGED <<status, session, proof, ticket, tickets, resets, redeemed, admin, blocks>>

Judge(p) ==
  /\ At(p, "judge")
  /\ Then(p, IF CanSignIn THEN "rotate" ELSE "end")
  /\ UNCHANGED <<status, session, proof, ticket, tickets, resets, redeemed, admin, blocks>>

\* The redeemed session ends, whether or not it still is active; then a new pair.
Rotate(p) ==
  /\ \/ At(p, "rotate") /\ Then(p, "open")
     \/ At(p, "end") /\ Goes(p, Resting)
  /\ Revoke({request[p].s})
  /\ UNCHANGED <<status, proof, ticket, tickets, resets, redeemed, admin, blocks>>

Logout(p) ==
  /\ \E s \in 1..MaxSessions :
       session[s] = "active" /\ Begins(p, [Resting EXCEPT !.pc = "end", !.s = s])
  /\ UNCHANGED <<status, session, proof, ticket, tickets, resets, redeemed, admin, blocks>>

LogoutEverywhere ==
  /\ Revoke(1..MaxSessions)
  /\ session' # session
  /\ UNCHANGED <<status, proof, ticket, request, tickets, resets, redeemed, admin, blocks>>

-----------------------------------------------------------------------------
(* A password reset: a code becomes the account's one ticket, which sets   *)
(* the password once.                                                      *)

\* PasswordResetService.verifyCode: a newer ticket replaces the older one.
VerifyCode ==
  /\ CanSignIn /\ tickets < MaxTickets
  /\ tickets' = tickets + 1
  /\ ticket' = tickets + 1
  /\ UNCHANGED <<status, session, proof, request, resets, redeemed, admin, blocks>>

Reset(p) ==
  /\ ticket # 0 /\ CanSignIn
  /\ Begins(p, [Resting EXCEPT !.pc = "claim", !.t = ticket])
  /\ UNCHANGED <<status, session, proof, ticket, tickets, resets, redeemed, admin, blocks>>

\* findOneAndDelete by the token: one request gets the document.
Claimed(t) == ticket = t

Claim(p) ==
  /\ At(p, "claim")
  /\ ticket' = IF ticket = request[p].t THEN 0 ELSE ticket
  /\ IF Claimed(request[p].t) THEN Then(p, "set") ELSE Goes(p, Resting)
  /\ UNCHANGED <<status, session, proof, tickets, resets, redeemed, admin, blocks>>

SetPassword(p) ==
  /\ At(p, "set")
  /\ resets' = resets + 1
  /\ redeemed' = [redeemed EXCEPT ![request[p].t] = @ + 1]
  /\ Goes(p, [request[p] EXCEPT !.pc = "revoke", !.proof = resets + 1])
  /\ UNCHANGED <<status, session, proof, ticket, tickets, admin, blocks>>

RevokeAll(p) ==
  /\ At(p, "revoke")
  /\ Revoke(1..MaxSessions)
  /\ Then(p, "open")
  /\ UNCHANGED <<status, proof, ticket, tickets, resets, redeemed, admin, blocks>>

TicketExpires ==
  /\ ticket # 0
  /\ ticket' = 0
  /\ UNCHANGED <<status, session, proof, request, tickets, resets, redeemed, admin, blocks>>

-----------------------------------------------------------------------------
(* An admin blocks and unblocks the account.                               *)

Block ==
  /\ admin = "idle" /\ status = "ACTIVE" /\ blocks < MaxBlocks
  /\ status' = "BLOCKED" /\ blocks' = blocks + 1
  /\ admin' = "saved"
  /\ UNCHANGED reqVars

RevokeBlocked ==
  /\ admin = "saved"
  /\ Revoke(1..MaxSessions)
  /\ admin' = "idle"
  /\ UNCHANGED <<status, proof, ticket, request, tickets, resets, redeemed, blocks>>

Unblock ==
  /\ admin = "idle" /\ status = "BLOCKED"
  /\ status' = "ACTIVE"
  /\ request' = [p \in Requests |-> [request[p] EXCEPT !.sawActive = @ \/ request[p].pc # "idle"]]
  /\ UNCHANGED <<session, proof, ticket, tickets, resets, redeemed, admin, blocks>>

Next ==
  \/ \E p \in Requests :
       \/ SignIn(p) \/ OpenSession(p) \/ Refresh(p) \/ Judge(p) \/ Rotate(p) \/ Logout(p)
       \/ Reset(p) \/ Claim(p) \/ SetPassword(p) \/ RevokeAll(p)
  \/ LogoutEverywhere \/ VerifyCode \/ TicketExpires
  \/ Block \/ RevokeBlocked \/ Unblock

Spec == Init /\ [][Next]_sessionVars

-----------------------------------------------------------------------------
TypeOK ==
  /\ session \in [1..MaxSessions -> UserSession]
  /\ ticket \in 0..MaxTickets
  /\ status \in {"ACTIVE", "BLOCKED"}

\* "The token is claimed atomically, so it works exactly once even when two requests
\* race" (password-reset.service.ts:111).
TicketsWorkOnce == \A t \in 1..MaxTickets : redeemed[t] <= 1

\* A request that has met only a blocked account opens no session, by any of the ways
\* to sign in, to refresh or to reset (auth.service.ts:90, 113).
BlockedOpenNothingStep ==
  \A p \in Requests : session' # session /\ At(p, "open") /\ request'[p].pc = "idle"
       => request[p].sawActive
BlockedOpenNothing == [][BlockedOpenNothingStep]_sessionVars

\* "A reset ends every existing session (a thief who knew the old password is signed
\* out everywhere)" (password-reset.service.ts:42).  It does not hold: a sign-in judged before
\* the reset opens its session after it.
SignedOutEverywhere ==
  (\A p \in Requests : ~At(p, "revoke"))
    => \A s \in 1..MaxSessions : session[s] = "active" => proof[s] = resets
=============================================================================
