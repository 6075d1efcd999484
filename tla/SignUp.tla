------------------------------- MODULE SignUp -------------------------------
(***************************************************************************)
(* Signing up with one phone number: the pending form, the code that       *)
(* proves the number, and the account made from the form (SignupService).  *)
(*                                                                         *)
(* Forms for the number come from several people; the code reaches only    *)
(* the person who holds the phone.  OtpService is its promise: at most one *)
(* code is live, a new one replaces it, and a right guess consumes it      *)
(* (module OtpCodes has the detail).  A handler that dies never takes its  *)
(* next step.                                                              *)
(***************************************************************************)
EXTENDS Naturals, FiniteSets

CONSTANTS
  Forms,       \* submissions of the sign-up form; each has a verificationId
  Owned,       \* those of the person who holds the phone
  RoleOf,      \* the role each form asks for
  MaxCodes,    \* bound: codes issued
  MaxSteps     \* bound: handlers begun

VARIABLES
  pending,     \* [doc, form]: the pending_signups document; doc 0: none
  pendingOver, \* its expiresAt has passed
  code,        \* the live SIGNUP code, or 0
  fresh,       \* it was sent within the resend cooldown
  user,        \* [form, role] of the account of this number, or NoUser
  profile,     \* the account's driver profile exists
  sessions,    \* forms whose holder was signed in
  step,        \* step[f]: the handler that form f's holder has running
  codes, docs, begun

accountVars == <<user, profile, sessions>>
pendingVars == <<pending, pendingOver, docs>>
codeVars == <<code, fresh, codes>>
signUpVars == <<accountVars, pendingVars, codeVars, step, begun>>

NoUser == [form |-> "none", role |-> "none"]
NoPending == [doc |-> 0, form |-> "none"]
Resting == [pc |-> "idle", doc |-> 0, form |-> "none"]

PendingSignup == [doc : 1..MaxSteps, form : Forms]
User == [form : Forms, role : {"CUSTOMER", "DRIVER"}]

Init ==
  /\ pending = NoPending /\ pendingOver = FALSE /\ docs = 0
  /\ code = 0 /\ fresh = FALSE /\ codes = 0
  /\ user = NoUser /\ profile = FALSE /\ sessions = {}
  /\ step = [f \in Forms |-> Resting]
  /\ begun = 0

At(f, pc) == step[f].pc = pc
Goes(f, s) == step' = [step EXCEPT ![f] = s]
Then(f, pc) == Goes(f, [step[f] EXCEPT !.pc = pc])
Rests(f) == Goes(f, Resting)
Begins(f) == At(f, "idle") /\ begun < MaxSteps /\ begun' = begun + 1
existsByPhone == user # NoUser
DropPending == pending' = NoPending /\ pendingOver' = FALSE
\* deleteOne({_id}): whatever form the document holds by then.
DropsPending(doc) ==
  IF pending.doc = doc THEN DropPending ELSE UNCHANGED <<pending, pendingOver>>
\* otp.issue: the code that was live is replaced, also when the send then fails.
Issues == codes < MaxCodes /\ codes' = codes + 1

-----------------------------------------------------------------------------
(* register()                                                              *)

\* assertAvailable; the password is hashed before the form is saved.
Submit(f) ==
  /\ Begins(f)
  /\ ~existsByPhone
  /\ Then(f, "save")
  /\ UNCHANGED <<accountVars, pendingVars, codeVars>>

\* savePending replaces the form of the number; the document keeps its _id.
SavePending(f) ==
  /\ At(f, "save")
  /\ docs' = IF pending.doc = 0 THEN docs + 1 ELSE docs
  /\ pending' = [doc |-> IF pending.doc = 0 THEN docs + 1 ELSE pending.doc, form |-> f]
  /\ pendingOver' = FALSE
  /\ Goes(f, [pc |-> "challenge", doc |-> pending'.doc, form |-> f])
  /\ UNCHANGED <<accountVars, codeVars, begun>>

\* Inside the cooldown the code on its way is kept; otherwise one is issued.
Challenge(f) ==
  /\ At(f, "challenge")
  /\ IF code # 0 /\ fresh
       THEN UNCHANGED codeVars
       ELSE Issues /\ code' = codes + 1 /\ fresh' = TRUE
  /\ Rests(f)
  /\ UNCHANGED <<accountVars, pendingVars, begun>>

\* The send is refused or fails: the code is withdrawn, then the form of this id.
ChallengeFails(f) ==
  /\ At(f, "challenge")
  /\ ~(code # 0 /\ fresh)
  /\ \/ UNCHANGED codeVars
     \/ Issues /\ code' = 0 /\ fresh' = FALSE
  /\ Then(f, "undo")
  /\ UNCHANGED <<accountVars, pendingVars, begun>>

UndoPending(f) ==
  /\ At(f, "undo")
  /\ IF pending = [doc |-> step[f].doc, form |-> f]
       THEN DropPending
       ELSE UNCHANGED <<pending, pendingOver>>
  /\ Rests(f)
  /\ UNCHANGED <<accountVars, docs, codeVars, begun>>

-----------------------------------------------------------------------------
(* resend() and verify() begin with the pending form of the number.        *)

\* pendingFor compares the caller's verificationId with the form's.
PendingFor(f) == pending.doc # 0 /\ ~pendingOver /\ pending.form = f

\* The number was registered meanwhile: abandon().
Abandon(f) ==
  /\ Begins(f)
  /\ PendingFor(f) /\ existsByPhone
  /\ DropPending
  /\ code' = 0 /\ fresh' = FALSE
  /\ UNCHANGED <<accountVars, docs, codes, step>>

Resend(f) ==
  /\ Begins(f)
  /\ PendingFor(f) /\ ~existsByPhone /\ ~fresh
  /\ Issues /\ code' = codes + 1 /\ fresh' = TRUE
  /\ pendingOver' = FALSE
  /\ UNCHANGED <<accountVars, pending, docs, step>>

Verify(f) ==
  /\ Begins(f)
  /\ PendingFor(f) /\ ~existsByPhone
  /\ Goes(f, [pc |-> "code", doc |-> pending.doc, form |-> pending.form])
  /\ UNCHANGED <<accountVars, pendingVars, codeVars>>

\* otp.verify: only the person with the phone knows the code.
VerifyCode(f) ==
  /\ At(f, "code")
  /\ IF f \in Owned /\ code # 0
       THEN code' = 0 /\ fresh' = FALSE /\ Then(f, "create")
       ELSE UNCHANGED <<code, fresh>> /\ Rests(f)
  /\ UNCHANGED <<accountVars, pendingVars, codes, begun>>

\* createAccount uses the form the handler read.
FormHeld(f) == step[f].form

\* (A bug: a duplicate number is taken for a repeated request.)
SignsInTheLoser(f) == Then(f, "forget")
\* phoneTaken() is thrown.
PhoneTaken(f) == Rests(f)

\* createVerified; the unique index on the phone refuses a second account.
CreateAccount(f) ==
  /\ At(f, "create")
  /\ IF existsByPhone
       THEN UNCHANGED user /\ PhoneTaken(f)
       ELSE /\ user' = [form |-> FormHeld(f), role |-> RoleOf[FormHeld(f)]]
            /\ Then(f, IF user'.role = "DRIVER" THEN "profile" ELSE "forget")
  /\ UNCHANGED <<profile, sessions, pendingVars, codeVars, begun>>

CreateProfile(f) ==
  /\ At(f, "profile")
  /\ profile' = TRUE
  /\ Then(f, "forget")
  /\ UNCHANGED <<user, sessions, pendingVars, codeVars, begun>>

\* deleteById undoes the account; the deletion itself may fail.
UndoesUser(f) == Then(f, "undoUser") /\ UNCHANGED user

ProfileFails(f) ==
  /\ At(f, "profile")
  /\ UndoesUser(f)
  /\ UNCHANGED <<profile, sessions, pendingVars, codeVars, begun>>

DeleteUser(f) ==
  /\ At(f, "undoUser")
  /\ user' = NoUser
  /\ Rests(f)
  /\ UNCHANGED <<profile, sessions, pendingVars, codeVars, begun>>

\* The pending document is deleted by its _id, and the person is signed in.
Forget(f) ==
  /\ At(f, "forget")
  /\ DropsPending(step[f].doc)
  /\ sessions' = sessions \cup {step[f].form}
  /\ Rests(f)
  /\ UNCHANGED <<user, profile, docs, codeVars, begun>>

-----------------------------------------------------------------------------
\* Time: the cooldown or the code's life ends, the form expires and is dropped.
Time ==
  /\ \/ fresh /\ fresh' = FALSE /\ UNCHANGED <<code, pending, pendingOver>>
     \/ code # 0 /\ code' = 0 /\ fresh' = FALSE /\ UNCHANGED <<pending, pendingOver>>
     \/ pending.doc # 0 /\ ~pendingOver /\ pendingOver' = TRUE /\ UNCHANGED <<code, fresh, pending>>
     \/ pendingOver /\ DropPending /\ UNCHANGED <<code, fresh>>
  /\ UNCHANGED <<accountVars, docs, codes, step, begun>>

Next ==
  \/ \E f \in Forms :
       \/ Submit(f) \/ SavePending(f) \/ Challenge(f) \/ ChallengeFails(f) \/ UndoPending(f)
       \/ Abandon(f) \/ Resend(f) \/ Verify(f) \/ VerifyCode(f) \/ CreateAccount(f)
       \/ CreateProfile(f) \/ ProfileFails(f) \/ DeleteUser(f) \/ Forget(f)
  \/ Time

Spec == Init /\ [][Next]_signUpVars

-----------------------------------------------------------------------------
TypeOK ==
  /\ pending \in PendingSignup \cup {NoPending}
  /\ code \in 0..MaxCodes
  /\ user \in User \cup {NoUser}
  /\ profile \in BOOLEAN /\ pendingOver \in BOOLEAN /\ fresh \in BOOLEAN
  /\ sessions \subseteq Forms

\* A stranger who submits a form for the number "cannot slip their own password under
\* the owner's code" (pending-signup.schema.ts:10): the account is the owner's form.
AccountIsTheOwners == user # NoUser => user.form \in Owned

\* "No half-made driver accounts" (signup.service.ts:285): a driver's account without a
\* profile is still in the hands of the handler that makes it or takes it back.
NoHalfMadeDriver ==
  (user.role = "DRIVER" /\ ~profile)
    => \E f \in Forms : step[f].pc \in {"profile", "undoUser"} /\ step[f].form = user.form

\* Whoever was signed in at the end of a sign-up has the account: of two forms of the
\* owner verified together, the one that lost the number gets no session.
SessionsHaveTheAccount == \A f \in sessions : user.form = f
=============================================================================
