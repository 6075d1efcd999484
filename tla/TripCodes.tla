------------------------------ MODULE TripCodes ------------------------------
(***************************************************************************)
(* Starting and ending one trip: the start code, the request to end, the   *)
(* end code, and the ways to complete a trip without it.                   *)
(*                                                                         *)
(* Each handler reads the ride once and ends in one guarded write, so what *)
(* it judged may be stale.  A code is the number of its generation; the    *)
(* start and the end code are never there together, so one set of          *)
(* variables holds both.  `tries`, `verified` and `failures` observe.      *)
(***************************************************************************)
EXTENDS Naturals, FiniteSets

CONSTANTS
  Attempts,         \* slots for handlers in flight
  OtpMaxAttempts,
  EndOtpEnforced,   \* RIDE_END_OTP_ENFORCED
  MaxCodes,         \* bound: codes generated
  MaxRequests,      \* bound: requests to end the trip
  MaxCodeFailures   \* bound: handlers that die half-way

VARIABLES
  trip,          \* status: DRIVER_ARRIVED, RIDE_STARTED, COMPLETED, CANCELLED
  otp,           \* otpCode or endOtpCode; NoCode when unset
  otpLapsed,     \* its expiry is past
  otpAttempts,
  asked,         \* endRequestedAt: the number of the request, or NotAsked
  waited,        \* requests the override wait is over for
  sosOpen,
  completion,    \* completionMode and the request the fare was priced to
  minted, requests,  \* how many codes and requests there have been
  tries,         \* wrong guesses compared with the present code
  verified,      \* the code that was verified last
  attempt,       \* attempt[p]: the handler running in slot p
  codeFailures

ride == <<trip, otp, otpLapsed, otpAttempts, asked, completion>>
tripVars == <<ride, waited, sosOpen, minted, requests, tries, verified, attempt,
              codeFailures>>

NoCode == 0
NotAsked == 0
RideCompletionMode == {"OTP", "DRIVER_OVERRIDE", "ADMIN", "SOS", "NOT_REQUIRED"}
Open == [mode |-> "NONE", at |-> NotAsked]
Idle == [pc |-> "idle", mode |-> "NONE", code |-> NoCode, asked |-> NotAsked,
         phase |-> "DRIVER_ARRIVED"]

Init ==
  /\ trip = "DRIVER_ARRIVED"   \* arrived() has minted the first code
  /\ otp = 1 /\ otpLapsed = FALSE /\ otpAttempts = 0
  /\ asked = NotAsked
  /\ waited = {}
  /\ sosOpen = FALSE
  /\ completion = Open
  /\ minted = 1 /\ requests = 0
  /\ tries = 0
  /\ verified = NoCode
  /\ attempt = [p \in Attempts |-> Idle]
  /\ codeFailures = 0

Does(p, pc) == attempt[p].pc = pc
Goes(p, a) == attempt' = [attempt EXCEPT ![p] = a]
\* What a handler keeps of the ride it read, for the step it goes to.
Reads(pc, mode) ==
  [pc |-> pc, mode |-> mode, phase |-> trip,
   code  |-> IF pc \in {"open", "count"} THEN otp ELSE NoCode,
   asked |-> IF pc \in {"open", "ask", "finish"} THEN asked ELSE NotAsked]
NewCode ==
  /\ minted < MaxCodes
  /\ minted' = minted + 1
  /\ otp' = minted + 1 /\ otpLapsed' = FALSE /\ otpAttempts' = 0 /\ tries' = 0

-----------------------------------------------------------------------------
(* A code is compared: start() and verifyEndOtp() follow the same rules.   *)

\* The driver submits the code, rightly or wrongly; one that has lapsed is rotated.
Submit(p) ==
  /\ Does(p, "idle")
  /\ trip = "DRIVER_ARRIVED" \/ (trip = "RIDE_STARTED" /\ asked # NotAsked)
  /\ IF otp = NoCode \/ otpLapsed
       THEN Goes(p, Reads("rotate", "OTP")) /\ UNCHANGED tries
       ELSE \/ Goes(p, Reads("open", "OTP")) /\ UNCHANGED tries
            \/ /\ Goes(p, Reads("count", "OTP"))
               /\ tries' = tries + 1
  /\ UNCHANGED <<ride, waited, sosOpen, minted, requests, verified, codeFailures>>

\* A wrong code is counted on the code it was compared with.
SameCode(a) == trip = a.phase /\ otp = a.code

Count(p) ==
  LET a == attempt[p]
      counted == IF SameCode(a) THEN otpAttempts + 1 ELSE OtpMaxAttempts
  IN
  /\ Does(p, "count")
  /\ otpAttempts' = IF SameCode(a) THEN otpAttempts + 1 ELSE otpAttempts
  /\ Goes(p, IF counted >= OtpMaxAttempts THEN [a EXCEPT !.pc = "rotate", !.code = NoCode] ELSE Idle)
  /\ UNCHANGED <<trip, otp, otpLapsed, asked, completion, waited, sosOpen, minted,
                 requests, tries, verified, codeFailures>>

\* rotateOtp and rotateEndOtp replace whatever code there is by then.
Rotatable(a) == trip = a.phase /\ (trip = "RIDE_STARTED" => asked # NotAsked)

Rotate(p) ==
  /\ Does(p, "rotate")
  /\ IF Rotatable(attempt[p]) THEN NewCode ELSE UNCHANGED <<otp, otpLapsed, otpAttempts, minted, tries>>
  /\ Goes(p, Idle)
  /\ UNCHANGED <<trip, asked, completion, waited, sosOpen, requests, verified, codeFailures>>

\* The right code starts the ride, or goes on to complete it; the transition is
\* guarded on the code that was verified.
Opens(a) == trip = "DRIVER_ARRIVED" /\ otp = a.code

Start(p) ==
  /\ Does(p, "open")
  /\ attempt[p].phase = "DRIVER_ARRIVED"
  /\ IF Opens(attempt[p])
       THEN /\ trip' = "RIDE_STARTED" /\ otp' = NoCode /\ otpLapsed' = FALSE
            /\ verified' = attempt[p].code
       ELSE UNCHANGED <<trip, otp, otpLapsed, verified>>
  /\ Goes(p, Idle)
  /\ UNCHANGED <<otpAttempts, asked, completion, waited, sosOpen, minted, requests, tries,
                 codeFailures>>

-----------------------------------------------------------------------------
(* Asking to end the trip, and taking it back.                             *)

RequestEnd(p) ==
  /\ Does(p, "idle")
  /\ trip = "RIDE_STARTED"
  /\ ~(asked # NotAsked /\ otp # NoCode /\ ~otpLapsed)
  /\ Goes(p, Reads("ask", "NONE"))
  /\ UNCHANGED <<ride, waited, sosOpen, minted, requests, tries, verified, codeFailures>>

\* Two taps cannot both be the first request.
AskAdmitted(a) == trip = "RIDE_STARTED" /\ asked = a.asked

Ask(p) ==
  LET a == attempt[p] IN
  /\ Does(p, "ask")
  /\ IF AskAdmitted(a)
       THEN /\ NewCode
            /\ IF a.asked # NotAsked
                 THEN asked' = a.asked /\ UNCHANGED requests
                 ELSE /\ requests < MaxRequests
                      /\ requests' = requests + 1
                      /\ asked' = requests'
       ELSE UNCHANGED <<otp, otpLapsed, otpAttempts, minted, tries, asked, requests>>
  /\ Goes(p, Idle)
  /\ UNCHANGED <<trip, completion, waited, sosOpen, verified, codeFailures>>

CancelEnd(p) ==
  /\ Does(p, "idle")
  /\ trip = "RIDE_STARTED" /\ asked # NotAsked
  /\ Goes(p, Reads("withdraw", "NONE"))
  /\ UNCHANGED <<ride, waited, sosOpen, minted, requests, tries, verified, codeFailures>>

Withdraw(p) ==
  /\ Does(p, "withdraw")
  /\ IF trip = "RIDE_STARTED" /\ asked # NotAsked
       THEN asked' = NotAsked /\ otp' = NoCode /\ otpLapsed' = FALSE /\ otpAttempts' = 0
       ELSE UNCHANGED <<asked, otp, otpLapsed, otpAttempts>>
  /\ Goes(p, Idle)
  /\ UNCHANGED <<trip, completion, waited, sosOpen, minted, requests, tries, verified,
                 codeFailures>>

-----------------------------------------------------------------------------
(* Completing the trip.                                                    *)

\* complete() without a code: only in an emergency, or when codes are not enforced.
CompleteWithoutCode(p) ==
  /\ Does(p, "idle")
  /\ trip = "RIDE_STARTED"
  /\ \/ sosOpen /\ Goes(p, Reads("finish", "SOS"))
     \/ ~sosOpen /\ ~EndOtpEnforced /\ Goes(p, Reads("finish", "NOT_REQUIRED"))
  /\ UNCHANGED <<ride, waited, sosOpen, minted, requests, tries, verified, codeFailures>>

\* completeWithoutOtp(): the rider does not respond.
OverrideDue == asked \in waited

Override(p) ==
  /\ Does(p, "idle")
  /\ trip = "RIDE_STARTED" /\ asked # NotAsked
  /\ \/ sosOpen /\ Goes(p, Reads("finish", "SOS"))
     \/ ~sosOpen /\ OverrideDue /\ Goes(p, Reads("finish", "DRIVER_OVERRIDE"))
  /\ UNCHANGED <<ride, waited, sosOpen, minted, requests, tries, verified, codeFailures>>

CompleteAsAdmin(p) ==
  /\ Does(p, "idle")
  /\ trip = "RIDE_STARTED"
  /\ Goes(p, Reads("finish", "ADMIN"))
  /\ UNCHANGED <<ride, waited, sosOpen, minted, requests, tries, verified, codeFailures>>

\* finish(): the trip is priced to the request that was read and completed if
\* it is still under way; with a code, if the code is still the same.
FinishesAnyway(a) == trip = "RIDE_STARTED"
Finishes(a) == trip = "RIDE_STARTED" /\ (a.mode = "OTP" => otp = a.code)

Finish(p) ==
  LET a == attempt[p] IN
  /\ Does(p, "finish") \/ (Does(p, "open") /\ a.phase = "RIDE_STARTED")
  /\ IF Finishes(a)
       THEN /\ trip' = "COMPLETED" /\ otp' = NoCode /\ otpLapsed' = FALSE
            /\ completion' = [mode |-> a.mode, at |-> a.asked]
            /\ verified' = IF a.mode = "OTP" THEN a.code ELSE verified
       ELSE UNCHANGED <<trip, otp, otpLapsed, completion, verified>>
  /\ Goes(p, Idle)
  /\ UNCHANGED <<otpAttempts, asked, waited, sosOpen, minted, requests, tries, codeFailures>>

-----------------------------------------------------------------------------
(* Time, the emergency button, a cancellation, crashes.                    *)

CodeLapses ==
  /\ otp # NoCode /\ ~otpLapsed
  /\ otpLapsed' = TRUE
  /\ UNCHANGED <<trip, otp, otpAttempts, asked, completion, waited, sosOpen, minted,
                 requests, tries, verified, attempt, codeFailures>>

WaitElapses ==
  /\ asked \notin waited \cup {NotAsked}
  /\ waited' = waited \cup {asked}
  /\ UNCHANGED <<ride, sosOpen, minted, requests, tries, verified, attempt, codeFailures>>

SosToggles ==
  /\ trip = "RIDE_STARTED"
  /\ sosOpen' = ~sosOpen
  /\ UNCHANGED <<ride, waited, minted, requests, tries, verified, attempt, codeFailures>>

Cancel ==
  /\ trip = "DRIVER_ARRIVED"
  /\ trip' = "CANCELLED"
  /\ UNCHANGED <<otp, otpLapsed, otpAttempts, asked, completion, waited, sosOpen, minted,
                 requests, tries, verified, attempt, codeFailures>>

Dies(p) ==
  /\ ~Does(p, "idle") /\ codeFailures < MaxCodeFailures
  /\ codeFailures' = codeFailures + 1
  /\ Goes(p, Idle)
  /\ UNCHANGED <<ride, waited, sosOpen, minted, requests, tries, verified>>

Next ==
  \/ \E p \in Attempts :
       \/ Submit(p) \/ Count(p) \/ Rotate(p) \/ Start(p) \/ RequestEnd(p) \/ Ask(p)
       \/ CancelEnd(p) \/ Withdraw(p) \/ CompleteWithoutCode(p) \/ Override(p)
       \/ CompleteAsAdmin(p) \/ Finish(p) \/ Dies(p)
  \/ CodeLapses \/ WaitElapses \/ SosToggles \/ Cancel

Spec == Init /\ [][Next]_tripVars
-----------------------------------------------------------------------------
Handler == [pc : {"idle", "rotate", "open", "count", "ask", "withdraw", "finish"},
            mode : RideCompletionMode \cup {"NONE"}, code : 0..MaxCodes,
            asked : 0..MaxRequests,
            phase : {"DRIVER_ARRIVED", "RIDE_STARTED"}]

TypeOK ==
  /\ trip \in {"DRIVER_ARRIVED", "RIDE_STARTED", "COMPLETED", "CANCELLED"}
  /\ otp \in 0..minted /\ otpLapsed \in BOOLEAN /\ otpAttempts \in Nat
  /\ minted \in 1..MaxCodes /\ requests \in 0..MaxRequests
  /\ asked \in 0..requests /\ waited \subseteq 1..requests
  /\ sosOpen \in BOOLEAN
  /\ completion \in [mode : RideCompletionMode \cup {"NONE"}, at : 0..MaxRequests]
  /\ tries \in Nat /\ verified \in 0..MaxCodes
  /\ attempt \in [Attempts -> Handler]
  /\ codeFailures \in 0..MaxCodeFailures

\* A code stands a limited number of wrong guesses: the configured attempts, one
\* more for each further guess in flight, and one for each handler that died
\* before it had counted or rotated ("on lockout or expiry the code is rotated
\* so a stolen/guessed code is useless", ride-lifecycle.service.ts:193).
GuessesAreLimited ==
  tries <= OtpMaxAttempts + (Cardinality(Attempts) - 1) + codeFailures

\* A code that was replaced, withdrawn or used opens nothing: a ride is started
\* or completed only by the code its rider is shown at that moment.
ReplacedCodeOpensNothingStep == verified' \in {verified, otp}
ReplacedCodeOpensNothing == [][ReplacedCodeOpensNothingStep]_tripVars

\* A trip ended with the rider's code is priced to the request that stands, even
\* when requests were withdrawn and made again while the code was typed.
CodeEndsTheStandingRequest == completion.mode = "OTP" => completion.at = asked

\* The driver ends a trip without the rider only for a request whose wait is over.
OverrideHasWaited == completion.mode = "DRIVER_OVERRIDE" => completion.at \in waited

\* Double taps make one request: while a request stands its moment stays, so the
\* fare stays frozen to it.
RequestStandsStep == asked # NotAsked /\ asked' # NotAsked => asked' = asked
RequestStands == [][RequestStandsStep]_tripVars
=============================================================================
