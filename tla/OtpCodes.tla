------------------------------ MODULE OtpCodes ------------------------------
(***************************************************************************)
(* The verification codes of one phone number and purpose: the budget of   *)
(* sends, the one active code, and its verification (OtpService).          *)
(*                                                                         *)
(* Two documents: otp_send_quotas and otp_verifications.  A code is the    *)
(* number of its send, and so is lastSentAt; a window of the budget has a  *)
(* number too, which stands for its expiresAt.  A request that dies is one *)
(* whose next step is never taken.  `delivered`, `guesses` and `wins`      *)
(* observe what has happened.                                              *)
(***************************************************************************)
EXTENDS Naturals, FiniteSets, FiniteSetTheorems, TLAPS

CONSTANTS
  Senders, Verifiers, \* slots for requests to send a code and to verify one
  MaxAttempts,        \* OTP_MAX_ATTEMPTS
  MaxSendsPerWindow,  \* OTP_MAX_SENDS_PER_WINDOW
  MaxSends,           \* bound: sends reserved
  MaxWindows          \* bound: windows opened

VARIABLES
  quota,         \* [window, sendCount, lastSentAt]; window 0: no document
  windowOver,    \* the quota's expiresAt has passed
  cooled,        \* sends whose cooldown is over
  otp,           \* [doc, code, attempts, verified]; doc 0: no document
  otpExpired,    \* the code's expiresAt has passed
  call,          \* call[p]: the request running in slot p
  sends, windows, docs,   \* how many of each there have been
  delivered,     \* messages WhatsApp has accepted, per window
  guesses, wins  \* of the code written last: comparisons, and requests satisfied

Calls == Senders \cup Verifiers
quotaVars == <<quota, windowOver, cooled, sends, windows>>
codeVars == <<otp, otpExpired, docs>>
seen == <<delivered, guesses, wins>>
otpVars == <<quotaVars, codeVars, seen, call>>

NoQuota == [window |-> 0, sendCount |-> 0, lastSentAt |-> 0]
NoOtp == [doc |-> 0, code |-> 0, attempts |-> 0, verified |-> FALSE]
Resting == [pc |-> "idle", quota |-> NoQuota, over |-> FALSE, code |-> 0,
            doc |-> 0, right |-> FALSE]

Init ==
  /\ quota = NoQuota /\ windowOver = FALSE /\ cooled = {}
  /\ otp = NoOtp /\ otpExpired = FALSE
  /\ call = [p \in Calls |-> Resting]
  /\ sends = 0 /\ windows = 0 /\ docs = 0
  /\ delivered = [w \in 1..MaxWindows |-> 0]
  /\ guesses = 0
  /\ wins = 0

At(p, pc) == call[p].pc = pc
Becomes(p, c) == call' = [call EXCEPT ![p] = c]
Then(p, pc) == Becomes(p, [call[p] EXCEPT !.pc = pc])

-----------------------------------------------------------------------------
(* issue(): reserve a send, write the code, deliver it.                    *)

\* reserveSend judges the cooldown and the cap on the quota it has read.
MaySend ==
  (quota.window # 0 /\ ~windowOver) =>
    /\ quota.lastSentAt \in cooled \cup {0}
    /\ quota.sendCount < MaxSendsPerWindow

ReadQuota(p) ==
  /\ At(p, "idle") /\ sends < MaxSends
  /\ MaySend
  /\ Becomes(p, [Resting EXCEPT !.pc = "reserve", !.quota = quota, !.over = windowOver])
  /\ UNCHANGED <<quotaVars, codeVars, seen>>

\* The conditional update of the open window, the reset of one that is over, or
\* the insert of the first.
Unmoved(q, over) ==
  IF q.window = 0 \/ over THEN quota.window = q.window
  ELSE quota = q \/ (q.lastSentAt = 0 /\ quota.window = q.window /\ quota.sendCount = q.sendCount)

ReserveSend(p) ==
  LET q == call[p].quota
      over == call[p].over
      opens == q.window = 0 \/ over
  IN
  /\ At(p, "reserve") /\ sends < MaxSends
  /\ opens => windows < MaxWindows
  /\ IF Unmoved(q, over)
       THEN /\ sends' = sends + 1
            /\ windows' = IF opens THEN windows + 1 ELSE windows
            /\ windowOver' = (IF opens THEN FALSE ELSE windowOver)
            /\ quota' = [window |-> IF opens THEN windows + 1 ELSE quota.window,
                         sendCount |-> IF opens THEN 1 ELSE quota.sendCount + 1,
                         lastSentAt |-> sends + 1]
            /\ Becomes(p, [call[p] EXCEPT !.pc = "write", !.code = sends + 1,
                                          !.quota = [q EXCEPT !.window = quota'.window]])
       ELSE UNCHANGED <<quota, windowOver, sends, windows>> /\ Becomes(p, Resting)
  /\ UNCHANGED <<cooled, codeVars, seen>>

\* writeCode overwrites the document there is, or creates one.
WriteCode(p) ==
  /\ At(p, "write")
  /\ docs' = IF otp.doc = 0 THEN docs + 1 ELSE docs
  /\ otp' = [doc |-> IF otp.doc = 0 THEN docs + 1 ELSE otp.doc,
             code |-> call[p].code, attempts |-> 0, verified |-> FALSE]
  /\ otpExpired' = FALSE
  /\ guesses' = 0 /\ wins' = 0
  /\ Becomes(p, [call[p] EXCEPT !.pc = "deliver", !.doc = otp'.doc])
  /\ UNCHANGED <<quotaVars, delivered>>

WriteFails(p) ==
  At(p, "write") /\ Then(p, "release") /\ UNCHANGED <<quotaVars, codeVars, seen>>

Deliver(p) ==
  /\ At(p, "deliver")
  /\ delivered' = [delivered EXCEPT ![call[p].quota.window] = @ + 1]
  /\ Becomes(p, Resting)
  /\ UNCHANGED <<quotaVars, codeVars, guesses, wins>>

DeliveryFails(p) ==
  At(p, "deliver") /\ Then(p, "withdraw") /\ UNCHANGED <<quotaVars, codeVars, seen>>

Withdraw(p) ==
  /\ At(p, "withdraw")
  /\ otp' = IF otp.doc = call[p].doc /\ otp.code = call[p].code THEN NoOtp ELSE otp
  /\ Then(p, "release")
  /\ UNCHANGED <<quotaVars, otpExpired, docs, seen>>

\* releaseSend gives back the send only while it is the last one.
GivesBack(c) == quota.window # 0 /\ quota.lastSentAt = c.code /\ quota.sendCount > 0

ReleaseSend(p) ==
  /\ At(p, "release")
  /\ quota' = IF GivesBack(call[p])
                THEN [quota EXCEPT !.sendCount = @ - 1, !.lastSentAt = call[p].quota.lastSentAt]
                ELSE quota
  /\ Becomes(p, Resting)
  /\ UNCHANGED <<windowOver, cooled, sends, windows, codeVars, seen>>

-----------------------------------------------------------------------------
(* verify(): count the attempt, compare, claim, delete.                    *)

Usable == otp.code # 0 /\ ~otp.verified /\ ~otpExpired /\ otp.attempts < MaxAttempts

ReadCode(p) ==
  /\ At(p, "idle") /\ Usable
  /\ \E right \in BOOLEAN :
       Becomes(p, [Resting EXCEPT !.pc = "count", !.doc = otp.doc, !.code = otp.code,
                                  !.right = right])
  /\ UNCHANGED <<quotaVars, codeVars, seen>>

Countable(c) ==
  otp.doc = c.doc /\ otp.code = c.code /\ ~otp.verified /\ otp.attempts < MaxAttempts

CountAttempt(p) ==
  LET c == call[p] IN
  /\ At(p, "count")
  /\ IF Countable(c)
       THEN /\ otp' = [otp EXCEPT !.attempts = @ + 1]
            /\ guesses' = guesses + 1
            /\ IF c.right THEN Then(p, "claim") ELSE Becomes(p, Resting)
       ELSE UNCHANGED <<otp, guesses>> /\ Becomes(p, Resting)
  /\ UNCHANGED <<quotaVars, otpExpired, docs, delivered, wins>>

\* (A bug: the claim forgets the hash.)
ClaimableAnyCode(c) == otp.doc = c.doc /\ ~otp.verified
Claimable(c) == otp.doc = c.doc /\ otp.code = c.code /\ ~otp.verified

Claim(p) ==
  LET c == call[p] IN
  /\ At(p, "claim")
  /\ IF Claimable(c)
       THEN /\ otp' = [otp EXCEPT !.verified = TRUE]
            /\ wins' = wins + 1
            /\ Then(p, "delete")
       ELSE UNCHANGED <<otp, wins>> /\ Becomes(p, Resting)
  /\ UNCHANGED <<quotaVars, otpExpired, docs, delivered, guesses>>

\* The document goes, whatever code it holds by now.
DeleteCode(p) ==
  /\ At(p, "delete")
  /\ otp' = IF otp.doc = call[p].doc THEN NoOtp ELSE otp
  /\ Becomes(p, Resting)
  /\ UNCHANGED <<quotaVars, otpExpired, docs, seen>>

\* discard(): the number turned out to be taken.
Discard ==
  /\ otp.doc # 0
  /\ otp' = NoOtp
  /\ UNCHANGED <<quotaVars, otpExpired, docs, seen, call>>

-----------------------------------------------------------------------------
\* Time: a cooldown ends, a window ends, a code expires; MongoDB drops what is over.
Cools ==
  /\ quota.lastSentAt \notin cooled \cup {0}
  /\ cooled' = cooled \cup {quota.lastSentAt}
  /\ UNCHANGED <<quota, windowOver, sends, windows, codeVars, seen, call>>

WindowEnds ==
  /\ quota.window # 0 /\ ~windowOver
  /\ windowOver' = TRUE
  /\ UNCHANGED <<quota, cooled, sends, windows, codeVars, seen, call>>

QuotaDropped ==
  /\ windowOver
  /\ quota' = NoQuota /\ windowOver' = FALSE
  /\ UNCHANGED <<cooled, sends, windows, codeVars, seen, call>>

CodeExpires ==
  /\ otp.doc # 0
  /\ IF otpExpired THEN otp' = NoOtp /\ otpExpired' = FALSE ELSE otpExpired' = TRUE /\ UNCHANGED otp
  /\ UNCHANGED <<quotaVars, docs, seen, call>>

Next ==
  \/ \E p \in Senders :
       \/ ReadQuota(p) \/ ReserveSend(p) \/ WriteCode(p) \/ WriteFails(p)
       \/ Deliver(p) \/ DeliveryFails(p) \/ Withdraw(p) \/ ReleaseSend(p)
  \/ \E p \in Verifiers : ReadCode(p) \/ CountAttempt(p) \/ Claim(p) \/ DeleteCode(p)
  \/ Discard \/ Cools \/ WindowEnds \/ QuotaDropped \/ CodeExpires

Spec == Init /\ [][Next]_otpVars

-----------------------------------------------------------------------------
TypeOK ==
  /\ quota \in [window : 0..MaxWindows, sendCount : 0..MaxSendsPerWindow, lastSentAt : 0..MaxSends]
  /\ otp \in [doc : 0..MaxSends, code : 0..MaxSends, attempts : 0..MaxAttempts, verified : BOOLEAN]
  /\ cooled \subseteq 1..MaxSends
  /\ windowOver \in BOOLEAN /\ otpExpired \in BOOLEAN

\* However requests overlap and fail, and across a window's end, no window delivers
\* more messages than OTP_MAX_SENDS_PER_WINDOW (reserveSend, releaseSend).
WindowsKeepTheCap ==
  \A w \in 1..MaxWindows : delivered[w] <= MaxSendsPerWindow

\* "Attempts are counted atomically before the comparison, so parallel guesses cannot
\* exceed OTP_MAX_ATTEMPTS" (otp.service.ts:58).
GuessesFit == guesses <= MaxAttempts

\* "Exactly one request can win a correct code" (otp.service.ts:256).
OneWinner == wins <= 1

Claims(p) == At(p, "claim") /\ call'[p].pc = "delete"
\* A resend overwrites the hash, so a code verifies nothing once a newer one is
\* written, however far its verification had come (otp.service.ts:55).
ReplacedCodesLoseStep == \A p \in Verifiers : Claims(p) => call[p].code = otp.code
ReplacedCodesLose == [][ReplacedCodesLoseStep]_otpVars

-----------------------------------------------------------------------------
(* Proofs.                                                                 *)

SlotsAndLimits ==
  /\ IsFiniteSet(Calls) /\ MaxAttempts \in Nat /\ MaxSendsPerWindow \in Nat \ {0}
  /\ MaxSends \in Nat /\ MaxWindows \in Nat

Quota == [window : 0..MaxWindows, sendCount : 0..MaxSendsPerWindow, lastSentAt : 0..MaxSends]
Otp == [doc : 0..MaxSends, code : 0..MaxSends, attempts : 0..MaxAttempts, verified : BOOLEAN]
\* The steps of a request that has reserved a send and not yet settled it.
Reserved == {"write", "deliver", "withdraw", "release"}
Call == [pc : {"idle", "reserve", "count", "claim", "delete"} \cup Reserved, quota : Quota,
         over : BOOLEAN, code : 0..MaxSends, doc : Nat, right : BOOLEAN]

Writing == {p \in Calls : call[p].pc = "write"}
InFlight == {p \in Calls : call[p].pc \in Reserved}
InFlightIn(w) == {p \in InFlight : call[p].quota.window = w}
\* How many sends of its window a reservation made.
Rank(c) == IF c.over THEN 1 ELSE c.quota.sendCount + 1

SendTypes ==
  /\ quota \in Quota /\ call \in [Calls -> Call] /\ sends \in 0..MaxSends /\ windows \in 0..MaxWindows
  /\ delivered \in [1..MaxWindows -> Nat] /\ windowOver \in BOOLEAN /\ cooled \subseteq 1..MaxSends

\* Sends and windows are numbered in order.
SendsAreNumbered ==
  /\ quota.window <= windows /\ quota.lastSentAt <= sends /\ (quota.window = 0 => quota = NoQuota)
  /\ \A p \in InFlight :
       call[p].code \in 1..sends /\ call[p].quota.window \in 1..windows /\ call[p].quota.lastSentAt <= sends
  /\ \A p, q \in InFlight : call[p].code = call[q].code => p = q

\* What was read allowed a send.
ReadAllowsSend ==
  \A p \in Calls : call[p].pc = "reserve" =>
    /\ call[p].quota.lastSentAt <= sends
    /\ call[p].quota.window = 0 => call[p].quota = NoQuota
    /\ call[p].quota.window # 0 /\ ~call[p].over => call[p].quota.sendCount < MaxSendsPerWindow

\* The last send of the open window has the window's count as its rank, and so had the one
\* before it: what is given back is a send of the window that is open.
LastIsOnTop ==
  quota.sendCount > 0 =>
    \A p \in InFlight : call[p].code = quota.lastSentAt =>
      call[p].quota.window = quota.window /\ Rank(call[p]) = quota.sendCount
SendsAreStacked ==
  \A p, q \in InFlight : call[q].code = call[p].quota.lastSentAt =>
    \/ Rank(call[p]) = 1
    \/ call[q].quota.window = call[p].quota.window /\ Rank(call[p]) = Rank(call[q]) + 1

Used(w) == delivered[w] + Cardinality(InFlightIn(w))
UsesAreCounted ==
  \A w \in 1..MaxWindows :
    /\ Used(w) <= MaxSendsPerWindow
    /\ w = quota.window => Used(w) <= quota.sendCount
    /\ w > windows => delivered[w] = 0

SendInv ==
  /\ SendTypes /\ SendsAreNumbered /\ ReadAllowsSend /\ LastIsOnTop /\ SendsAreStacked /\ UsesAreCounted

\* Every document was made for a send of its own; the code written last is compared as often as
\* its document says and won once.
DocumentsAreFew ==
  /\ otp \in Otp /\ otpExpired \in BOOLEAN /\ docs \in Nat
  /\ otp.doc <= docs /\ docs + Cardinality(Writing) <= sends
CodeIsGuarded ==
  /\ guesses \in 0..MaxAttempts /\ (otp.doc # 0 => guesses = otp.attempts)
  /\ wins \in 0..1 /\ (wins = 1 => otp.doc = 0 \/ otp.verified)
  /\ \A p \in Calls : call[p].pc \in {"count", "claim"} => call[p].doc # 0
  /\ otp.code # 0 => otp.doc # 0
CodeInv == DocumentsAreFew /\ CodeIsGuarded

OtpInv == SendInv /\ CodeInv

LEMMA FiniteSlots ==
  ASSUME SlotsAndLimits
  PROVE  /\ IsFiniteSet(Writing) /\ Cardinality(Writing) \in Nat
         /\ \A w : IsFiniteSet(InFlightIn(w)) /\ Cardinality(InFlightIn(w)) \in Nat
  <1>1. Writing \subseteq Calls /\ \A w : InFlightIn(w) \subseteq Calls
    BY DEF Writing, InFlightIn, InFlight
  <1> QED BY <1>1, FS_Subset, FS_CardinalityType DEF SlotsAndLimits

LEMMA FiniteSlotsThen ==
  ASSUME SlotsAndLimits
  PROVE  /\ IsFiniteSet(Writing') /\ Cardinality(Writing') \in Nat
         /\ \A w \in 1..MaxWindows : IsFiniteSet(InFlightIn(w)') /\ Cardinality(InFlightIn(w)') \in Nat
  <1>1. Writing' \subseteq Calls /\ \A w \in 1..MaxWindows : InFlightIn(w)' \subseteq Calls
    BY DEF Writing, InFlightIn, InFlight
  <1> QED BY <1>1, FS_Subset, FS_CardinalityType DEF SlotsAndLimits

LEMMA NothingIsThere ==
  ASSUME SlotsAndLimits
  PROVE  NoQuota \in Quota /\ NoOtp \in Otp /\ Resting \in Call
  <1>1. NoQuota \in Quota
    BY DEF NoQuota, Quota, SlotsAndLimits
  <1>2. NoOtp \in Otp
    BY DEF NoOtp, Otp, SlotsAndLimits
  <1>3. Resting \in Call
    BY <1>1 DEF Resting, Call, SlotsAndLimits
  <1> QED BY <1>1, <1>2, <1>3

LEMMA OtpBegins == SlotsAndLimits /\ Init => OtpInv
  <1> SUFFICES ASSUME SlotsAndLimits, Init PROVE OtpInv
    OBVIOUS
  <1>1. /\ quota = NoQuota /\ windowOver = FALSE /\ cooled = {} /\ otp = NoOtp /\ otpExpired = FALSE
        /\ call = [p \in Calls |-> Resting] /\ sends = 0 /\ windows = 0 /\ docs = 0
        /\ delivered = [w \in 1..MaxWindows |-> 0] /\ guesses = 0 /\ wins = 0
    BY DEF Init
  <1>2. SendTypes
    <2>1. quota \in Quota /\ call \in [Calls -> Call]
      BY <1>1, NothingIsThere
    <2>2. sends \in 0..MaxSends /\ windows \in 0..MaxWindows /\ delivered \in [1..MaxWindows -> Nat]
      BY <1>1 DEF SlotsAndLimits
    <2> QED BY <1>1, <2>1, <2>2 DEF SendTypes
  <1>3. Writing = {} /\ InFlight = {}
    BY <1>1 DEF Writing, InFlight, Resting, Reserved
  <1>4. SendsAreNumbered
    BY <1>1, <1>3 DEF SendsAreNumbered, NoQuota
  <1>5. ReadAllowsSend
    BY <1>1 DEF ReadAllowsSend, Resting
  <1>6. LastIsOnTop /\ SendsAreStacked
    BY <1>3 DEF LastIsOnTop, SendsAreStacked
  <1>7. UsesAreCounted
    <2>1. \A w : InFlightIn(w) = {}
      BY <1>3 DEF InFlightIn
    <2>2. \A w \in 1..MaxWindows : Used(w) = 0
      BY <1>1, <2>1, FS_EmptySet DEF Used
    <2>3. quota.sendCount = 0
      BY <1>1 DEF NoQuota
    <2> QED BY <1>1, <2>2, <2>3 DEF UsesAreCounted, SlotsAndLimits
  <1>8. DocumentsAreFew
    <2>1. Cardinality(Writing) = 0
      BY <1>3, FS_EmptySet
    <2>2. otp \in Otp /\ otp.doc = 0
      BY <1>1, NothingIsThere DEF NoOtp
    <2>3. docs + Cardinality(Writing) <= sends
      BY <1>1, <2>1
    <2>4. docs \in Nat /\ otp.doc <= docs
      BY <1>1, <2>2
    <2>5. otpExpired \in BOOLEAN
      BY <1>1
    <2> QED BY <2>2, <2>3, <2>4, <2>5 DEF DocumentsAreFew
  <1>9. CodeIsGuarded
    BY <1>1 DEF CodeIsGuarded, NoOtp, Resting, SlotsAndLimits
  <1> QED BY <1>2, <1>4, <1>5, <1>6, <1>7, <1>8, <1>9 DEF OtpInv, SendInv, CodeInv

-----------------------------------------------------------------------------
\* Requests come to rest, move on with their reservation, or read the quota as it is.
LEMMA SendsGoOn ==
  ASSUME SlotsAndLimits, SendInv, NEW p \in Calls, NEW c \in Call,
         call' = [call EXCEPT ![p] = c],
         c.pc \in Reserved => p \in InFlight /\ c.quota = call[p].quota /\ c.code = call[p].code
                                /\ c.over = call[p].over,
         c.pc = "reserve" => c.quota = quota /\
         (quota.window # 0 /\ ~c.over => quota.sendCount < MaxSendsPerWindow),
         UNCHANGED <<quota, sends, windows, delivered>>, windowOver' \in BOOLEAN, cooled' \subseteq 1..MaxSends
  PROVE  SendInv'
  <1> USE DEF SendInv, SendTypes
  <1>1. /\ call'[p] = c /\ call' \in [Calls -> Call]
        /\ \A q \in Calls : q # p => call'[q] = call[q]
    OBVIOUS
  <1>2. /\ InFlight' \subseteq InFlight
        /\ \A q \in InFlight' : /\ call'[q].quota = call[q].quota /\ call'[q].code = call[q].code
                                /\ call'[q].over = call[q].over
    BY <1>1 DEF InFlight
  <1>3. \A q \in InFlight' : Rank(call'[q]) = Rank(call[q])
    BY <1>2 DEF Rank
  <1>4. SendTypes'
    BY <1>1
  <1>5. SendsAreNumbered'
    BY <1>2 DEF SendsAreNumbered
  <1>6. ReadAllowsSend'
    BY <1>1 DEF ReadAllowsSend, SendsAreNumbered
  <1>7. LastIsOnTop'
    <2> SUFFICES ASSUME quota.sendCount > 0, NEW q \in InFlight', call'[q].code = quota.lastSentAt
                 PROVE  call'[q].quota.window = quota.window /\ Rank(call'[q]) = quota.sendCount
      BY DEF LastIsOnTop, Rank
    <2> QED BY <1>2, <1>3 DEF LastIsOnTop
  <1>8. SendsAreStacked'
    <2> SUFFICES ASSUME NEW a \in InFlight', NEW b \in InFlight', call'[b].code = call'[a].quota.lastSentAt
                 PROVE  \/ Rank(call'[a]) = 1
                        \/ /\ call'[b].quota.window = call'[a].quota.window
                           /\ Rank(call'[a]) = Rank(call'[b]) + 1
      BY DEF SendsAreStacked, Rank
    <2> QED BY <1>2, <1>3 DEF SendsAreStacked
  <1>9. UsesAreCounted'
    <2> SUFFICES ASSUME NEW w \in 1..MaxWindows
                 PROVE  /\ Used(w)' <= MaxSendsPerWindow
                        /\ w = quota.window => Used(w)' <= quota.sendCount
                        /\ w > windows => delivered[w] = 0
      BY DEF UsesAreCounted, Used
    <2>1. InFlightIn(w)' \subseteq InFlightIn(w)
      BY <1>2 DEF InFlightIn
    <2>2. /\ Cardinality(InFlightIn(w)') <= Cardinality(InFlightIn(w))
          /\ Cardinality(InFlightIn(w)') \in Nat /\ Cardinality(InFlightIn(w)) \in Nat
      BY <2>1, FiniteSlots, FiniteSlotsThen, FS_Subset
    <2>3. delivered[w] \in Nat /\ quota.sendCount \in Nat
      BY DEF Quota
    <2> QED BY <2>2, <2>3 DEF UsesAreCounted, Used, SlotsAndLimits
  <1> QED BY <1>4, <1>5, <1>6, <1>7, <1>8, <1>9

\* A request that leaves takes its reservation along.
LEMMA OneFewerIn ==
  ASSUME SlotsAndLimits, SendInv, NEW p \in InFlight, NEW c \in Call, c.pc \notin Reserved,
         call' = [call EXCEPT ![p] = c]
  PROVE  /\ InFlight' = InFlight \ {p}
         /\ \A q \in InFlight' : q # p /\ q \in InFlight /\ call'[q] = call[q]
         /\ \A q \in Calls : call'[q].pc = "reserve" => (q # p /\ call'[q] = call[q]) \/ q = p
         /\ \A w \in 1..MaxWindows :
              Cardinality(InFlightIn(w)') =
                IF w = call[p].quota.window THEN Cardinality(InFlightIn(w)) - 1 ELSE Cardinality(InFlightIn(w))
  <1> USE DEF SendInv, SendTypes
  <1>1. /\ p \in Calls /\ call'[p] = c /\ \A q \in Calls : q # p => call'[q] = call[q]
    BY DEF InFlight
  <1>2. InFlight' = InFlight \ {p}
    BY <1>1 DEF InFlight
  <1>3. ASSUME NEW w \in 1..MaxWindows
        PROVE  Cardinality(InFlightIn(w)') =
                 IF w = call[p].quota.window THEN Cardinality(InFlightIn(w)) - 1 ELSE Cardinality(InFlightIn(w))
    <2>1. CASE w = call[p].quota.window
      <3>1. InFlightIn(w)' = InFlightIn(w) \ {p} /\ p \in InFlightIn(w)
        BY <1>1, <1>2, <2>1 DEF InFlightIn, InFlight
      <3>2. IsFiniteSet(InFlightIn(w))
        BY FiniteSlots
      <3>3. Cardinality(InFlightIn(w) \ {p}) = Cardinality(InFlightIn(w)) - 1
        BY <3>1, <3>2, FS_RemoveElement
      <3> QED BY <2>1, <3>1, <3>3
    <2>2. CASE w # call[p].quota.window
      <3>1. InFlightIn(w)' = InFlightIn(w)
        BY <1>1, <1>2, <2>2 DEF InFlightIn, InFlight
      <3> QED BY <2>2, <3>1
    <2> QED BY <2>1, <2>2
  <1> QED BY <1>1, <1>2, <1>3 DEF InFlight

LEMMA DeliverKeeps ==
  ASSUME SlotsAndLimits, SendInv, NEW p \in Calls, Deliver(p)
  PROVE  SendInv'
  <1> USE DEF SendInv, SendTypes
  <1>1. /\ p \in InFlight /\ call' = [call EXCEPT ![p] = Resting] /\ Resting \in Call
        /\ Resting.pc \notin Reserved /\ Resting.pc # "reserve"
        /\ UNCHANGED <<quota, sends, windows, windowOver, cooled>>
    BY NothingIsThere DEF Deliver, At, Becomes, InFlight, Reserved, Resting, quotaVars
  <1>2. /\ InFlight' \subseteq InFlight
        /\ \A q \in InFlight' : q # p /\ call'[q] = call[q]
        /\ \A w \in 1..MaxWindows :
             Cardinality(InFlightIn(w)') =
               IF w = call[p].quota.window THEN Cardinality(InFlightIn(w)) - 1 ELSE Cardinality(InFlightIn(w))
    BY <1>1, OneFewerIn
  <1>3. call[p].quota.window \in 1..windows /\ call[p].quota.window \in 1..MaxWindows
    BY <1>1 DEF SendsAreNumbered, SlotsAndLimits
  <1>4. delivered' = [delivered EXCEPT ![call[p].quota.window] = @ + 1]
    BY DEF Deliver
  <1>5. SendTypes'
    BY <1>1, <1>3, <1>4
  <1>6. SendsAreNumbered'
    BY <1>1, <1>2 DEF SendsAreNumbered
  <1>7. ReadAllowsSend'
    BY <1>1 DEF ReadAllowsSend
  <1>8. LastIsOnTop' /\ SendsAreStacked'
    BY <1>1, <1>2 DEF LastIsOnTop, SendsAreStacked, Rank
  <1>9. UsesAreCounted'
    <2> SUFFICES ASSUME NEW w \in 1..MaxWindows
                 PROVE  /\ Used(w)' <= MaxSendsPerWindow
                        /\ w = quota.window => Used(w)' <= quota.sendCount
                        /\ w > windows => delivered'[w] = 0
      BY <1>1 DEF UsesAreCounted, Used
    <2>1. Cardinality(InFlightIn(w)) \in Nat /\ delivered[w] \in Nat
      BY FiniteSlots
    <2>2. Used(w)' = Used(w)
      BY <1>2, <1>4, <2>1 DEF Used
    <2>3. w > windows => delivered'[w] = delivered[w]
      BY <1>3, <1>4 DEF SlotsAndLimits
    <2> QED BY <2>2, <2>3 DEF UsesAreCounted
  <1> QED BY <1>5, <1>6, <1>7, <1>8, <1>9

LEMMA ReleaseKeeps ==
  ASSUME SlotsAndLimits, SendInv, NEW p \in Calls, ReleaseSend(p)
  PROVE  SendInv'
  <1> USE DEF SendInv, SendTypes
  <1>1. /\ p \in InFlight /\ call' = [call EXCEPT ![p] = Resting] /\ Resting \in Call
        /\ Resting.pc \notin Reserved /\ Resting.pc # "reserve"
        /\ UNCHANGED <<sends, windows, windowOver, cooled, delivered>>
    BY NothingIsThere DEF ReleaseSend, At, Becomes, InFlight, Reserved, Resting, seen
  <1>2. CASE ~GivesBack(call[p])
    <2>1. quota' = quota
      BY <1>2 DEF ReleaseSend
    <2> QED BY <1>1, <2>1, SendsGoOn
  <1>3. CASE GivesBack(call[p])
    <2> DEFINE last == call[p].quota.lastSentAt
    <2>1. /\ InFlight' \subseteq InFlight
          /\ \A q \in InFlight' : q # p /\ call'[q] = call[q]
          /\ \A w \in 1..MaxWindows :
               Cardinality(InFlightIn(w)') =
                 IF w = call[p].quota.window THEN Cardinality(InFlightIn(w)) - 1 ELSE Cardinality(InFlightIn(w))
      BY <1>1, OneFewerIn
    <2>2. quota' = [quota EXCEPT !.sendCount = @ - 1, !.lastSentAt = last]
      BY <1>3 DEF ReleaseSend
    <2>3. /\ quota.window # 0 /\ quota.sendCount > 0 /\ quota.sendCount \in Nat
          /\ call[p].quota.window = quota.window /\ Rank(call[p]) = quota.sendCount
      BY <1>1, <1>3 DEF GivesBack, LastIsOnTop, Quota
    <2>4. last \in 0..MaxSends /\ last <= sends
      BY <1>1 DEF SendsAreNumbered, Call, Quota
    <2>5. /\ quota'.window = quota.window /\ quota'.sendCount = quota.sendCount - 1
          /\ quota'.lastSentAt = last /\ quota' \in Quota
      <3>1. quota.sendCount - 1 \in 0..MaxSendsPerWindow
        BY <2>3 DEF Quota, SlotsAndLimits
      <3> QED BY <2>2, <2>4, <3>1 DEF Quota
    <2>6. SendTypes'
      BY <1>1, <2>5
    <2>7. SendsAreNumbered'
      BY <1>1, <2>1, <2>3, <2>4, <2>5 DEF SendsAreNumbered
    <2>8. ReadAllowsSend'
      BY <1>1 DEF ReadAllowsSend
    <2>9. LastIsOnTop'
      <3> SUFFICES ASSUME quota'.sendCount > 0, NEW q \in InFlight', call'[q].code = last
                   PROVE  call'[q].quota.window = quota.window /\ Rank(call'[q]) = quota'.sendCount
        BY <2>5 DEF LastIsOnTop, Rank
      <3>1. q \in InFlight /\ call'[q] = call[q]
        BY <2>1
      <3>2. \/ Rank(call[p]) = 1
            \/ call[q].quota.window = call[p].quota.window /\ Rank(call[p]) = Rank(call[q]) + 1
        BY <1>1, <3>1 DEF SendsAreStacked
      <3>3. Rank(call[p]) > 1
        BY <2>3, <2>5
      <3>4. Rank(call[q]) \in Nat
        BY <3>1 DEF Rank, InFlight, Call, Quota
      <3> QED BY <2>3, <2>5, <3>1, <3>2, <3>3, <3>4
    <2>10. SendsAreStacked'
      BY <2>1 DEF SendsAreStacked, Rank
    <2>11. UsesAreCounted'
      <3> SUFFICES ASSUME NEW w \in 1..MaxWindows
                   PROVE  /\ Used(w)' <= MaxSendsPerWindow
                          /\ w = quota.window => Used(w)' <= quota'.sendCount
                          /\ w > windows => delivered[w] = 0
        BY <1>1, <2>5 DEF UsesAreCounted, Used
      <3>1. Cardinality(InFlightIn(w)) \in Nat /\ delivered[w] \in Nat
        BY FiniteSlots
      <3>2. Used(w)' = IF w = quota.window THEN Used(w) - 1 ELSE Used(w)
        BY <1>1, <2>1, <2>3, <3>1 DEF Used
      <3>3. Used(w) \in Nat
        BY <3>1 DEF Used
      <3> QED BY <2>3, <2>5, <3>2, <3>3 DEF UsesAreCounted, SlotsAndLimits
    <2> QED BY <2>6, <2>7, <2>8, <2>9, <2>10, <2>11
  <1> QED BY <1>2, <1>3

LEMMA ReserveKeeps ==
  ASSUME SlotsAndLimits, SendInv, NEW p \in Calls, ReserveSend(p)
  PROVE  SendInv'
  <1> USE DEF SendInv, SendTypes
  <1> DEFINE q == call[p].quota
             over == call[p].over
             opens == q.window = 0 \/ over
  <1>1. CASE ~Unmoved(q, over)
    <2>1. /\ UNCHANGED <<quota, windowOver, sends, windows, cooled, delivered>>
          /\ call' = [call EXCEPT ![p] = Resting]
          /\ Resting.pc \notin Reserved /\ Resting.pc # "reserve"
      BY <1>1 DEF ReserveSend, Becomes, seen, Resting, Reserved
    <2> QED BY <2>1, NothingIsThere, SendsGoOn
  <1>2. CASE Unmoved(q, over)
    <2> DEFINE c == [call[p] EXCEPT !.pc = "write", !.code = sends + 1,
                                    !.quota = [q EXCEPT !.window = quota'.window]]
    <2>1. /\ call[p].pc = "reserve" /\ sends < MaxSends /\ (opens => windows < MaxWindows)
          /\ sends' = sends + 1
          /\ windows' = IF opens THEN windows + 1 ELSE windows
          /\ windowOver' = IF opens THEN FALSE ELSE windowOver
          /\ quota' = [window |-> IF opens THEN windows + 1 ELSE quota.window,
                       sendCount |-> IF opens THEN 1 ELSE quota.sendCount + 1,
                       lastSentAt |-> sends + 1]
          /\ call' = [call EXCEPT ![p] = c]
          /\ UNCHANGED <<cooled, delivered>>
      BY <1>2 DEF ReserveSend, At, Becomes, seen
    <2>2. /\ call[p] \in Call /\ q \in Quota /\ over \in BOOLEAN
          /\ q.lastSentAt <= sends /\ (q.window = 0 => q = NoQuota)
          /\ (~opens => q.sendCount < MaxSendsPerWindow)
      BY <2>1 DEF ReadAllowsSend, Call
    <2>3. ~opens => quota.window = q.window /\ quota.sendCount = q.sendCount /\
          (quota = q \/ q.lastSentAt = 0)
      BY <1>2 DEF Unmoved
    <2>4. /\ quota'.window \in 1..windows' /\ quota'.window \in 1..MaxWindows
          /\ quota'.sendCount \in 1..MaxSendsPerWindow /\ quota'.lastSentAt = sends'
          /\ windows' \in 0..MaxWindows /\ windows <= windows' /\ sends' \in 1..MaxSends
      <3>1. CASE opens
        BY <2>1, <3>1 DEF SlotsAndLimits
      <3>2. CASE ~opens
        <4>1. quota.window # 0 /\ quota.window <= windows /\ quota.window \in 0..MaxWindows
              /\ quota.sendCount \in 0..MaxSendsPerWindow /\ quota.sendCount < MaxSendsPerWindow
          BY <2>2, <2>3, <3>2 DEF SendsAreNumbered, Quota
        <4>2. quota'.window = quota.window /\ quota'.sendCount = quota.sendCount + 1
          BY <2>1, <3>2
        <4> QED BY <2>1, <3>2, <4>1, <4>2 DEF SlotsAndLimits
      <3> QED BY <3>1, <3>2
    <2>5. quota' \in Quota
      <3>1. quota' = [window |-> quota'.window, sendCount |-> quota'.sendCount, lastSentAt |-> sends']
        BY <2>1
      <3> QED BY <2>4, <3>1 DEF Quota, SlotsAndLimits
    <2>6. /\ c \in Call /\ c.pc = "write" /\ c.code = sends' /\ c.over = over
          /\ c.quota.window = quota'.window /\ c.quota.lastSentAt = q.lastSentAt
          /\ c.quota.sendCount = q.sendCount
      <3>1. sends + 1 \in 0..MaxSends
        BY <2>1, <2>4
      <3>2. /\ [q EXCEPT !.window = quota'.window] \in Quota
            /\ [q EXCEPT !.window = quota'.window].window = quota'.window
            /\ [q EXCEPT !.window = quota'.window].lastSentAt = q.lastSentAt
            /\ [q EXCEPT !.window = quota'.window].sendCount = q.sendCount
        <4>1. quota'.window \in 0..MaxWindows
          BY <2>4 DEF SlotsAndLimits
        <4> DEFINE w == quota'.window
        <4> HIDE DEF w
        <4>2. /\ [q EXCEPT !.window = w] \in Quota /\ [q EXCEPT !.window = w].window = w
              /\ [q EXCEPT !.window = w].lastSentAt = q.lastSentAt
              /\ [q EXCEPT !.window = w].sendCount = q.sendCount
          BY <2>2, <4>1 DEF Quota, w
        <4> QED BY <4>2 DEF w
      <3>3. "write" \in {"idle", "reserve", "count", "claim", "delete"} \cup Reserved
        BY DEF Reserved
      <3> QED BY <2>1, <2>2, <3>1, <3>2, <3>3 DEF Call
    <2> HIDE DEF c
    <2>7. /\ p \notin InFlight /\ InFlight' = InFlight \cup {p} /\ call'[p] = c
          /\ \A a \in InFlight : call'[a] = call[a] /\ a # p
          /\ \A a \in Calls : call'[a].pc = "reserve" => call'[a] = call[a]
      BY <2>1, <2>6 DEF InFlight, Reserved
    <2>8. SendTypes'
      <3>1. windowOver' \in BOOLEAN
        BY <2>1
      <3>2. call' \in [Calls -> Call]
        BY <2>1, <2>6
      <3>3. sends' \in 0..MaxSends
        BY <2>4
      <3> QED BY <2>1, <2>4, <2>5, <3>1, <3>2, <3>3
    <2>9. SendsAreNumbered'
      <3>1. quota'.window <= windows' /\ quota'.lastSentAt <= sends' /\ quota'.window # 0
        BY <2>4
      <3>2. \A a \in InFlight' :
              /\ call'[a].code \in 1..sends' /\ call'[a].quota.window \in 1..windows'
              /\ call'[a].quota.lastSentAt <= sends'
        <4> TAKE a \in InFlight'
        <4>1. CASE a = p
          BY <2>1, <2>2, <2>4, <2>6, <2>7, <4>1 DEF Quota
        <4>2. CASE a # p
          <5>1. /\ call'[a] = call[a] /\ call[a].code \in 1..sends /\ call[a].quota.window \in 1..windows
                /\ call[a].quota.lastSentAt <= sends /\ call[a].quota.lastSentAt \in Nat
            BY <2>7, <4>2 DEF SendsAreNumbered, InFlight, Call, Quota
          <5> QED BY <2>1, <2>4, <5>1
        <4> QED BY <4>1, <4>2
      <3>3. \A a, b \in InFlight' : call'[a].code = call'[b].code => a = b
        <4>1. \A a \in InFlight : call[a].code \in 1..sends
          BY DEF SendsAreNumbered
        <4> QED BY <2>1, <2>6, <2>7, <4>1 DEF SendsAreNumbered
      <3> QED BY <3>1, <3>2, <3>3 DEF SendsAreNumbered
    <2>10. ReadAllowsSend'
      <3>1. \A a \in Calls : call[a].quota.lastSentAt \in Nat
        BY DEF Call, Quota
      <3> QED BY <2>1, <2>7, <3>1 DEF ReadAllowsSend
    <2>11. Rank(c) = IF opens THEN 1 ELSE quota'.sendCount
      BY <2>1, <2>2, <2>3, <2>6 DEF Rank, NoQuota
    <2>12. LastIsOnTop'
      <3> SUFFICES ASSUME NEW a \in InFlight', call'[a].code = quota'.lastSentAt
                   PROVE  call'[a].quota.window = quota'.window /\ Rank(call'[a]) = quota'.sendCount
        BY DEF LastIsOnTop, Rank
      <3>1. a = p
        BY <2>1, <2>4, <2>7 DEF SendsAreNumbered
      <3>2. opens => quota'.sendCount = 1
        BY <2>1
      <3> QED BY <2>6, <2>7, <2>11, <3>1, <3>2
    <2>13. SendsAreStacked'
      <3> SUFFICES ASSUME NEW a \in InFlight', NEW b \in InFlight', call'[b].code = call'[a].quota.lastSentAt
                   PROVE  \/ Rank(call'[a]) = 1
                          \/ /\ call'[b].quota.window = call'[a].quota.window
                             /\ Rank(call'[a]) = Rank(call'[b]) + 1
        BY DEF SendsAreStacked, Rank
      <3>1. CASE a # p /\ b # p
        BY <2>7, <3>1 DEF SendsAreStacked
      <3>2. b # p
        <4>1. call'[a].quota.lastSentAt <= sends
          BY <2>2, <2>6, <2>7 DEF SendsAreNumbered
        <4> QED BY <2>1, <2>6, <2>7, <4>1
      <3>3. CASE a = p
        <4>1. b \in InFlight /\ call'[b] = call[b] /\ call[b].code = q.lastSentAt /\ q.lastSentAt # 0
          BY <2>6, <2>7, <3>2, <3>3 DEF SendsAreNumbered
        <4>2. CASE opens
          BY <2>7, <2>11, <3>3, <4>2
        <4>3. CASE ~opens
          <5>1. quota = q /\ Rank(c) = quota.sendCount + 1 /\ c.quota.window = quota.window
            BY <2>1, <2>3, <2>6, <2>11, <4>1, <4>3
          <5>2. CASE quota.sendCount = 0
            BY <2>7, <3>3, <5>1, <5>2
          <5>3. CASE quota.sendCount > 0
            BY <2>7, <3>3, <4>1, <5>1, <5>3 DEF LastIsOnTop
          <5> QED BY <5>2, <5>3 DEF Quota
        <4> QED BY <4>2, <4>3
      <3> QED BY <3>1, <3>2, <3>3
    <2>14. UsesAreCounted'
      <3> SUFFICES ASSUME NEW w \in 1..MaxWindows
                   PROVE  /\ Used(w)' <= MaxSendsPerWindow
                          /\ w = quota'.window => Used(w)' <= quota'.sendCount
                          /\ w > windows' => delivered[w] = 0
        BY <2>1 DEF UsesAreCounted, Used
      <3>1. /\ Cardinality(InFlightIn(w)) \in Nat /\ delivered[w] \in Nat /\ IsFiniteSet(InFlightIn(w))
            /\ Used(w) \in Nat
        BY FiniteSlots DEF Used
      <3>2. CASE w # quota'.window
        <4>1. InFlightIn(w)' = InFlightIn(w)
          BY <2>6, <2>7, <3>2 DEF InFlightIn
        <4> QED BY <2>1, <2>4, <3>1, <3>2, <4>1 DEF UsesAreCounted, Used
      <3>3. CASE w = quota'.window
        <4>1. InFlightIn(w)' = InFlightIn(w) \cup {p} /\ p \notin InFlightIn(w)
          BY <2>6, <2>7, <3>3 DEF InFlightIn
        <4>2. Cardinality(InFlightIn(w) \cup {p}) = Cardinality(InFlightIn(w)) + 1
          BY <3>1, <4>1, FS_AddElement
        <4>3. Used(w)' = Used(w) + 1
          BY <2>1, <3>1, <4>1, <4>2 DEF Used
        <4>4. CASE opens
          <5>1. w = windows + 1
            BY <2>1, <3>3, <4>4
          <5>2. InFlightIn(w) = {}
            BY <5>1 DEF InFlightIn, SendsAreNumbered
          <5>3. Used(w) = 0
            <6>1. Cardinality(InFlightIn(w)) = 0
              BY <5>2, FS_EmptySet
            <6>2. delivered[w] = 0
              BY <5>1 DEF UsesAreCounted
            <6> QED BY <6>1, <6>2 DEF Used
          <5> QED BY <2>1, <2>4, <3>3, <4>3, <4>4, <5>3 DEF SlotsAndLimits
        <4>5. CASE ~opens
          <5>1. w = quota.window /\ quota'.sendCount = quota.sendCount + 1 /\
                quota.sendCount < MaxSendsPerWindow
            BY <2>1, <2>2, <2>3, <3>3, <4>5
          <5>2. Used(w) <= quota.sendCount /\ quota.sendCount \in Nat
            BY <5>1 DEF UsesAreCounted, Quota
          <5> QED BY <2>1, <2>4, <3>1, <3>3, <4>3, <5>1, <5>2 DEF SlotsAndLimits
        <4> QED BY <4>4, <4>5
      <3> QED BY <3>2, <3>3
    <2> QED BY <2>8, <2>9, <2>10, <2>12, <2>13, <2>14
  <1> QED BY <1>1, <1>2

LEMMA QuotaDroppedKeeps ==
  ASSUME SlotsAndLimits, SendInv, QuotaDropped
  PROVE  SendInv'
  <1> USE DEF SendInv, SendTypes
  <1>1. /\ quota' = NoQuota /\ windowOver' = FALSE
        /\ UNCHANGED <<cooled, sends, windows, call, delivered>>
    BY DEF QuotaDropped, seen
  <1>2. NoQuota.window = 0 /\ NoQuota.sendCount = 0 /\ NoQuota.lastSentAt = 0
    BY DEF NoQuota
  <1>3. SendTypes'
    BY <1>1, NothingIsThere
  <1>4. SendsAreNumbered'
    BY <1>1, <1>2 DEF SendsAreNumbered, InFlight
  <1>5. ReadAllowsSend'
    BY <1>1 DEF ReadAllowsSend
  <1>6. LastIsOnTop' /\ SendsAreStacked'
    BY <1>1, <1>2 DEF LastIsOnTop, SendsAreStacked, Rank, InFlight
  <1>7. UsesAreCounted'
    <2>1. \A w \in 1..MaxWindows : Used(w)' = Used(w)
      BY <1>1 DEF Used, InFlightIn, InFlight
    <2> QED BY <1>1, <1>2, <2>1 DEF UsesAreCounted
  <1> QED BY <1>3, <1>4, <1>5, <1>6, <1>7

LEMMA OthersKeepSends ==
  ASSUME SlotsAndLimits, SendInv, UNCHANGED <<quota, call, sends, windows, delivered>>,
         windowOver' \in BOOLEAN, cooled' \subseteq 1..MaxSends
  PROVE  SendInv'
  <1>1. \A w \in 1..MaxWindows : Used(w)' = Used(w)
    BY DEF Used, InFlightIn, InFlight
  <1>2. SendTypes'
    BY DEF SendInv, SendTypes
  <1>3. SendsAreNumbered' /\ ReadAllowsSend'
    BY DEF SendInv, SendsAreNumbered, ReadAllowsSend, InFlight
  <1>4. LastIsOnTop' /\ SendsAreStacked'
    BY DEF SendInv, LastIsOnTop, SendsAreStacked, InFlight, Rank
  <1>5. UsesAreCounted'
    BY <1>1 DEF SendInv, UsesAreCounted
  <1> QED BY <1>2, <1>3, <1>4, <1>5 DEF SendInv

-----------------------------------------------------------------------------
\* A request that does not write comes, goes or stays; a document stays as it is or goes.
LEMMA CodesRest ==
  ASSUME SlotsAndLimits, SendTypes, CodeInv, Writing' \subseteq Writing, otp' \in {otp, NoOtp},
         UNCHANGED <<docs, guesses, wins, sends>>, otpExpired' \in BOOLEAN,
         \A p \in Calls : call'[p].pc \in {"count", "claim"} => call'[p].doc # 0
  PROVE  CodeInv'
  <1> USE DEF CodeInv
  <1>1. /\ Cardinality(Writing') <= Cardinality(Writing)
        /\ Cardinality(Writing') \in Nat /\ Cardinality(Writing) \in Nat
    BY FiniteSlots, FiniteSlotsThen, FS_Subset
  <1>2. NoOtp.doc = 0 /\ NoOtp.code = 0 /\ NoOtp \in Otp
    BY NothingIsThere DEF NoOtp
  <1>3. DocumentsAreFew'
    <2>1. otp' \in Otp /\ otp'.doc <= docs
      BY <1>2 DEF DocumentsAreFew
    <2>2. docs + Cardinality(Writing') <= sends
      BY <1>1 DEF DocumentsAreFew, SendTypes
    <2> QED BY <2>1, <2>2 DEF DocumentsAreFew
  <1>4. CodeIsGuarded'
    BY <1>2 DEF CodeIsGuarded
  <1> QED BY <1>3, <1>4

LEMMA WritersAreCounted ==
  ASSUME SlotsAndLimits, SendTypes, NEW p \in Calls, NEW c, call' = [call EXCEPT ![p] = c]
  PROVE  /\ c.pc # "write" => Writing' \subseteq Writing
         /\ c.pc # "write" /\ call[p].pc = "write" => Cardinality(Writing') = Cardinality(Writing) - 1
         /\ c.pc = "write" /\ call[p].pc # "write" => Cardinality(Writing') = Cardinality(Writing) + 1
  <1> USE DEF SendTypes
  <1>1. call'[p] = c /\ \A q \in Calls : q # p => call'[q] = call[q]
    OBVIOUS
  <1>2. c.pc # "write" => Writing' \subseteq Writing
    BY <1>1 DEF Writing
  <1>3. ASSUME c.pc # "write", call[p].pc = "write"
        PROVE  Cardinality(Writing') = Cardinality(Writing) - 1
    <2>1. Writing' = Writing \ {p} /\ p \in Writing
      BY <1>1, <1>3 DEF Writing
    <2>2. Cardinality(Writing \ {p}) = Cardinality(Writing) - 1
      BY <2>1, FiniteSlots, FS_RemoveElement
    <2> QED BY <2>1, <2>2
  <1>4. ASSUME c.pc = "write", call[p].pc # "write"
        PROVE  Cardinality(Writing') = Cardinality(Writing) + 1
    <2>1. Writing' = Writing \cup {p} /\ p \notin Writing
      BY <1>1, <1>4 DEF Writing
    <2>2. Cardinality(Writing \cup {p}) = Cardinality(Writing) + 1
      BY <2>1, FiniteSlots, FS_AddElement
    <2> QED BY <2>1, <2>2
  <1> QED BY <1>2, <1>3, <1>4

LEMMA ReserveKeepsCodes ==
  ASSUME SlotsAndLimits, OtpInv, NEW p \in Calls, ReserveSend(p)
  PROVE  CodeInv'
  <1> USE DEF OtpInv, SendInv, SendTypes, CodeInv
  <1>1. UNCHANGED <<otp, otpExpired, docs, guesses, wins>> /\ call[p].pc = "reserve"
    BY DEF ReserveSend, codeVars, seen, At
  <1>2. CASE ~Unmoved(call[p].quota, call[p].over)
    <2>0. sends' = sends /\ call' = [call EXCEPT ![p] = Resting]
      BY <1>2 DEF ReserveSend, Becomes
    <2>1. Resting.pc = "idle"
      BY DEF Resting
    <2>2. Writing' \subseteq Writing
      BY <2>0, <2>1, WritersAreCounted
    <2> QED BY <1>1, <2>0, <2>1, <2>2, CodesRest DEF CodeIsGuarded, DocumentsAreFew
  <1>3. CASE Unmoved(call[p].quota, call[p].over)
    <2> DEFINE c == [call[p] EXCEPT !.pc = "write", !.code = sends + 1,
                                    !.quota = [call[p].quota EXCEPT !.window = quota'.window]]
    <2>1. call' = [call EXCEPT ![p] = c] /\ sends' = sends + 1
      BY <1>3 DEF ReserveSend, Becomes
    <2>2. c.pc = "write"
      BY DEF Call
    <2> HIDE DEF c
    <2>3. Cardinality(Writing') = Cardinality(Writing) + 1
      BY <1>1, <2>1, <2>2, WritersAreCounted
    <2>4. DocumentsAreFew'
      <3>1. Cardinality(Writing) \in Nat
        BY FiniteSlots
      <3>2. docs' + Cardinality(Writing') <= sends'
        BY <1>1, <2>1, <2>3, <3>1 DEF DocumentsAreFew
      <3> QED BY <1>1, <3>2 DEF DocumentsAreFew
    <2>5. CodeIsGuarded'
      BY <1>1, <2>1, <2>2 DEF CodeIsGuarded
    <2> QED BY <2>4, <2>5
  <1> QED BY <1>2, <1>3

LEMMA WriteKeepsCodes ==
  ASSUME SlotsAndLimits, OtpInv, NEW p \in Calls, WriteCode(p)
  PROVE  OtpInv'
  <1> USE DEF OtpInv, CodeInv
  <1> DEFINE c == [call[p] EXCEPT !.pc = "deliver", !.doc = otp'.doc]
  <1>1. /\ call[p].pc = "write" /\ call' = [call EXCEPT ![p] = c]
        /\ docs' = IF otp.doc = 0 THEN docs + 1 ELSE docs
        /\ otp' = [doc |-> IF otp.doc = 0 THEN docs + 1 ELSE otp.doc,
                   code |-> call[p].code, attempts |-> 0, verified |-> FALSE]
        /\ otpExpired' = FALSE /\ guesses' = 0 /\ wins' = 0
        /\ UNCHANGED <<quota, windowOver, cooled, sends, windows, delivered>>
    BY DEF WriteCode, At, Becomes, quotaVars
  <1>2. /\ call[p] \in Call /\ p \in InFlight /\ call[p].code \in 1..sends /\ sends \in 0..MaxSends
        /\ windowOver \in BOOLEAN /\ cooled \subseteq 1..MaxSends
    BY <1>1 DEF SendInv, SendTypes, InFlight, Reserved, SendsAreNumbered
  <1>3. Cardinality(Writing) \in Nat /\ Cardinality(Writing) >= 1
    <2>1. p \in Writing /\ IsFiniteSet(Writing)
      BY <1>1, FiniteSlots DEF Writing
    <2>2. Cardinality(Writing) \in Nat
      BY FiniteSlots
    <2>3. Cardinality(Writing) # 0
      BY <2>1, FS_EmptySet
    <2> QED BY <2>2, <2>3
  <1>4. /\ otp'.doc \in Nat /\ otp'.doc # 0 /\ otp'.doc <= docs' /\ docs' \in Nat
        /\ docs' + (Cardinality(Writing) - 1) <= sends /\ otp'.doc <= sends
    BY <1>1, <1>2, <1>3 DEF DocumentsAreFew, Otp
  <1>5. c \in Call /\ c.pc = "deliver" /\ c.quota = call[p].quota /\ c.code = call[p].code /\
        c.over = call[p].over
    <2>1. "deliver" \in {"idle", "reserve", "count", "claim", "delete"} \cup Reserved
      BY DEF Reserved
    <2> DEFINE d == otp'.doc
    <2>2. d \in Nat
      BY <1>4
    <2> HIDE DEF d
    <2>3. /\ [call[p] EXCEPT !.pc = "deliver", !.doc = d] \in Call
          /\ [call[p] EXCEPT !.pc = "deliver", !.doc = d].pc = "deliver"
          /\ [call[p] EXCEPT !.pc = "deliver", !.doc = d].quota = call[p].quota
          /\ [call[p] EXCEPT !.pc = "deliver", !.doc = d].code = call[p].code
          /\ [call[p] EXCEPT !.pc = "deliver", !.doc = d].over = call[p].over
      BY <1>2, <2>1, <2>2 DEF Call
    <2> QED BY <2>3 DEF d
  <1> HIDE DEF c
  <1>6. SendInv'
    BY <1>1, <1>2, <1>5, SendsGoOn
  <1>7. DocumentsAreFew'
    <2>1. Cardinality(Writing') = Cardinality(Writing) - 1
      BY <1>1, <1>5, WritersAreCounted DEF SendInv
    <2>2. otp' \in Otp
      <3>1. otp'.doc \in 0..MaxSends /\ call[p].code \in 0..MaxSends /\ 0 \in 0..MaxAttempts
        BY <1>2, <1>4 DEF SlotsAndLimits
      <3>2. otp' = [doc |-> otp'.doc, code |-> call[p].code, attempts |-> 0, verified |-> FALSE]
        BY <1>1
      <3> DEFINE d == otp'.doc
      <3> HIDE DEF d
      <3>3. [doc |-> d, code |-> call[p].code, attempts |-> 0, verified |-> FALSE] \in Otp
        BY <3>1 DEF Otp, d
      <3> QED BY <3>2, <3>3 DEF d
    <2>3. otpExpired' \in BOOLEAN
      BY <1>1
    <2>4. docs' + Cardinality(Writing') <= sends'
      BY <1>1, <1>4, <2>1
    <2> QED BY <1>4, <2>2, <2>3, <2>4 DEF DocumentsAreFew
  <1>8. CodeIsGuarded'
    <2>1. guesses' = 0 /\ wins' = 0 /\ otp'.attempts = 0 /\ otp'.doc # 0
      BY <1>1, <1>4
    <2>2. \A q \in Calls : call'[q].pc \in {"count", "claim"} => call'[q].doc # 0
      BY <1>1, <1>5 DEF CodeIsGuarded, SendInv, SendTypes
    <2> QED BY <2>1, <2>2 DEF CodeIsGuarded, SlotsAndLimits
  <1> QED BY <1>6, <1>7, <1>8

\* Every other step of a request: it moves on with its reservation, reads, or rests.
LEMMA RequestKeeps ==
  ASSUME SlotsAndLimits, OtpInv, NEW p \in Calls,
         ReadQuota(p) \/ WriteFails(p) \/ DeliveryFails(p) \/ Withdraw(p) \/ ReadCode(p) \/ DeleteCode(p)
  PROVE  OtpInv'
  <1> USE DEF OtpInv, CodeInv
  <1>1. UNCHANGED <<quota, windowOver, cooled, sends, windows, delivered, docs, guesses, wins, otpExpired>>
    BY DEF ReadQuota, WriteFails, DeliveryFails, Withdraw, ReadCode, DeleteCode, quotaVars, codeVars, seen
  <1>2. otp' \in {otp, NoOtp}
    BY DEF ReadQuota, WriteFails, DeliveryFails, Withdraw, ReadCode, DeleteCode, codeVars
  <1>3. /\ call \in [Calls -> Call] /\ quota \in Quota /\ windowOver \in BOOLEAN /\
           cooled \subseteq 1..MaxSends
        /\ otp \in Otp /\ otpExpired \in BOOLEAN
    BY DEF SendInv, SendTypes, DocumentsAreFew
  <1>4. PICK c \in Call :
          /\ call' = [call EXCEPT ![p] = c]
          /\ c.pc \in Reserved => p \in InFlight /\ c.quota = call[p].quota /\ c.code = call[p].code
                                    /\ c.over = call[p].over
          /\ c.pc = "reserve" => c.quota = quota /\
             (quota.window # 0 /\ ~c.over => quota.sendCount < MaxSendsPerWindow)
          /\ c.pc # "write" /\ (c.pc \in {"count", "claim"} => c.doc # 0)
    <2>1. CASE ReadQuota(p)
      <3> DEFINE c == [Resting EXCEPT !.pc = "reserve", !.quota = quota, !.over = windowOver]
      <3>1. c \in Call /\ c.pc = "reserve" /\ c.quota = quota /\ c.over = windowOver
        BY <1>3, NothingIsThere DEF Call, Resting
      <3>2. call' = [call EXCEPT ![p] = c] /\
            (quota.window # 0 /\ ~windowOver => quota.sendCount < MaxSendsPerWindow)
        BY <2>1 DEF ReadQuota, MaySend, Becomes
      <3> HIDE DEF c
      <3> QED BY <3>1, <3>2 DEF Reserved
    <2>2. CASE WriteFails(p) \/ DeliveryFails(p) \/ Withdraw(p)
      <3>1. PICK pc \in {"release", "withdraw"} : call' = [call EXCEPT ![p] = [call[p] EXCEPT !.pc = pc]]
        BY <2>2 DEF WriteFails, DeliveryFails, Withdraw, Then, Becomes
      <3> DEFINE c == [call[p] EXCEPT !.pc = pc]
      <3>2. c \in Call /\ c.pc = pc /\ c.quota = call[p].quota /\ c.code = call[p].code /\
            c.over = call[p].over
        BY <1>3 DEF Call, Reserved
      <3>3. p \in InFlight
        BY <2>2 DEF WriteFails, DeliveryFails, Withdraw, At, InFlight, Reserved
      <3> HIDE DEF c
      <3> QED BY <3>1, <3>2, <3>3 DEF Reserved, c
    <2>3. CASE ReadCode(p)
      <3>1. PICK right \in BOOLEAN :
              call' = [call EXCEPT ![p] = [Resting EXCEPT !.pc = "count", !.doc = otp.doc, !.code = otp.code,
                                                          !.right = right]]
        BY <2>3 DEF ReadCode, Becomes
      <3> DEFINE c == [Resting EXCEPT !.pc = "count", !.doc = otp.doc, !.code = otp.code, !.right = right]
      <3>2. c \in Call /\ c.pc = "count" /\ c.doc = otp.doc
        <4>1. otp.doc \in Nat /\ otp.code \in 0..MaxSends
          BY <1>3 DEF Otp
        <4> DEFINE d == otp.doc  k == otp.code
        <4> HIDE DEF d, k
        <4>2. [Resting EXCEPT !.pc = "count", !.doc = d, !.code = k, !.right = right] \in Call
          BY <4>1, NothingIsThere DEF Call, d, k
        <4>3. c \in Call
          BY <4>2 DEF d, k
        <4> QED BY <4>3 DEF Resting
      <3>3. otp.doc # 0
        BY <2>3 DEF ReadCode, Usable, CodeIsGuarded
      <3> HIDE DEF c
      <3> QED BY <3>1, <3>2, <3>3 DEF Reserved, c
    <2>4. CASE DeleteCode(p)
      <3>1. call' = [call EXCEPT ![p] = Resting] /\ Resting.pc = "idle" /\ Resting \in Call
        BY <2>4, NothingIsThere DEF DeleteCode, Becomes, Resting
      <3> QED BY <3>1 DEF Reserved
    <2> QED BY <2>1, <2>2, <2>3, <2>4
  <1>5. SendInv'
    BY <1>1, <1>3, <1>4, SendsGoOn
  <1>6. Writing' \subseteq Writing
    BY <1>4, WritersAreCounted DEF SendInv
  <1>7. \A q \in Calls : call'[q].pc \in {"count", "claim"} => call'[q].doc # 0
    BY <1>3, <1>4 DEF CodeIsGuarded
  <1> QED BY <1>1, <1>2, <1>3, <1>5, <1>6, <1>7, CodesRest DEF SendInv

\* The number rests, its documents are dropped, or time passes.
LEMMA OthersKeep ==
  ASSUME SlotsAndLimits, OtpInv, Discard \/ Cools \/ WindowEnds \/ QuotaDropped \/ CodeExpires \/
         UNCHANGED otpVars
  PROVE  OtpInv'
  <1> USE DEF OtpInv, CodeInv
  <1>1. UNCHANGED <<sends, windows, delivered, docs, guesses, wins, call>>
    BY DEF Discard, Cools, WindowEnds, QuotaDropped, CodeExpires, otpVars, quotaVars, codeVars, seen
  <1>2. otp' \in {otp, NoOtp}
    BY DEF Discard, Cools, WindowEnds, QuotaDropped, CodeExpires, otpVars, codeVars
  <1>3. otpExpired' \in BOOLEAN
    <2>1. otpExpired' \in {otpExpired, TRUE, FALSE}
      BY DEF Discard, Cools, WindowEnds, QuotaDropped, CodeExpires, otpVars, codeVars
    <2> QED BY <2>1 DEF DocumentsAreFew
  <1>4. CodeInv'
    BY <1>1, <1>2, <1>3, CodesRest DEF SendInv, Writing, CodeIsGuarded
  <1>5. CASE QuotaDropped
    BY <1>4, <1>5, QuotaDroppedKeeps
  <1>6. CASE ~QuotaDropped
    <2>1. quota' = quota
      BY <1>6 DEF Discard, Cools, WindowEnds, CodeExpires, otpVars, quotaVars
    <2>2. windowOver' \in BOOLEAN
      <3>1. windowOver' \in {windowOver, TRUE}
        BY <1>6 DEF Discard, Cools, WindowEnds, CodeExpires, otpVars, quotaVars
      <3> QED BY <3>1 DEF SendInv, SendTypes
    <2>3. cooled' \subseteq 1..MaxSends
      <3>1. cooled' = cooled \/ (cooled' = cooled \cup {quota.lastSentAt} /\ quota.lastSentAt # 0)
        BY <1>6 DEF Discard, Cools, WindowEnds, CodeExpires, otpVars, quotaVars
      <3>2. quota.lastSentAt # 0 => quota.lastSentAt \in 1..MaxSends
        BY DEF SendInv, SendTypes, Quota, SlotsAndLimits
      <3>3. cooled \subseteq 1..MaxSends
        BY DEF SendInv, SendTypes
      <3> DEFINE T == 1..MaxSends
      <3> HIDE DEF T
      <3>4. cooled \subseteq T /\ (quota.lastSentAt # 0 => quota.lastSentAt \in T)
        BY <3>2, <3>3 DEF T
      <3>5. cooled' \subseteq T
        BY <3>1, <3>4
      <3> QED BY <3>5 DEF T
    <2> QED BY <1>1, <1>4, <2>1, <2>2, <2>3, OthersKeepSends
  <1> QED BY <1>5, <1>6

LEMMA CountKeeps ==
  ASSUME SlotsAndLimits, OtpInv, NEW p \in Calls, CountAttempt(p) \/ Claim(p)
  PROVE  OtpInv'
  <1> USE DEF OtpInv, CodeInv
  <1>1. /\ UNCHANGED <<quota, windowOver, cooled, sends, windows, delivered, docs, otpExpired>>
        /\ call[p].pc \in {"count", "claim"}
    BY DEF CountAttempt, Claim, quotaVars, At
  <1>2. /\ call \in [Calls -> Call] /\ windowOver \in BOOLEAN /\ cooled \subseteq 1..MaxSends
        /\ otp \in Otp /\ call[p].doc # 0 /\ call[p] \in Call
    BY <1>1 DEF SendInv, SendTypes, DocumentsAreFew, CodeIsGuarded
  <1>3. PICK c \in Call :
          /\ call' = [call EXCEPT ![p] = c] /\ c.pc \notin Reserved /\ c.pc # "reserve"
          /\ c.pc \in {"count", "claim"} => c.doc # 0
    <2>1. PICK c : call' = [call EXCEPT ![p] = c]
                     /\ c \in {Resting, [call[p] EXCEPT !.pc = "claim"], [call[p] EXCEPT !.pc = "delete"]}
      BY DEF CountAttempt, Claim, Becomes, Then
    <2>2. CASE c = Resting
      <3>1. Resting.pc = "idle"
        BY DEF Resting
      <3> QED BY <2>1, <2>2, <3>1, NothingIsThere DEF Reserved
    <2>3. CASE c \in {[call[p] EXCEPT !.pc = "claim"], [call[p] EXCEPT !.pc = "delete"]}
      <3>1. c \in Call /\ c.pc \in {"claim", "delete"} /\ c.doc # 0
        BY <1>2, <2>3 DEF Call
      <3> QED BY <2>1, <3>1 DEF Reserved
    <2> QED BY <2>1, <2>2, <2>3
  <1>4. SendInv'
    BY <1>1, <1>2, <1>3, SendsGoOn
  <1>5. Writing' \subseteq Writing
    BY <1>3, WritersAreCounted DEF SendInv, Reserved
  <1>6. \A q \in Calls : call'[q].pc \in {"count", "claim"} => call'[q].doc # 0
    BY <1>2, <1>3 DEF CodeIsGuarded
  <1>7. CASE ~(CountAttempt(p) /\ Countable(call[p])) /\ ~(Claim(p) /\ Claimable(call[p]))
    <2>1. UNCHANGED <<otp, guesses, wins>>
      BY <1>7 DEF CountAttempt, Claim
    <2> QED BY <1>1, <1>4, <1>5, <1>6, <2>1, CodesRest DEF SendInv, DocumentsAreFew
  <1>8. CASE CountAttempt(p) /\ Countable(call[p])
    <2>1. /\ otp' = [otp EXCEPT !.attempts = @ + 1] /\ guesses' = guesses + 1 /\ wins' = wins
          /\ otp.doc = call[p].doc /\ ~otp.verified /\ otp.attempts < MaxAttempts
      BY <1>8 DEF CountAttempt, Countable
    <2>2. otp.attempts + 1 \in 0..MaxAttempts
      BY <1>2, <2>1 DEF Otp, SlotsAndLimits
    <2>3. /\ otp' \in Otp /\ otp'.doc = otp.doc /\ otp'.code = otp.code /\ otp'.verified = otp.verified
          /\ otp'.attempts = otp.attempts + 1
      BY <1>2, <2>1, <2>2 DEF Otp
    <2>4. DocumentsAreFew'
      <3>1. Cardinality(Writing') <= Cardinality(Writing)
            /\ Cardinality(Writing') \in Nat /\ Cardinality(Writing) \in Nat
        BY <1>5, FiniteSlots, FiniteSlotsThen, FS_Subset
      <3>2. docs' + Cardinality(Writing') <= sends'
        BY <1>1, <3>1 DEF DocumentsAreFew, SendInv, SendTypes
      <3> QED BY <1>1, <2>3, <3>2 DEF DocumentsAreFew
    <2>5. CodeIsGuarded'
      BY <1>2, <1>6, <2>1, <2>2, <2>3 DEF CodeIsGuarded
    <2> QED BY <1>4, <2>4, <2>5
  <1>9. CASE Claim(p) /\ Claimable(call[p])
    <2>1. /\ otp' = [otp EXCEPT !.verified = TRUE] /\ guesses' = guesses /\ wins' = wins + 1
          /\ otp.doc = call[p].doc /\ ~otp.verified
      BY <1>9 DEF Claim, Claimable
    <2>2. /\ otp' \in Otp /\ otp'.doc = otp.doc /\ otp'.code = otp.code /\ otp'.verified = TRUE
          /\ otp'.attempts = otp.attempts
      BY <1>2, <2>1 DEF Otp
    <2>3. wins = 0
      BY <1>2, <2>1 DEF CodeIsGuarded
    <2>4. DocumentsAreFew'
      <3>1. Cardinality(Writing') <= Cardinality(Writing)
            /\ Cardinality(Writing') \in Nat /\ Cardinality(Writing) \in Nat
        BY <1>5, FiniteSlots, FiniteSlotsThen, FS_Subset
      <3>2. docs' + Cardinality(Writing') <= sends'
        BY <1>1, <3>1 DEF DocumentsAreFew, SendInv, SendTypes
      <3> QED BY <1>1, <2>2, <3>2 DEF DocumentsAreFew
    <2>5. CodeIsGuarded'
      BY <1>6, <2>1, <2>2, <2>3 DEF CodeIsGuarded
    <2> QED BY <1>4, <2>4, <2>5
  <1> QED BY <1>7, <1>8, <1>9

-----------------------------------------------------------------------------
\* However requests overlap and fail, the budget, the documents and the tallies stay as they are
\* meant to, and only a verification of the code that is stored wins.
LEMMA OtpStep ==
  ASSUME SlotsAndLimits
  PROVE  OtpInv /\ [Next]_otpVars => OtpInv'
  <1> SUFFICES ASSUME OtpInv, [Next]_otpVars PROVE OtpInv'
    OBVIOUS
  <1>1. Senders \subseteq Calls /\ Verifiers \subseteq Calls
    BY DEF Calls
  <1>2. ASSUME NEW p \in Calls, ReserveSend(p) PROVE OtpInv'
    BY <1>2, ReserveKeeps, ReserveKeepsCodes DEF OtpInv
  <1>3. ASSUME NEW p \in Calls, Deliver(p) \/ ReleaseSend(p) PROVE OtpInv'
    <2>1. call' = [call EXCEPT ![p] = Resting] /\ Resting.pc = "idle"
      BY <1>3 DEF Deliver, ReleaseSend, Becomes, Resting
    <2>2. UNCHANGED <<otp, otpExpired, docs, guesses, wins, sends>>
      BY <1>3 DEF Deliver, ReleaseSend, quotaVars, codeVars, seen
    <2>3. Writing' \subseteq Writing
      BY <2>1, WritersAreCounted DEF OtpInv, SendInv
    <2>4. \A q \in Calls : call'[q].pc \in {"count", "claim"} => call'[q].doc # 0
      BY <2>1 DEF OtpInv, SendInv, SendTypes, CodeInv, CodeIsGuarded
    <2>5. CodeInv'
      BY <2>2, <2>3, <2>4, CodesRest DEF OtpInv, SendInv, CodeInv, DocumentsAreFew
    <2>6. SendInv'
      BY <1>3, DeliverKeeps, ReleaseKeeps DEF OtpInv
    <2> QED BY <2>5, <2>6 DEF OtpInv
  <1>4. ASSUME NEW p \in Calls, WriteCode(p) PROVE OtpInv'
    BY <1>4, WriteKeepsCodes
  <1>5. ASSUME NEW p \in Calls,
               ReadQuota(p) \/ WriteFails(p) \/ DeliveryFails(p) \/ Withdraw(p) \/ ReadCode(p) \/
               DeleteCode(p)
        PROVE  OtpInv'
    BY <1>5, RequestKeeps
  <1>6. ASSUME NEW p \in Calls, CountAttempt(p) \/ Claim(p) PROVE OtpInv'
    BY <1>6, CountKeeps
  <1>7. CASE Discard \/ Cools \/ WindowEnds \/ QuotaDropped \/ CodeExpires \/ UNCHANGED otpVars
    BY <1>7, OthersKeep
  <1> QED BY <1>1, <1>2, <1>3, <1>4, <1>5, <1>6, <1>7 DEF Next

LEMMA OtpShows ==
  ASSUME SlotsAndLimits, OtpInv
  PROVE  TypeOK /\ WindowsKeepTheCap /\ GuessesFit /\ OneWinner
  <1> USE DEF OtpInv, SendInv, SendTypes, CodeInv, DocumentsAreFew
  <1>1. TypeOK
    BY DEF TypeOK, Quota, Otp
  <1>2. WindowsKeepTheCap
    <2> SUFFICES ASSUME NEW w \in 1..MaxWindows PROVE delivered[w] <= MaxSendsPerWindow
      BY DEF WindowsKeepTheCap
    <2>1. delivered[w] \in Nat /\ Cardinality(InFlightIn(w)) \in Nat
      BY FiniteSlots
    <2>2. delivered[w] + Cardinality(InFlightIn(w)) <= MaxSendsPerWindow
      BY DEF UsesAreCounted, Used
    <2> QED BY <2>1, <2>2 DEF SlotsAndLimits
  <1>3. GuessesFit /\ OneWinner
    BY DEF GuessesFit, OneWinner, CodeIsGuarded, SlotsAndLimits
  <1> QED BY <1>1, <1>2, <1>3

LEMMA OnlyTheCodeWins ==
  ASSUME OtpInv, [Next]_otpVars
  PROVE  ReplacedCodesLoseStep
  <1> SUFFICES ASSUME NEW p \in Verifiers, call[p].pc = "claim", call'[p].pc = "delete"
               PROVE  call[p].code = otp.code
    BY DEF ReplacedCodesLoseStep, Claims, At
  <1>0. p \in Calls /\ call \in [Calls -> Call] /\ Senders \subseteq Calls /\ Verifiers \subseteq Calls
    BY DEF Calls, OtpInv, SendInv, SendTypes
  <1>1. PICK q \in Calls : call[q].pc = "claim" /\ call'[q] # call[q] /\ q = p
    BY <1>0
  <1>2. CASE Claim(p)
    <2>1. CASE Claimable(call[p])
      BY <2>1 DEF Claimable
    <2>2. CASE ~Claimable(call[p])
      <3>1. call'[p] = Resting
        BY <1>0, <1>2, <2>2 DEF Claim, Becomes
      <3> QED BY <3>1 DEF Resting
    <2> QED BY <2>1, <2>2
  <1>3. CASE ~Claim(p)
    <2>1. call' # call
      BY <1>1
    <2>2. \E a \in Calls : \E c : call' = [call EXCEPT ![a] = c] /\ call[a].pc # "claim"
      <3>1. PICK a \in Calls :
              \/ ReadQuota(a) \/ ReserveSend(a) \/ WriteCode(a) \/ WriteFails(a)
              \/ Deliver(a) \/ DeliveryFails(a) \/ Withdraw(a) \/ ReleaseSend(a)
              \/ ReadCode(a) \/ CountAttempt(a) \/ DeleteCode(a) \/ (Claim(a) /\ a # p)
        BY <1>0, <1>3, <2>1 DEF Next, Discard, Cools, WindowEnds, QuotaDropped, CodeExpires, otpVars
      <3>2. CASE Claim(a) /\ a # p
        <4>1. call'[p] = call[p]
          BY <1>0, <3>2 DEF Claim, Becomes, Then
        <4> QED BY <1>1, <4>1
      <3>3. CASE ReadQuota(a) \/ ReadCode(a)
        BY <3>3 DEF ReadQuota, ReadCode, At, Becomes
      <3>4. CASE ReserveSend(a) \/ WriteCode(a) \/ WriteFails(a) \/ Deliver(a) \/ DeliveryFails(a)
        BY <3>4 DEF ReserveSend, WriteCode, WriteFails, Deliver, DeliveryFails, At, Becomes, Then
      <3>5. CASE Withdraw(a) \/ ReleaseSend(a) \/ CountAttempt(a) \/ DeleteCode(a)
        BY <3>5 DEF Withdraw, ReleaseSend, CountAttempt, DeleteCode, At, Becomes, Then
      <3> QED BY <3>1, <3>2, <3>3, <3>4, <3>5
    <2> QED BY <1>0, <1>1, <2>2
  <1> QED BY <1>2, <1>3

\* For any requests in flight and any limits: no window delivers more than its cap, a code is
\* compared at most OTP_MAX_ATTEMPTS times and won once, and only while it is the one stored.
THEOREM CodesAreGuarded ==
  ASSUME SlotsAndLimits
  PROVE  Spec => [](TypeOK /\ WindowsKeepTheCap /\ GuessesFit /\ OneWinner) /\ ReplacedCodesLose
  <1>1. Init => OtpInv
    BY OtpBegins
  <1>2. OtpInv /\ [Next]_otpVars => OtpInv'
    BY OtpStep
  <1>3. OtpInv => TypeOK /\ WindowsKeepTheCap /\ GuessesFit /\ OneWinner
    BY OtpShows
  <1>4. OtpInv /\ [Next]_otpVars => [ReplacedCodesLoseStep]_otpVars
    BY OnlyTheCodeWins
  <1> QED BY <1>1, <1>2, <1>3, <1>4, PTL DEF Spec, ReplacedCodesLose
=============================================================================
