------------------------------ MODULE MCPeople ------------------------------
(* The services about a person's account and safety, and the messages they are sent, side by
   side: each behaviour is one of one service, chosen by part, and the variables of the others
   stay Off. *)
EXTENDS Integers, FiniteSets, FiniteSetTheorems, Sequences, TLC, TLAPS

CONSTANTS
  SignUpForms, OwnedForms, RoleOfForm, SignUpMaxCodes, SignUpMaxSteps,       \* of sign-up
  SignInRequests, SignInMaxSessions, SignInMaxTickets, SignInMaxBlocks,      \* of sessions
  SendSenders, SendMaxAttempts, SendMaxPerWindow, SendMaxSends, SendMaxWindows,  \* of sending codes
  CheckSenders, CheckVerifiers, CheckMaxAttempts, CheckMaxPerWindow, CheckMaxSends,
    CheckMaxWindows,                                                         \* of checking codes
  RatingRides, RatingStars, RatingTaps, RatingMaxErrors,                     \* of ratings
  ComplaintFilers, ComplaintAdmins, ComplaintMaxTickets, ComplaintMaxUpdates,  \* of complaints
  BulkUsers, BulkBatchSize, BulkAdmins, BulkSenders, BulkMaxEdits, BulkMaxBlocks,
    BulkMaxFailures,                                                         \* of broadcasts
  PhoneTokens, PhoneIssued, PhonePeople, PhoneRequests, PhoneDeliveries, PhoneMaxPerUser,
    PhoneMaxRegistrations, PhoneMaxDeliveries,                               \* of push tokens
  NoticeDrivers, NoticeRefunds, NoticeMaxVersion,                            \* of the plan
  CentreNotes, CentreBatches, CentreMaxReads,                                \* of the centre
  PushNotes, PushBatches, PushDevices, PushMaxFailures, PushMaxCrashes,      \* of pushes
  SosPresses, SosContacts, SosTeam, SosUpdateMax, SosMaxRecorded, SosMaxIncidents, SosMaxRounds,
    SosMaxCrashes,                                                           \* of SOS incidents
  BookRequests, BookPhones, BookMax, BookMaxMade                             \* of the contacts

VARIABLES
  part,   \* the service this behaviour is of
  quota, windowOver, cooled, otp, otpExpired, call, sends, windows, docs, delivered, guesses, wins,
  pending, pendingOver, code, fresh, user, profile, sessions, step, codes, signUpDocs, begun,
  status, session, proof, ticket, request, admin, tickets, resets, blocks, redeemed,
  role, delStatus, erased, ride, owed, online, start, deletion, rechecked, restore, delAdmin,
    cache, lookup, starts, ends, delBlocks,
  incidents, links, press, desk, queue, round, recent, confirmed, forgot, revoked, rounds, crashes,
  requests, live, stored, files, changeCall, applied, unsure, raced, undeleted, refused, errors,
  driverStatus, documents, vehicles, kycStored, kycCall, torn, crossed, denied, uploads, moves,
  paid, over, ratings, sum, count, tap, rebuilt, feedbackErrors, feedbackTickets, filer,
    feedbackDesk, shown, feedbackCrossed, updates,
  contacts, made, contactRequest, overlapped, failed,
  broadcast, edit, sender, noted, blocked, past,
  token, phoneRequest, delivery, dead, phoneCount,
  noticeRide, events, heard, notes, record, batch, deliver, active, pushed, counts, app, tally,
  fileStored, fileContent, fileCount, photoRow, photoShown, fileRow, latestFile, fileCall, mover,
    erasure, photoRaced, fileLeaked, fileUnsure, fileFailures

(* The services that are proved about come first, each with its proof; how they run side by side,
   and what that shows, follows the last of them. *)

-----------------------------------------------------------------------------
(* The first and the last of finitely many numbers.                        *)

LEMMA Minimal ==
  ASSUME NEW T, T # {}, \A A \in T : A \subseteq Nat /\ IsFiniteSet(A)
  PROVE  \E A \in T : \A B \in T : B \subseteq A => B = A
  <1>1. IsWellFoundedOn(StrictSubsetOrdering(Nat), FiniteSubsetsOf(Nat))
    BY Zenon, FS_StrictSubsetOrderingWellFounded
  <1>2. T \subseteq FiniteSubsetsOf(Nat)
    BY DEF FiniteSubsetsOf
  <1>3. PICK A \in T : \A B \in T : <<B, A>> \notin StrictSubsetOrdering(Nat)
    BY Zenon, <1>1, <1>2, WFMin
  <1>4. ASSUME NEW B \in T, B \subseteq A PROVE B = A
    <2>1. A \in SUBSET Nat /\ B \in SUBSET Nat
      OBVIOUS
    <2> QED BY Zenon, <1>3, <1>4, <2>1 DEF StrictSubsetOrdering
  <1> QED BY <1>4

LEMMA Least ==
  ASSUME NEW S, S \subseteq Nat, S # {}
  PROVE  \E x \in S : \A y \in S : x <= y
  <1> DEFINE T == {S \cap (0..u) : u \in S}
  <1>1. ASSUME NEW u \in S PROVE S \cap (0..u) \subseteq Nat /\ IsFiniteSet(S \cap (0..u))
    <2>1. IsFiniteSet(0..u)
      BY FS_Interval
    <2>2. IsFiniteSet(S \cap (0..u))
      BY <2>1, FS_Subset
    <2> QED BY <2>2
  <1>2. T # {} /\ \A A \in T : A \subseteq Nat /\ IsFiniteSet(A)
    BY <1>1
  <1> HIDE DEF T
  <1>3. \E A \in T : \A B \in T : B \subseteq A => B = A
    BY <1>2, Minimal
  <1> USE DEF T
  <1>4. PICK x \in S : \A B \in T : B \subseteq S \cap (0..x) => B = S \cap (0..x)
    BY <1>3
  <1>5. ASSUME NEW y \in S, y < x PROVE FALSE
    <2>1. /\ S \cap (0..y) \subseteq S \cap (0..x) /\ S \cap (0..y) \in T
          /\ x \in S \cap (0..x) /\ x \notin S \cap (0..y)
      BY <1>5
    <2> QED BY <1>4, <2>1
  <1> QED BY <1>5

LEMMA Greatest ==
  ASSUME NEW S, S \subseteq Nat, S # {}, IsFiniteSet(S)
  PROVE  \E x \in S : \A y \in S : y <= x
  <1> DEFINE T == {S \ (0..u) : u \in S}
  <1>1. T # {} /\ \A A \in T : A \subseteq Nat /\ IsFiniteSet(A)
    <2>1. \A u \in S : IsFiniteSet(S \ (0..u))
      BY FS_Subset
    <2> QED BY <2>1
  <1> HIDE DEF T
  <1>3. \E A \in T : \A B \in T : B \subseteq A => B = A
    BY <1>1, Minimal
  <1> USE DEF T
  <1>4. PICK x \in S : \A B \in T : B \subseteq S \ (0..x) => B = S \ (0..x)
    BY <1>3
  <1>5. ASSUME NEW y \in S, x < y PROVE FALSE
    <2>1. /\ S \ (0..y) \subseteq S \ (0..x) /\ S \ (0..y) \in T
          /\ y \in S \ (0..x) /\ y \notin S \ (0..y)
      BY <1>5
    <2> QED BY <1>4, <2>1
  <1> QED BY <1>5

-----------------------------------------------------------------------------
(* Broadcasts.  Whoever may send goes on from a cursor behind which everybody was told, with the
   wording of the claim. *)

Bulk == INSTANCE Broadcasts WITH
  Users <- BulkUsers, BatchSize <- BulkBatchSize, Admins <- BulkAdmins, Senders <- BulkSenders,
    MaxEdits <- BulkMaxEdits, MaxBlocks <- BulkMaxBlocks, MaxFailures <- BulkMaxFailures

\* The audience is finite, its accounts are numbered from 1, and a batch is of one at least.
ASSUME AudienceIsNumbered ==
  /\ BulkUsers \subseteq Nat \ {0} /\ IsFiniteSet(BulkUsers)
  /\ BulkBatchSize \in Nat \ {0} /\ BulkMaxEdits \in Nat

LEMMA AudienceIsCounted == ASSUME NEW S PROVE Bulk!Cardinality(S) = Cardinality(S)
  BY DEF Bulk!Cardinality, Cardinality

LEMMA LastIsLast ==
  ASSUME AudienceIsNumbered, NEW told \in SUBSET BulkUsers, told # {}
  PROVE  Bulk!LastOf(told) \in told /\ \A v \in told : v <= Bulk!LastOf(told)
  <1>1. IsFiniteSet(told) /\ told \subseteq Nat
    BY FS_Subset DEF AudienceIsNumbered
  <1>2. \E u \in told : \A v \in told : v <= u
    BY <1>1, Greatest
  <1> QED BY <1>2 DEF Bulk!LastOf

\* A batch is the accounts after the cursor up to its last, and it is empty only at the end.
LEMMA BatchIsNext ==
  ASSUME AudienceIsNumbered, NEW cursor \in BulkUsers \cup {0}
  PROVE  /\ Bulk!Recipients(cursor) \subseteq Bulk!After(cursor)
         /\ \A u \in Bulk!After(cursor), b \in Bulk!Recipients(cursor) : u <= b =>
            u \in Bulk!Recipients(cursor)
         /\ Bulk!Recipients(cursor) = {} => Bulk!After(cursor) = {}
  <1>1. Bulk!After(cursor) \subseteq BulkUsers /\ \A u \in Bulk!After(cursor) : u \in Nat
    BY DEF Bulk!After, AudienceIsNumbered
  <1>2. ASSUME NEW u \in Bulk!After(cursor)
        PROVE  IsFiniteSet({v \in Bulk!After(cursor) : v < u}) /\
               Cardinality({v \in Bulk!After(cursor) : v < u}) \in Nat
    <2>1. {v \in Bulk!After(cursor) : v < u} \subseteq BulkUsers
      BY <1>1
    <2> QED BY <2>1, FS_Subset, FS_CardinalityType DEF AudienceIsNumbered
  <1>3. Bulk!Recipients(cursor) = {u \in Bulk!After(cursor) : Cardinality({v \in Bulk!After(cursor) : v < u}) < BulkBatchSize}
    BY AudienceIsCounted DEF Bulk!Recipients
  <1>4. ASSUME NEW u \in Bulk!After(cursor), NEW b \in Bulk!Recipients(cursor), u <= b
        PROVE  u \in Bulk!Recipients(cursor)
    <2>1. b \in Bulk!After(cursor) /\ Cardinality({v \in Bulk!After(cursor) : v < b}) < BulkBatchSize
      BY <1>3
    <2>2. {v \in Bulk!After(cursor) : v < u} \subseteq {v \in Bulk!After(cursor) : v < b}
      <3>1. \A v \in Bulk!After(cursor) : v < u => v < b
        BY <1>1, <1>4, <2>1
      <3> QED BY <3>1
    <2>3. Cardinality({v \in Bulk!After(cursor) : v < u}) <= Cardinality({v \in Bulk!After(cursor) : v < b})
      BY <1>2, <2>1, <2>2, FS_Subset
    <2>4. Cardinality({v \in Bulk!After(cursor) : v < u}) < BulkBatchSize
      BY <1>2, <2>1, <2>3 DEF AudienceIsNumbered
    <2> QED BY <1>3, <2>4
  <1>5. ASSUME Bulk!After(cursor) # {} PROVE Bulk!Recipients(cursor) # {}
    <2>1. PICK u \in Bulk!After(cursor) : \A v \in Bulk!After(cursor) : u <= v
      BY <1>1, <1>5, Least
    <2>2. {v \in Bulk!After(cursor) : v < u} = {}
      <3>1. \A v \in Bulk!After(cursor) : ~(v < u)
        BY <1>1, <2>1
      <3> QED BY <3>1
    <2>3. Cardinality({v \in Bulk!After(cursor) : v < u}) = 0
      BY <2>2, FS_EmptySet
    <2> QED BY <1>3, <2>3 DEF AudienceIsNumbered
  <1> QED BY <1>3, <1>4, <1>5

Editing == [pc : {"idle", "write"}, title : 0..BulkMaxEdits, schedule : BOOLEAN]
Sending ==
  [pc : {"idle", "next", "notify", "save", "sent"}, cursor : BulkUsers \cup {0}, processed : Nat,
   batch : SUBSET BulkUsers, title : 0..BulkMaxEdits]
BroadcastTypes ==
  /\ broadcast \in Bulk!Broadcast
  /\ edit \in [BulkAdmins -> Editing]
  /\ sender \in [BulkSenders -> Sending]
  /\ noted \in [BulkUsers -> SUBSET (0..BulkMaxEdits)]
  /\ blocked \subseteq BulkUsers
  /\ past \in [edits : 0..BulkMaxEdits, blocks : Nat, failures : Nat]

\* Who sends has what was claimed, and nobody edits or cancels that; nothing was sent before.
ClaimIsKept ==
  \A s \in BulkSenders : sender[s].pc # "idle" =>
    ~Bulk!Editable /\ broadcast.status # "CANCELLED" /\ sender[s].title = broadcast.title
OneWordingYet ==
  \A u \in BulkUsers : noted[u] # {} =>
    noted[u] = {broadcast.title} /\ ~Bulk!Editable /\ broadcast.status # "CANCELLED"

\* Everybody up to a cursor heard of the broadcast, unless a record failed.
Covered(cursor) == \A u \in BulkUsers \ blocked : u <= cursor => noted[u] # {}
CursorsAreCovered ==
  past.failures = 0 =>
    /\ Covered(broadcast.cursor)
    /\ \A s \in BulkSenders : Covered(sender[s].cursor)
    /\ broadcast.status = "SENT" => \A u \in BulkUsers \ blocked : noted[u] # {}

\* A batch leaves out nobody between the cursor and its last; after the last batch there is nobody.
BatchesAreWhole ==
  \A s \in BulkSenders :
    /\ sender[s].pc \in {"notify", "save"} =>
         /\ sender[s].batch # {}
         /\ \A b \in sender[s].batch : b > sender[s].cursor
         /\ \A u \in BulkUsers \ blocked, b \in sender[s].batch :
              u > sender[s].cursor /\ u <= b => u \in sender[s].batch
    /\ sender[s].pc = "save" /\ past.failures = 0 => \A u \in sender[s].batch : noted[u] # {}
    /\ sender[s].pc = "sent" => \A u \in BulkUsers \ blocked : u <= sender[s].cursor

\* While nobody is blocked, every count is of its cursor.
UpTo(cursor) == {u \in BulkUsers : u <= cursor}
CountsAgree ==
  past.blocks = 0 =>
    /\ blocked = {}
    /\ broadcast.status \notin {"SENT", "FAILED"} =>
         broadcast.processed = Cardinality(UpTo(broadcast.cursor))
    /\ broadcast.status = "SENT" => broadcast.processed = Cardinality(BulkUsers)
    /\ \A s \in BulkSenders : sender[s].processed = Cardinality(UpTo(sender[s].cursor))

BroadcastInv ==
  /\ BroadcastTypes /\ ClaimIsKept /\ OneWordingYet
  /\ CursorsAreCovered /\ BatchesAreWhole /\ CountsAgree

LEMMA Numbered == AudienceIsNumbered => \A u \in BulkUsers : u \in Nat /\ u > 0 /\ ~(u <= 0)
  BY DEF AudienceIsNumbered

LEMMA NobodyAtZero ==
  ASSUME AudienceIsNumbered PROVE UpTo(0) = {} /\ Cardinality(UpTo(0)) = 0
  <1>1. UpTo(0) = {}
    BY Numbered DEF UpTo
  <1> QED BY <1>1, FS_EmptySet

LEMMA BroadcastBegins == AudienceIsNumbered /\ Bulk!Init => BroadcastInv
  <1> SUFFICES ASSUME AudienceIsNumbered, Bulk!Init PROVE BroadcastInv
    OBVIOUS
  <1>1. BroadcastTypes
    BY DEF AudienceIsNumbered, Bulk!Init, BroadcastTypes, Bulk!Broadcast, Bulk!BroadcastStatus,
           Bulk!Draft, Editing,
           Bulk!NoEdit, Sending, Bulk!NoSender
  <1>2. ClaimIsKept /\ OneWordingYet /\ BatchesAreWhole
    BY DEF Bulk!Init, ClaimIsKept, OneWordingYet, BatchesAreWhole, Bulk!NoSender
  <1>3. CursorsAreCovered
    BY DEF AudienceIsNumbered, Bulk!Init, Bulk!NoSender, CursorsAreCovered, Covered, Bulk!Draft
  <1>4. CountsAgree
    BY NobodyAtZero DEF Bulk!Init, Bulk!NoSender, CountsAgree, Bulk!Draft
  <1> QED BY <1>1, <1>2, <1>3, <1>4 DEF BroadcastInv

\* Changes of the document and of edits, while it is editable.
LEMMA EditKeeps ==
  ASSUME BroadcastInv, AudienceIsNumbered, NEW a \in BulkAdmins, Bulk!EditRead(a) \/ Bulk!EditWrite(a)
  PROVE  BroadcastInv'
  <1> USE DEF BroadcastInv
  <1>1. CASE Bulk!EditRead(a)
    <2>1. BroadcastTypes'
      <3>1. past.edits + 1 \in 0..BulkMaxEdits
        BY <1>1 DEF Bulk!EditRead, BroadcastTypes, AudienceIsNumbered
      <3>2. past' \in [edits : 0..BulkMaxEdits, blocks : Nat, failures : Nat]
        BY <1>1, <3>1 DEF Bulk!EditRead, BroadcastTypes
      <3>3. PICK new \in Editing : edit' = [edit EXCEPT ![a] = new]
        BY <1>1, <3>1 DEF Bulk!EditRead, BroadcastTypes, Bulk!Broadcast, Editing
      <3> QED BY <1>1, <3>2, <3>3 DEF Bulk!EditRead, BroadcastTypes
    <2>2. past'.blocks = past.blocks /\ past'.failures = past.failures
      BY <1>1 DEF Bulk!EditRead, BroadcastTypes
    <2>3. UNCHANGED <<broadcast, sender, noted, blocked>>
      BY <1>1 DEF Bulk!EditRead
    <2>4. ClaimIsKept' /\ OneWordingYet'
      BY <2>3 DEF ClaimIsKept, OneWordingYet, Bulk!Editable
    <2>5. CursorsAreCovered' /\ BatchesAreWhole' /\ CountsAgree'
      BY <2>2, <2>3 DEF CursorsAreCovered, Covered, BatchesAreWhole, CountsAgree, UpTo
    <2> QED BY <2>1, <2>4, <2>5
  <1>2. CASE Bulk!EditWrite(a)
    <2>1. UNCHANGED <<sender, noted, blocked, past>>
      BY <1>2 DEF Bulk!EditWrite
    <2>2. CASE ~Bulk!Editable
      <3>1. UNCHANGED broadcast
        BY <1>2, <2>2 DEF Bulk!EditWrite, Bulk!Writable
      <3>2. BroadcastTypes'
        BY <1>2, <2>1, <3>1 DEF Bulk!EditWrite, Bulk!NoEdit, Editing, BroadcastTypes, AudienceIsNumbered
      <3>3. ClaimIsKept' /\ OneWordingYet'
        BY <2>1, <3>1 DEF ClaimIsKept, OneWordingYet, Bulk!Editable
      <3>4. CursorsAreCovered' /\ BatchesAreWhole' /\ CountsAgree'
        BY <2>1, <3>1 DEF CursorsAreCovered, Covered, BatchesAreWhole, CountsAgree, UpTo
      <3> QED BY <3>2, <3>3, <3>4
    <2>3. CASE Bulk!Editable
      <3>1. /\ broadcast' = [broadcast EXCEPT !.title = edit[a].title, !.scheduled = edit[a].schedule,
                                             !.status = IF edit[a].schedule THEN "SCHEDULED" ELSE Bulk!Draft]
            /\ edit' = [edit EXCEPT ![a] = Bulk!NoEdit]
        BY <1>2, <2>3 DEF Bulk!EditWrite, Bulk!Writable
      <3>2. BroadcastTypes'
        <4>1. broadcast' \in Bulk!Broadcast
          BY <3>1 DEF BroadcastTypes, Bulk!Broadcast, Editing, Bulk!BroadcastStatus, Bulk!Draft
        <4> QED BY <2>1, <3>1, <4>1 DEF BroadcastTypes, Bulk!NoEdit, Editing, AudienceIsNumbered
      <3>3. /\ broadcast'.cursor = broadcast.cursor /\ broadcast'.processed = broadcast.processed
            /\ broadcast.status \in Bulk!EDITABLE /\ broadcast'.status \in Bulk!EDITABLE
        BY <2>3, <3>1 DEF BroadcastTypes, Bulk!Broadcast, Bulk!Editable, Bulk!EDITABLE
      <3>4. ClaimIsKept' /\ OneWordingYet'
        BY <2>1, <2>3 DEF ClaimIsKept, OneWordingYet
      <3>5. CursorsAreCovered'
        BY <2>1, <3>3 DEF CursorsAreCovered, Covered, Bulk!EDITABLE, Bulk!Draft
      <3>6. BatchesAreWhole'
        BY <2>1 DEF BatchesAreWhole
      <3>7. CountsAgree'
        BY <2>1, <3>3 DEF CountsAgree, UpTo, Bulk!EDITABLE, Bulk!Draft
      <3> QED BY <3>2, <3>4, <3>5, <3>6, <3>7
    <2> QED BY <2>2, <2>3
  <1> QED BY <1>1, <1>2

\* A step that leaves everything but the status and the lease alone: Cancel, LeaseEnds.
LEMMA CancelKeeps ==
  ASSUME BroadcastInv, Bulk!Cancel \/ Bulk!LeaseEnds
  PROVE  BroadcastInv'
  <1> USE DEF BroadcastInv
  <1>1. /\ broadcast' \in Bulk!Broadcast /\ UNCHANGED <<edit, sender, noted, blocked, past>>
        /\ broadcast'.cursor = broadcast.cursor /\ broadcast'.processed = broadcast.processed
        /\ broadcast'.title = broadcast.title
        /\ \/ Bulk!Editable /\ broadcast'.status = "CANCELLED"
           \/ broadcast'.status = broadcast.status
    BY DEF Bulk!Cancel, Bulk!LeaseEnds, BroadcastTypes, Bulk!Broadcast, Bulk!BroadcastStatus
  <1>2. BroadcastTypes'
    BY <1>1 DEF BroadcastTypes
  <1>3. ClaimIsKept' /\ OneWordingYet'
    BY <1>1 DEF ClaimIsKept, OneWordingYet, Bulk!Editable
  <1>4. CursorsAreCovered' /\ BatchesAreWhole'
    BY <1>1 DEF CursorsAreCovered, Covered, BatchesAreWhole
  <1>5. CountsAgree'
    BY <1>1 DEF CountsAgree, UpTo, Bulk!Editable, Bulk!EDITABLE, Bulk!Draft
  <1> QED BY <1>2, <1>3, <1>4, <1>5

LEMMA ClaimKeeps ==
  ASSUME BroadcastInv, NEW s \in BulkSenders, Bulk!SendNow(s) \/ Bulk!RunDue(s)
  PROVE  BroadcastInv'
  <1> USE DEF BroadcastInv
  <1>1. /\ broadcast' = [broadcast EXCEPT !.status = "SENDING", !.leased = TRUE]
        /\ sender' = [sender EXCEPT ![s] = [pc |-> "next", cursor |-> broadcast.cursor, batch |-> {},
                               processed |-> broadcast.processed, title |-> broadcast.title]]
        /\ UNCHANGED <<edit, noted, blocked, past>>
        /\ broadcast.status \in {"DRAFT", "SCHEDULED", "SENDING"}
    BY DEF Bulk!SendNow, Bulk!RunDue, Bulk!Due, Bulk!Delivers, Bulk!Editable, Bulk!EDITABLE, Bulk!Draft
  <1>2. BroadcastTypes'
    BY <1>1 DEF BroadcastTypes, Bulk!Broadcast, Bulk!BroadcastStatus, Sending
  <1>3. /\ broadcast'.cursor = broadcast.cursor /\ broadcast'.processed = broadcast.processed
        /\ broadcast'.title = broadcast.title /\ broadcast'.status = "SENDING"
        /\ sender'[s].pc = "next" /\ sender'[s].cursor = broadcast.cursor
        /\ sender'[s].processed = broadcast.processed /\ sender'[s].title = broadcast.title
        /\ \A r \in BulkSenders : r # s => sender'[r] = sender[r]
    BY <1>1 DEF BroadcastTypes, Bulk!Broadcast
  <1>4. ClaimIsKept' /\ OneWordingYet'
    BY <1>1, <1>3 DEF ClaimIsKept, OneWordingYet, Bulk!Editable, Bulk!EDITABLE, Bulk!Draft
  <1>5. CursorsAreCovered'
    BY <1>1, <1>3 DEF CursorsAreCovered, Covered
  <1>6. BatchesAreWhole'
    BY <1>1, <1>3 DEF BatchesAreWhole
  <1>7. CountsAgree'
    BY <1>1, <1>3 DEF CountsAgree, UpTo
  <1> QED BY <1>2, <1>4, <1>5, <1>6, <1>7

LEMMA NextRecipientsKeeps ==
  ASSUME BroadcastInv, AudienceIsNumbered, NEW s \in BulkSenders, Bulk!NextRecipients(s)
  PROVE  BroadcastInv'
  <1> USE DEF BroadcastInv
  <1> DEFINE told == Bulk!Recipients(sender[s].cursor)
  <1>1. sender[s].cursor \in BulkUsers \cup {0} /\ sender[s].pc = "next"
    BY DEF BroadcastTypes, Sending, Bulk!NextRecipients
  <1>2. /\ told \subseteq Bulk!After(sender[s].cursor)
        /\ \A u \in Bulk!After(sender[s].cursor), b \in told : u <= b => u \in told
        /\ told = {} => Bulk!After(sender[s].cursor) = {}
    BY <1>1, BatchIsNext
  <1>3. told \subseteq BulkUsers
    BY <1>2 DEF Bulk!After
  <1> HIDE DEF told
  <1>4. /\ sender' = [sender EXCEPT ![s].batch = told,
                                   ![s].pc = IF told = {} THEN "sent" ELSE "notify"]
        /\ UNCHANGED <<broadcast, edit, noted, blocked, past>>
    BY DEF Bulk!NextRecipients, told
  <1>5. BroadcastTypes'
    <2>1. sender' \in [BulkSenders -> Sending]
      <3> DEFINE pc == IF told = {} THEN "sent" ELSE "notify"
      <3>1. pc \in {"sent", "notify"}
        OBVIOUS
      <3> HIDE DEF pc
      <3>2. [sender[s] EXCEPT !.batch = told, !.pc = pc] \in Sending
        BY <1>3, <3>1 DEF BroadcastTypes, Sending
      <3>3. sender' = [sender EXCEPT ![s] = [sender[s] EXCEPT !.batch = told, !.pc = pc]]
        BY <1>4 DEF BroadcastTypes, pc
      <3> QED BY <3>2, <3>3 DEF BroadcastTypes
    <2> QED BY <1>4, <2>1 DEF BroadcastTypes
  <1>6. /\ sender'[s].pc = IF told = {} THEN "sent" ELSE "notify"
        /\ sender'[s].batch = told /\ sender'[s].cursor = sender[s].cursor
        /\ sender'[s].processed = sender[s].processed /\ sender'[s].title = sender[s].title
        /\ \A r \in BulkSenders : r # s => sender'[r] = sender[r]
    BY <1>4 DEF BroadcastTypes, Sending
  <1>7. ClaimIsKept' /\ OneWordingYet'
    BY <1>1, <1>4, <1>6 DEF ClaimIsKept, OneWordingYet, Bulk!Editable
  <1>8. CursorsAreCovered' /\ CountsAgree'
    <2>1. /\ \A r \in BulkSenders : sender'[r].cursor = sender[r].cursor
          /\ \A r \in BulkSenders : sender'[r].processed = sender[r].processed
      BY <1>6
    <2>2. CursorsAreCovered'
      BY <1>4, <1>6 DEF CursorsAreCovered, Covered
    <2>3. CountsAgree'
      BY <1>4, <2>1 DEF CountsAgree, UpTo
    <2> QED BY <2>2, <2>3
  <1>9. BatchesAreWhole'
    <2>1. \A u \in BulkUsers \ blocked : u > sender[s].cursor => u \in Bulk!After(sender[s].cursor)
      BY DEF Bulk!After
    <2>2. \A b \in told : b > sender[s].cursor
      BY <1>2 DEF Bulk!After
    <2>3. \A u \in BulkUsers : u <= sender[s].cursor \/ u > sender[s].cursor
      <3>1. PICK c \in BulkUsers \cup {0} : c = sender[s].cursor
        BY <1>1
      <3>2. c \in Nat /\ \A u \in BulkUsers : u \in Nat
        BY Numbered
      <3>3. \A u \in BulkUsers : u <= c \/ u > c
        BY <3>2
      <3> QED BY <3>1, <3>3
    <2>4. /\ sender'[s].pc \in {"notify", "save"} =>
               /\ sender'[s].batch # {}
               /\ \A b \in sender'[s].batch : b > sender'[s].cursor
               /\ \A u \in BulkUsers \ blocked, b \in sender'[s].batch :
                    u > sender'[s].cursor /\ u <= b => u \in sender'[s].batch
          /\ sender'[s].pc # "save"
          /\ sender'[s].pc = "sent" => \A u \in BulkUsers \ blocked : u <= sender'[s].cursor
      BY <1>2, <1>6, <2>1, <2>2, <2>3
    <2> QED BY <1>4, <1>6, <2>4 DEF BatchesAreWhole
  <1> QED BY <1>5, <1>7, <1>8, <1>9

LEMMA NotifyKeeps ==
  ASSUME BroadcastInv, AudienceIsNumbered, NEW s \in BulkSenders, Bulk!Notify(s)
  PROVE  BroadcastInv'
  <1> USE DEF BroadcastInv
  <1>1. PICK lost \in SUBSET sender[s].batch :
          /\ IF lost = {} THEN UNCHANGED past ELSE Cardinality(lost) = 1 /\ Bulk!Fails
          /\ noted' = [u \in BulkUsers |-> IF u \in sender[s].batch \ lost
                                       THEN Bulk!Notified(u, sender[s].title) ELSE noted[u]]
    BY AudienceIsCounted DEF Bulk!Notify
  <1>2. /\ sender[s].pc = "notify" /\ sender' = [sender EXCEPT ![s].pc = "save"]
        /\ UNCHANGED <<broadcast, edit, blocked>>
    BY AudienceIsCounted DEF Bulk!Notify
  <1>3. /\ past' \in [edits : 0..BulkMaxEdits, blocks : Nat, failures : Nat]
        /\ past'.blocks = past.blocks
        /\ past'.failures = 0 => past.failures = 0 /\ lost = {}
    BY <1>1 DEF Bulk!Fails, BroadcastTypes
  <1>4. /\ sender'[s].pc = "save" /\ sender'[s].batch = sender[s].batch
        /\ sender'[s].cursor = sender[s].cursor
        /\ sender'[s].processed = sender[s].processed /\ sender'[s].title = sender[s].title
        /\ \A r \in BulkSenders : r # s => sender'[r] = sender[r]
        /\ sender' \in [BulkSenders -> Sending]
    BY <1>2 DEF BroadcastTypes, Sending
  <1>5. /\ ~Bulk!Editable /\ broadcast.status # "CANCELLED" /\ sender[s].title = broadcast.title
        /\ sender[s].title \in 0..BulkMaxEdits
    BY <1>2 DEF ClaimIsKept, BroadcastTypes, Sending
  <1>6. \A u \in BulkUsers :
          /\ noted'[u] = noted[u] \/ (noted'[u] = {broadcast.title} /\ noted[u] = {})
          /\ u \in sender[s].batch \ lost => noted'[u] # {}
          /\ noted[u] # {} => noted'[u] = noted[u]
    <2>1. ASSUME NEW u \in BulkUsers
          PROVE  noted'[u] = IF u \in sender[s].batch \ lost
                             THEN IF noted[u] = {} THEN {broadcast.title} ELSE noted[u]
                             ELSE noted[u]
      BY <1>1, <1>5 DEF Bulk!Notified
    <2>2. {broadcast.title} # {}
      OBVIOUS
    <2> QED BY <2>1, <2>2
  <1>7. BroadcastTypes'
    <2>1. noted' \in [BulkUsers -> SUBSET (0..BulkMaxEdits)]
      <3>1. \A u \in BulkUsers : noted'[u] \in SUBSET (0..BulkMaxEdits)
        BY <1>5, <1>6 DEF BroadcastTypes
      <3> QED BY <1>1, <3>1
    <2> QED BY <1>2, <1>3, <1>4, <2>1 DEF BroadcastTypes
  <1>8. ClaimIsKept' /\ OneWordingYet'
    BY <1>2, <1>4, <1>5, <1>6 DEF ClaimIsKept, OneWordingYet, Bulk!Editable
  <1>9. CursorsAreCovered'
    BY <1>2, <1>3, <1>4, <1>6 DEF CursorsAreCovered, Covered
  <1>10. CountsAgree'
    BY <1>2, <1>3, <1>4 DEF CountsAgree, UpTo
  <1>11. BatchesAreWhole'
    <2>1. past'.failures = 0 => \A u \in sender'[s].batch : noted'[u] # {}
      BY <1>3, <1>4, <1>6 DEF BroadcastTypes, Sending
    <2>2. ASSUME NEW r \in BulkSenders, r # s, sender[r].pc = "save", past'.failures = 0
          PROVE  \A u \in sender[r].batch : noted'[u] # {}
      BY <1>3, <1>6, <2>2 DEF BatchesAreWhole, BroadcastTypes, Sending
    <2> QED BY <1>2, <1>4, <2>1, <2>2 DEF BatchesAreWhole
  <1> QED BY <1>7, <1>8, <1>9, <1>10, <1>11

\* Behind the last of a batch are those behind the cursor, and the batch.
LEMMA UpToGrows ==
  ASSUME AudienceIsNumbered, NEW old \in BulkUsers \cup {0}, NEW told \in SUBSET BulkUsers,
         NEW cursor \in told, \A b \in told : b > old /\ b <= cursor,
         \A u \in BulkUsers, b \in told : u > old /\ u <= b => u \in told
  PROVE  Cardinality(UpTo(cursor)) = Cardinality(UpTo(old)) + Cardinality(told)
  <1>1. \A u \in BulkUsers : u \in Nat
    BY Numbered
  <1>2. old \in Nat /\ cursor \in Nat /\ cursor > old
    BY <1>1
  <1>3. \A u \in BulkUsers : u <= cursor <=> u <= old \/ u \in told
    <2>1. ASSUME NEW u \in BulkUsers, u <= cursor, ~(u <= old) PROVE u \in told
      BY <1>1, <1>2, <2>1
    <2>2. ASSUME NEW u \in BulkUsers, u <= old PROVE u <= cursor
      BY <1>1, <1>2, <2>2
    <2> QED BY <2>1, <2>2
  <1>4. UpTo(cursor) = UpTo(old) \cup told
    BY <1>3 DEF UpTo
  <1>5. \A u \in BulkUsers : ~(u <= old /\ u > old)
    BY <1>1, <1>2
  <1>6. UpTo(old) \cap told = {}
    BY <1>5 DEF UpTo
  <1>7. /\ IsFiniteSet(UpTo(old)) /\ Cardinality(UpTo(old)) \in Nat
        /\ IsFiniteSet(told) /\ Cardinality(told) \in Nat
    <2>1. UpTo(old) \subseteq BulkUsers /\ IsFiniteSet(BulkUsers)
      BY DEF UpTo, AudienceIsNumbered
    <2> QED BY <2>1, FS_Subset, FS_CardinalityType
  <1>8. Cardinality(UpTo(old) \cap told) = 0
    BY <1>6, FS_EmptySet
  <1>9. Cardinality(UpTo(old) \cup told)
          = Cardinality(UpTo(old)) + Cardinality(told) - Cardinality(UpTo(old) \cap told)
    BY <1>7, FS_Union
  <1> QED BY <1>4, <1>7, <1>8, <1>9

LEMMA SaveProgressKeeps ==
  ASSUME BroadcastInv, AudienceIsNumbered, NEW s \in BulkSenders, Bulk!SaveProgress(s)
  PROVE  BroadcastInv'
  <1> USE DEF BroadcastInv
  <1> DEFINE old == sender[s].cursor
             told == sender[s].batch
             cursor == Bulk!LastOf(told)
             processed == sender[s].processed + Cardinality(told)
  <1>0. /\ sender[s].pc = "save" /\ UNCHANGED <<edit, noted, blocked, past>>
        /\ broadcast' = IF broadcast.status = "SENDING"
                        THEN [broadcast EXCEPT !.cursor = cursor, !.processed = processed, !.leased = TRUE]
                        ELSE broadcast
        /\ sender' = [sender EXCEPT ![s].pc = "next", ![s].cursor = cursor,
                                    ![s].processed = processed, ![s].batch = {}]
    BY AudienceIsCounted DEF Bulk!SaveProgress
  <1>1. /\ told # {} /\ told \subseteq BulkUsers /\ old \in BulkUsers \cup {0} /\ \A b \in told : b > old
        /\ \A u \in BulkUsers \ blocked, b \in told : u > old /\ u <= b => u \in told
        /\ past.failures = 0 => \A u \in told : noted[u] # {}
    BY <1>0 DEF BatchesAreWhole, BroadcastTypes, Sending
  <1>2. cursor \in told /\ \A v \in told : v <= cursor
    BY <1>1, LastIsLast
  <1>3. IsFiniteSet(told) /\ Cardinality(told) \in Nat
    BY <1>1, FS_Subset, FS_CardinalityType DEF AudienceIsNumbered
  <1>4. processed \in Nat /\ cursor \in BulkUsers
    BY <1>1, <1>2, <1>3 DEF BroadcastTypes, Sending
  <1>5. past.failures = 0 => Covered(cursor)
    <2> SUFFICES ASSUME past.failures = 0, NEW u \in BulkUsers \ blocked, u <= cursor PROVE noted[u] # {}
      BY DEF Covered
    <2>1. CASE u <= old
      BY <2>1 DEF CursorsAreCovered, Covered
    <2>2. CASE u > old
      BY <1>1, <1>2, <2>2
    <2> QED BY <1>1, <2>1, <2>2, Numbered
  <1>6. blocked = {} /\ sender[s].processed = Cardinality(UpTo(old)) =>
        processed = Cardinality(UpTo(cursor))
    <2> HIDE DEF old, told, cursor, processed
    <2> SUFFICES ASSUME blocked = {}
                 PROVE  Cardinality(UpTo(cursor)) = Cardinality(UpTo(old)) + Cardinality(told)
      BY DEF processed
    <2>1. /\ told \in SUBSET BulkUsers /\ \A b \in told : b > old /\ b <= cursor
          /\ \A u \in BulkUsers, b \in told : u > old /\ u <= b => u \in told
      BY <1>1, <1>2
    <2> QED BY <1>1, <1>2, <2>1, UpToGrows
  <1> HIDE DEF old, told, cursor, processed
  <1>7. BroadcastTypes'
    <2>1. sender' \in [BulkSenders -> Sending]
      <3> DEFINE new == [sender[s] EXCEPT !.pc = "next", !.cursor = cursor,
                                          !.processed = processed, !.batch = {}]
      <3>1. new \in Sending
        BY <1>4 DEF BroadcastTypes, Sending
      <3>2. sender' = [sender EXCEPT ![s] = new]
        BY <1>0 DEF BroadcastTypes
      <3> QED BY <3>1, <3>2 DEF BroadcastTypes
    <2>2. broadcast' \in Bulk!Broadcast
      <3>1. CASE broadcast.status = "SENDING"
        BY <1>0, <1>4, <3>1 DEF BroadcastTypes, Bulk!Broadcast
      <3> QED BY <1>0, <3>1 DEF BroadcastTypes
    <2> QED BY <1>0, <2>1, <2>2 DEF BroadcastTypes
  <1>8. /\ sender'[s].pc = "next" /\ sender'[s].cursor = cursor /\ sender'[s].processed = processed
        /\ sender'[s].title = sender[s].title
        /\ \A r \in BulkSenders : r # s => sender'[r] = sender[r]
        /\ broadcast'.status = broadcast.status /\ broadcast'.title = broadcast.title
        /\ \/ broadcast' = broadcast
           \/ broadcast.status = "SENDING" /\ broadcast'.cursor = cursor /\ broadcast'.processed = processed
    BY <1>0 DEF BroadcastTypes, Bulk!Broadcast, Sending
  <1>9. ClaimIsKept' /\ OneWordingYet'
    BY <1>0, <1>8 DEF ClaimIsKept, OneWordingYet, Bulk!Editable
  <1>10. CursorsAreCovered'
    BY <1>0, <1>5, <1>8 DEF CursorsAreCovered, Covered
  <1>11. BatchesAreWhole'
    BY <1>0, <1>8 DEF BatchesAreWhole
  <1>12. CountsAgree'
    <2> SUFFICES ASSUME past.blocks = 0 PROVE CountsAgree'
      BY <1>0 DEF CountsAgree
    <2>1. blocked = {} /\ processed = Cardinality(UpTo(cursor))
      BY <1>6 DEF CountsAgree, old
    <2>2. \A n \in BulkSenders : sender'[n].processed = Cardinality(UpTo(sender'[n].cursor))
      BY <1>8, <2>1 DEF CountsAgree
    <2>3. /\ broadcast'.status \notin {"SENT", "FAILED"} =>
               broadcast'.processed = Cardinality(UpTo(broadcast'.cursor))
          /\ broadcast'.status = "SENT" => broadcast'.processed = Cardinality(BulkUsers)
      BY <1>8, <2>1 DEF CountsAgree
    <2> QED BY <1>0, <2>1, <2>2, <2>3 DEF CountsAgree, UpTo
  <1> QED BY <1>7, <1>9, <1>10, <1>11, <1>12

LEMMA EndKeeps ==
  ASSUME BroadcastInv, AudienceIsNumbered, NEW s \in BulkSenders, Bulk!Sent(s) \/ Bulk!SendFails(s)
  PROVE  BroadcastInv'
  <1> USE DEF BroadcastInv
  <1>0. PICK outcome \in {"SENT", "FAILED"} :
          /\ Bulk!Ends(s, outcome) /\ UNCHANGED <<edit, noted, blocked>>
          /\ \/ outcome = "SENT" /\ sender[s].pc = "sent" /\ UNCHANGED past
             \/ outcome = "FAILED" /\ Bulk!Fails /\ sender[s].pc # "idle"
    BY DEF Bulk!Sent, Bulk!SendFails
  <1>1. /\ past' \in [edits : 0..BulkMaxEdits, blocks : Nat, failures : Nat]
        /\ past'.blocks = past.blocks
        /\ past'.failures = 0 => past.failures = 0
    BY <1>0 DEF Bulk!Fails, BroadcastTypes
  <1>2. BroadcastTypes'
    <2>1. sender' \in [BulkSenders -> Sending]
      BY <1>0 DEF Bulk!Ends, BroadcastTypes, Sending, Bulk!NoSender, AudienceIsNumbered
    <2>2. broadcast' \in Bulk!Broadcast
      <3>1. CASE broadcast.status = "SENDING"
        BY <1>0, <3>1 DEF Bulk!Ends, BroadcastTypes, Bulk!Broadcast, Bulk!BroadcastStatus, Sending
      <3> QED BY <1>0, <3>1 DEF Bulk!Ends, BroadcastTypes
    <2> QED BY <1>0, <1>1, <2>1, <2>2 DEF BroadcastTypes
  <1>3. /\ sender'[s] = Bulk!NoSender /\ \A r \in BulkSenders : r # s => sender'[r] = sender[r]
        /\ broadcast'.cursor = broadcast.cursor /\ broadcast'.title = broadcast.title
        /\ \/ broadcast' = broadcast
           \/ broadcast.status = "SENDING" /\ broadcast'.status = outcome
                /\ broadcast'.processed = sender[s].processed
    BY <1>0 DEF Bulk!Ends, BroadcastTypes, Bulk!Broadcast
  <1>4. ClaimIsKept' /\ OneWordingYet'
    BY <1>0, <1>3 DEF ClaimIsKept, OneWordingYet, Bulk!Editable, Bulk!EDITABLE, Bulk!Draft,
                      Bulk!NoSender
  <1>5. CursorsAreCovered'
    <2>1. Covered(0)
      BY DEF Covered, AudienceIsNumbered
    <2>2. outcome = "SENT" /\ past.failures = 0 => \A u \in BulkUsers \ blocked : noted[u] # {}
      BY <1>0 DEF BatchesAreWhole, CursorsAreCovered, Covered
    <2> QED BY <1>0, <1>1, <1>3, <2>1, <2>2 DEF CursorsAreCovered, Covered, Bulk!NoSender
  <1>6. BatchesAreWhole'
    <2>1. /\ \A n \in BulkSenders : n = s \/ sender'[n] = sender[n]
          /\ sender'[s].pc = "idle" /\ noted' = noted /\ blocked' = blocked
      BY <1>0, <1>3 DEF Bulk!NoSender
    <2> QED BY <1>1, <2>1 DEF BatchesAreWhole
  <1>7. CountsAgree'
    <2> SUFFICES ASSUME past.blocks = 0 PROVE CountsAgree'
      BY <1>1 DEF CountsAgree
    <2>1. blocked = {} /\ sender[s].processed = Cardinality(UpTo(sender[s].cursor))
      BY DEF CountsAgree
    <2>2. outcome = "SENT" => sender[s].processed = Cardinality(BulkUsers)
      <3>1. outcome = "SENT" => UpTo(sender[s].cursor) = BulkUsers
        BY <1>0, <2>1 DEF BatchesAreWhole, UpTo
      <3> QED BY <2>1, <3>1
    <2>3. Cardinality(UpTo(0)) = 0
      BY NobodyAtZero
    <2>4. \A r \in BulkSenders : sender'[r].processed = Cardinality(UpTo(sender'[r].cursor))
      BY <1>3, <2>3 DEF CountsAgree, Bulk!NoSender
    <2>5. /\ broadcast'.status \notin {"SENT", "FAILED"} =>
               broadcast'.processed = Cardinality(UpTo(broadcast'.cursor))
          /\ broadcast'.status = "SENT" => broadcast'.processed = Cardinality(BulkUsers)
      BY <1>0, <1>3, <2>2 DEF CountsAgree
    <2> QED BY <1>0, <2>1, <2>4, <2>5 DEF CountsAgree, UpTo
  <1> QED BY <1>2, <1>4, <1>5, <1>6, <1>7

LEMMA BlockKeeps ==
  ASSUME BroadcastInv, NEW u \in BulkUsers, Bulk!Block(u)
  PROVE  BroadcastInv'
  <1> USE DEF BroadcastInv
  <1>1. /\ UNCHANGED <<broadcast, edit, sender, noted>> /\ blocked' = blocked \cup {u}
        /\ past' \in [edits : 0..BulkMaxEdits, blocks : Nat, failures : Nat]
        /\ past'.blocks # 0 /\ past'.failures = past.failures
    BY DEF Bulk!Block, BroadcastTypes
  <1>2. BroadcastTypes' /\ ClaimIsKept' /\ OneWordingYet'
    BY <1>1 DEF BroadcastTypes, ClaimIsKept, OneWordingYet, Bulk!Editable
  <1>3. CursorsAreCovered' /\ BatchesAreWhole' /\ CountsAgree'
    BY <1>1 DEF CursorsAreCovered, Covered, BatchesAreWhole, CountsAgree
  <1> QED BY <1>2, <1>3

LEMMA BroadcastStep == AudienceIsNumbered /\ BroadcastInv /\ [Bulk!Next]_(Bulk!broadcastVars) =>
      BroadcastInv'
  <1> SUFFICES ASSUME AudienceIsNumbered, BroadcastInv, [Bulk!Next]_(Bulk!broadcastVars) PROVE BroadcastInv'
    OBVIOUS
  <1>1. CASE UNCHANGED Bulk!broadcastVars
    BY <1>1 DEF Bulk!broadcastVars, BroadcastInv, BroadcastTypes, ClaimIsKept, OneWordingYet,
                Bulk!Editable,
       CursorsAreCovered, Covered, BatchesAreWhole, CountsAgree, UpTo
  <1> QED BY <1>1, EditKeeps, CancelKeeps, ClaimKeeps, NextRecipientsKeeps, NotifyKeeps,
             SaveProgressKeeps, EndKeeps, BlockKeeps DEF Bulk!Next

LEMMA BroadcastShows ==
  BroadcastInv => /\ Bulk!TypeOK /\ Bulk!OneWording /\ Bulk!CancelledReachesNobody
                  /\ Bulk!SentReachesEveryone /\ Bulk!CountIsOfTheCursor
  <1> SUFFICES ASSUME BroadcastInv
               PROVE  /\ Bulk!TypeOK /\ Bulk!OneWording /\ Bulk!CancelledReachesNobody
                      /\ Bulk!SentReachesEveryone /\ Bulk!CountIsOfTheCursor
    OBVIOUS
  <1>1. Bulk!TypeOK /\ Bulk!OneWording /\ Bulk!CancelledReachesNobody
    BY DEF BroadcastInv, BroadcastTypes, OneWordingYet, Bulk!TypeOK, Bulk!OneWording,
           Bulk!CancelledReachesNobody
  <1>2. Bulk!SentReachesEveryone /\ Bulk!CountIsOfTheCursor
    BY AudienceIsCounted DEF BroadcastInv, CursorsAreCovered, CountsAgree, UpTo,
                             Bulk!SentReachesEveryone, Bulk!CountIsOfTheCursor
  <1> QED BY <1>1, <1>2

-----------------------------------------------------------------------------
(* Phones.  Two active tokens of one phone, or more than the limit of one account, are the work of a
   registration that has yet to retire them. *)

TokenDesk == INSTANCE DeviceTokens WITH
  Tokens <- PhoneTokens, PhoneOf <- PhoneIssued, People <- PhonePeople,
    Requests <- PhoneRequests, Deliveries <- PhoneDeliveries, MaxPerUser <- PhoneMaxPerUser,
    MaxRegistrations <- PhoneMaxRegistrations, MaxDeliveries <- PhoneMaxDeliveries,
    request <- phoneRequest, count <- phoneCount

\* The tokens are finitely many, an account may hold a number of them, and none is called "none".
ASSUME TokensAreFew ==
  IsFiniteSet(PhoneTokens) /\ PhoneMaxPerUser \in Nat /\ TokenDesk!None \notin PhonePeople

LEMMA PhonesAreCounted == ASSUME NEW S PROVE TokenDesk!Cardinality(S) = Cardinality(S)
  BY DEF TokenDesk!Cardinality, Cardinality

Registration ==
  [pc : {"idle", "replace", "limit", "trim"}, user : PhonePeople \cup {TokenDesk!None},
   token : PhoneTokens \cup {TokenDesk!None}, stale : SUBSET PhoneTokens]
PushDelivery == [pc : {"idle", "sent"}, user : PhonePeople \cup {TokenDesk!None}, tokens : SUBSET PhoneTokens]
TokenTypes ==
  /\ token \in [PhoneTokens -> TokenDesk!DeviceToken]
  /\ phoneRequest \in [PhoneRequests -> Registration]
  /\ delivery \in [PhoneDeliveries -> PushDelivery]

\* An inactive token of somebody says why; an active one is somebody's.
ReasonsAreGiven ==
  \A t \in PhoneTokens : /\ token[t].user # TokenDesk!None => (token[t].active = (token[t].reason = TokenDesk!None))
                         /\ token[t].active => token[t].user # TokenDesk!None

\* Two active tokens of one phone: a registration on that phone has yet to retire the others.
Replacing(phone) ==
  \E q \in PhoneRequests : phoneRequest[q].pc = "replace" /\ PhoneIssued[phoneRequest[q].token] = phone
ReplacementIsUnderWay ==
  \A t, v \in PhoneTokens :
    token[t].active /\ token[v].active /\ PhoneIssued[t] = PhoneIssued[v] /\ t # v
      => Replacing(PhoneIssued[t])

\* More active tokens than the limit: a registration of that account has yet to count them, or the
\* ones beyond it are about to be trimmed.
Doomed == UNION {phoneRequest[q].stale : q \in PhoneRequests}
Counting(u) ==
  \E q \in PhoneRequests : phoneRequest[q].pc \in {"replace", "limit"} /\ phoneRequest[q].user = u
TrimIsUnderWay ==
  \A u \in PhonePeople : Counting(u) \/ Cardinality(TokenDesk!ActiveOf(u) \ Doomed) <= PhoneMaxPerUser

\* A registration at work is of a token and somebody, and trims only at the end.
Working ==
  \A q \in PhoneRequests :
    /\ phoneRequest[q].pc \in {"replace", "limit", "trim"} =>
         phoneRequest[q].user \in PhonePeople /\ phoneRequest[q].token \in PhoneTokens
    /\ phoneRequest[q].pc # "trim" => phoneRequest[q].stale = {}

TokenInv ==
  TokenTypes /\ ReasonsAreGiven /\ Working /\ ReplacementIsUnderWay /\ TrimIsUnderWay

LEMMA TokenBegins == TokensAreFew /\ TokenDesk!Init => TokenInv
  <1> SUFFICES ASSUME TokensAreFew, TokenDesk!Init PROVE TokenInv
    OBVIOUS
  <1>1. TokenTypes /\ ReasonsAreGiven /\ Working /\ ReplacementIsUnderWay
    BY DEF TokenDesk!Init, TokenDesk!NoRequest, TokenDesk!NoDelivery, TokenTypes,
           TokenDesk!DeviceToken, Registration, PushDelivery,
           ReasonsAreGiven, Working, ReplacementIsUnderWay
  <1>2. \A u \in PhonePeople : TokenDesk!ActiveOf(u) \ Doomed = {}
    BY DEF TokenDesk!Init, TokenDesk!ActiveOf
  <1>3. TrimIsUnderWay
    BY <1>2, FS_EmptySet DEF TrimIsUnderWay, TokensAreFew
  <1> QED BY <1>1, <1>3 DEF TokenInv

\* A deactivation makes tokens inactive, and no others.
LEMMA Deactivating ==
  ASSUME TokenTypes, ReasonsAreGiven, NEW S \in SUBSET PhoneTokens, NEW reason \in TokenDesk!DeviceTokenDeactivation,
         token' = TokenDesk!Deactivated(S, reason)
  PROVE  /\ token' \in [PhoneTokens -> TokenDesk!DeviceToken] /\ ReasonsAreGiven'
         /\ \A t \in PhoneTokens : /\ token'[t].active <=> token[t].active /\ t \notin S
                                   /\ token'[t].user = token[t].user
  <1>1. ASSUME NEW t \in PhoneTokens
        PROVE  /\ token'[t] \in TokenDesk!DeviceToken
               /\ token'[t].active <=> token[t].active /\ t \notin S
               /\ token'[t].user = token[t].user
               /\ token'[t].user # TokenDesk!None =>
                  (token'[t].active = (token'[t].reason = TokenDesk!None))
               /\ token'[t].active => token'[t].user # TokenDesk!None
    BY <1>1 DEF TokenTypes, TokenDesk!DeviceToken, TokenDesk!Deactivated, ReasonsAreGiven,
                TokenDesk!DeviceTokenDeactivation, TokenDesk!None
  <1>2. token' = [t \in PhoneTokens |-> token'[t]]
    BY Zenon DEF TokenDesk!Deactivated
  <1> QED BY <1>1, <1>2 DEF ReasonsAreGiven

LEMMA FewerIsFewer ==
  ASSUME TokensAreFew, NEW A \in SUBSET PhoneTokens, NEW B, B \subseteq A
  PROVE  /\ Cardinality(A) \in Nat /\ Cardinality(B) \in Nat /\ Cardinality(B) <= Cardinality(A)
         /\ IsFiniteSet(A) /\ IsFiniteSet(B)
  <1>1. IsFiniteSet(A)
    BY FS_Subset DEF TokensAreFew
  <1> QED BY <1>1, FS_Subset, FS_CardinalityType

\* What no token becomes active by, and no registration ends by, keeps the limit in sight.
LEMMA LimitStays ==
  ASSUME TokensAreFew, TokenTypes, TokenTypes', TrimIsUnderWay,
         \A u \in PhonePeople : Counting(u) => Counting(u)',
         \A u \in PhonePeople : (TokenDesk!ActiveOf(u) \ Doomed)' \subseteq TokenDesk!ActiveOf(u) \ Doomed
  PROVE  TrimIsUnderWay'
  <1> SUFFICES ASSUME NEW u \in PhonePeople
               PROVE  Counting(u)' \/ Cardinality((TokenDesk!ActiveOf(u) \ Doomed)') <= PhoneMaxPerUser
    BY DEF TrimIsUnderWay
  <1>1. Counting(u) \/ Cardinality(TokenDesk!ActiveOf(u) \ Doomed) <= PhoneMaxPerUser
    BY DEF TrimIsUnderWay
  <1>2. TokenDesk!ActiveOf(u) \ Doomed \in SUBSET PhoneTokens
    BY DEF TokenDesk!ActiveOf
  <1>3. Cardinality((TokenDesk!ActiveOf(u) \ Doomed)') <= Cardinality(TokenDesk!ActiveOf(u) \ Doomed)
    BY <1>2, FewerIsFewer
  <1>4. /\ Cardinality((TokenDesk!ActiveOf(u) \ Doomed)') \in Nat
        /\ Cardinality(TokenDesk!ActiveOf(u) \ Doomed) \in Nat
    BY <1>2, FewerIsFewer
  <1> QED BY <1>1, <1>3, <1>4 DEF TokensAreFew

\* A deactivation outside registrations.
LEMMA DeactivationKeeps ==
  ASSUME TokensAreFew, TokenInv, NEW S \in SUBSET PhoneTokens, NEW reason \in TokenDesk!DeviceTokenDeactivation,
         token' = TokenDesk!Deactivated(S, reason), UNCHANGED phoneRequest, delivery' \in [PhoneDeliveries -> PushDelivery]
  PROVE  TokenInv'
  <1> USE DEF TokenInv
  <1>1. /\ token' \in [PhoneTokens -> TokenDesk!DeviceToken] /\ ReasonsAreGiven'
        /\ \A t \in PhoneTokens : /\ token'[t].active <=> token[t].active /\ t \notin S
                                  /\ token'[t].user = token[t].user
    BY Deactivating
  <1>2. TokenTypes' /\ Working'
    BY <1>1 DEF TokenTypes, Working
  <1>3. ReplacementIsUnderWay'
    BY <1>1 DEF ReplacementIsUnderWay, Replacing
  <1>4. \A u \in PhonePeople : Counting(u) => Counting(u)'
    BY DEF Counting
  <1>5. \A u \in PhonePeople : (TokenDesk!ActiveOf(u) \ Doomed)' \subseteq TokenDesk!ActiveOf(u) \ Doomed
    BY <1>1 DEF TokenDesk!ActiveOf, Doomed
  <1>6. TrimIsUnderWay'
    BY <1>2, <1>4, <1>5, LimitStays
  <1> QED BY <1>1, <1>2, <1>3, <1>6

LEMMA UpsertKeeps ==
  ASSUME TokensAreFew, TokenInv, NEW q \in PhoneRequests, NEW t \in PhoneTokens, NEW u \in PhonePeople, TokenDesk!Upsert(q, t, u)
  PROVE  TokenInv'
  <1> USE DEF TokenInv
  <1>1. TokenTypes'
    BY DEF TokenDesk!Upsert, TokenTypes, TokenDesk!DeviceToken, Registration
  <1>2. ReasonsAreGiven'
    BY DEF TokenDesk!Upsert, TokenTypes, ReasonsAreGiven, TokensAreFew
  <1>3. Working'
    BY DEF TokenDesk!Upsert, TokenTypes, Working
  <1>4. /\ phoneRequest[q].pc = "idle" /\ phoneRequest'[q].pc = "replace" /\ phoneRequest'[q].token = t
        /\ phoneRequest'[q].user = u /\ phoneRequest'[q].stale = {}
        /\ \A r \in PhoneRequests : r # q => phoneRequest'[r] = phoneRequest[r]
        /\ token'[t].active /\ token'[t].user = u /\ \A v \in PhoneTokens : v # t => token'[v] = token[v]
    BY DEF TokenDesk!Upsert, TokenTypes
  <1>5. ReplacementIsUnderWay'
    <2> SUFFICES ASSUME NEW v \in PhoneTokens, NEW w \in PhoneTokens, token'[v].active, token'[w].active,
                        PhoneIssued[v] = PhoneIssued[w], v # w
                 PROVE  Replacing(PhoneIssued[v])'
      BY DEF ReplacementIsUnderWay
    <2>1. CASE v = t \/ w = t
      BY <1>4, <2>1 DEF Replacing
    <2>2. CASE v # t /\ w # t
      <3>1. Replacing(PhoneIssued[v])
        BY <1>4, <2>2 DEF ReplacementIsUnderWay
      <3> QED BY <1>4, <3>1 DEF Replacing
    <2> QED BY <2>1, <2>2
  <1>6. TrimIsUnderWay'
    <2> SUFFICES ASSUME NEW p \in PhonePeople
                 PROVE  Counting(p)' \/ Cardinality((TokenDesk!ActiveOf(p) \ Doomed)') <= PhoneMaxPerUser
      BY DEF TrimIsUnderWay
    <2>1. CASE p = u
      BY <1>4, <2>1 DEF Counting
    <2>2. CASE p # u
      <3>1. Counting(p) => Counting(p)'
        BY <1>4 DEF Counting
      <3>2. Doomed' = Doomed
        BY <1>4 DEF Doomed, Working
      <3>3. TokenDesk!ActiveOf(p)' \subseteq TokenDesk!ActiveOf(p)
        BY <1>4, <2>2 DEF TokenDesk!ActiveOf
      <3>4. TokenDesk!ActiveOf(p) \ Doomed \in SUBSET PhoneTokens /\
            (TokenDesk!ActiveOf(p) \ Doomed)' \subseteq TokenDesk!ActiveOf(p) \ Doomed
        BY <3>2, <3>3 DEF TokenDesk!ActiveOf
      <3>5. /\ Cardinality((TokenDesk!ActiveOf(p) \ Doomed)') <= Cardinality(TokenDesk!ActiveOf(p) \ Doomed)
            /\ Cardinality((TokenDesk!ActiveOf(p) \ Doomed)') \in Nat /\
               Cardinality(TokenDesk!ActiveOf(p) \ Doomed) \in Nat
        BY <3>4, FewerIsFewer
      <3> QED BY <3>1, <3>5 DEF TrimIsUnderWay, TokensAreFew
    <2> QED BY <2>1, <2>2
  <1> QED BY <1>1, <1>2, <1>3, <1>5, <1>6

LEMMA ReplaceKeeps ==
  ASSUME TokensAreFew, TokenInv, NEW q \in PhoneRequests, TokenDesk!Replace(q)
  PROVE  TokenInv'
  <1> USE DEF TokenInv
  <1>0. TokenDesk!Replaced(q) \in SUBSET PhoneTokens /\ "REPLACED" \in TokenDesk!DeviceTokenDeactivation
    BY DEF TokenDesk!Replaced, TokenDesk!DeviceTokenDeactivation
  <1>1. /\ token' \in [PhoneTokens -> TokenDesk!DeviceToken] /\ ReasonsAreGiven'
        /\ \A t \in PhoneTokens : /\ token'[t].active <=> token[t].active /\ t \notin TokenDesk!Replaced(q)
                                  /\ token'[t].user = token[t].user
    BY <1>0, Deactivating, PhonesAreCounted DEF TokenDesk!Replace
  <1>2. TokenTypes' /\ Working'
    BY <1>1, PhonesAreCounted DEF TokenDesk!Replace, TokenTypes, Registration, Working
  <1>3. /\ phoneRequest[q].pc = "replace" /\ phoneRequest'[q].pc = "limit" /\
           phoneRequest'[q].user = phoneRequest[q].user
        /\ phoneRequest'[q].stale = phoneRequest[q].stale
        /\ \A r \in PhoneRequests : r # q => phoneRequest'[r] = phoneRequest[r]
    BY PhonesAreCounted DEF TokenDesk!Replace, TokenTypes
  <1>4. ReplacementIsUnderWay'
    <2> SUFFICES ASSUME NEW v \in PhoneTokens, NEW w \in PhoneTokens, token'[v].active, token'[w].active,
                        PhoneIssued[v] = PhoneIssued[w], v # w
                 PROVE  Replacing(PhoneIssued[v])'
      BY DEF ReplacementIsUnderWay
    <2>1. PICK r \in PhoneRequests : phoneRequest[r].pc = "replace" /\
               PhoneIssued[phoneRequest[r].token] = PhoneIssued[v]
      BY <1>1 DEF ReplacementIsUnderWay, Replacing
    <2>2. r # q
      BY <1>1, <2>1 DEF TokenDesk!Replaced
    <2> QED BY <1>3, <2>1, <2>2 DEF Replacing
  <1>5. \A u \in PhonePeople : Counting(u) => Counting(u)'
    BY <1>3 DEF Counting
  <1>6. \A u \in PhonePeople : (TokenDesk!ActiveOf(u) \ Doomed)' \subseteq TokenDesk!ActiveOf(u) \ Doomed
    BY <1>1, <1>3 DEF TokenDesk!ActiveOf, Doomed
  <1>7. TrimIsUnderWay'
    BY <1>2, <1>5, <1>6, LimitStays
  <1> QED BY <1>1, <1>2, <1>4, <1>7

LEMMA FindStaleKeeps ==
  ASSUME TokensAreFew, TokenInv, NEW q \in PhoneRequests, TokenDesk!FindStale(q)
  PROVE  TokenInv'
  <1> USE DEF TokenInv
  <1> DEFINE mine == TokenDesk!ActiveOf(phoneRequest[q].user)
  <1>1. phoneRequest[q].pc = "limit" /\ phoneRequest[q].user \in PhonePeople /\
        UNCHANGED <<token, delivery>>
    BY PhonesAreCounted DEF TokenDesk!FindStale, Working
  <1>2. PICK stale \in SUBSET mine :
          /\ \/ stale = {} /\ Cardinality(mine) <= PhoneMaxPerUser /\
                phoneRequest' = [phoneRequest EXCEPT ![q] = TokenDesk!NoRequest]
             \/ /\ phoneRequest' = [phoneRequest EXCEPT ![q].pc = "trim", ![q].stale = stale]
                /\ \E keep \in SUBSET mine : Cardinality(keep) = PhoneMaxPerUser /\ stale = mine \ keep
    BY PhonesAreCounted DEF TokenDesk!FindStale
  <1>3. stale \in SUBSET PhoneTokens
    BY DEF TokenDesk!ActiveOf
  <1>4. TokenTypes' /\ ReasonsAreGiven'
    <2>1. phoneRequest' \in [PhoneRequests -> Registration]
      BY <1>2, <1>3 DEF TokenTypes, Registration, TokenDesk!NoRequest
    <2> QED BY <1>1, <2>1 DEF TokenTypes, ReasonsAreGiven
  <1>5. /\ phoneRequest'[q].pc \in {"idle", "trim"} /\ phoneRequest'[q].stale = stale
        /\ phoneRequest'[q].pc # "trim" => stale = {}
        /\ phoneRequest'[q].pc = "trim" => phoneRequest'[q].user = phoneRequest[q].user /\
           phoneRequest'[q].token = phoneRequest[q].token
        /\ \A r \in PhoneRequests : r # q => phoneRequest'[r] = phoneRequest[r]
    <2>1. CASE stale = {} /\ phoneRequest' = [phoneRequest EXCEPT ![q] = TokenDesk!NoRequest]
      BY <2>1 DEF TokenTypes, TokenDesk!NoRequest
    <2>2. CASE phoneRequest' = [phoneRequest EXCEPT ![q].pc = "trim", ![q].stale = stale]
      BY <2>2 DEF TokenTypes, Registration
    <2> QED BY <1>2, <2>1, <2>2
  <1>6. Working'
    BY <1>1, <1>5 DEF Working
  <1>7. ReplacementIsUnderWay'
    BY <1>1, <1>5 DEF ReplacementIsUnderWay, Replacing
  <1>8. Doomed' = Doomed \cup stale
    BY <1>1, <1>5 DEF Doomed, Working
  <1>9. \A u \in PhonePeople : TokenDesk!ActiveOf(u)' = TokenDesk!ActiveOf(u)
    BY <1>1 DEF TokenDesk!ActiveOf
  <1>10. TrimIsUnderWay'
    <2> SUFFICES ASSUME NEW u \in PhonePeople
                 PROVE  Counting(u)' \/ Cardinality((TokenDesk!ActiveOf(u) \ Doomed)') <= PhoneMaxPerUser
      BY DEF TrimIsUnderWay
    <2>1. CASE u # phoneRequest[q].user
      <3>1. Counting(u) => Counting(u)'
        BY <1>5, <2>1 DEF Counting
      <3>2. TokenDesk!ActiveOf(u) \ Doomed \in SUBSET PhoneTokens /\
            (TokenDesk!ActiveOf(u) \ Doomed)' \subseteq TokenDesk!ActiveOf(u) \ Doomed
        BY <1>8, <1>9 DEF TokenDesk!ActiveOf
      <3>3. /\ Cardinality((TokenDesk!ActiveOf(u) \ Doomed)') <= Cardinality(TokenDesk!ActiveOf(u) \ Doomed)
            /\ Cardinality((TokenDesk!ActiveOf(u) \ Doomed)') \in Nat /\
               Cardinality(TokenDesk!ActiveOf(u) \ Doomed) \in Nat
        BY <3>2, FewerIsFewer
      <3> QED BY <3>1, <3>3 DEF TrimIsUnderWay, TokensAreFew
    <2>2. CASE u = phoneRequest[q].user
      <3>1. PICK kept \in SUBSET mine : Cardinality(kept) <= PhoneMaxPerUser /\ mine \ stale \subseteq kept
        BY <1>2 DEF TokensAreFew
      <3>2. kept \in SUBSET PhoneTokens /\ (TokenDesk!ActiveOf(u) \ Doomed)' \subseteq kept
        BY <1>8, <1>9, <2>2, <3>1 DEF TokenDesk!ActiveOf
      <3>3. /\ Cardinality((TokenDesk!ActiveOf(u) \ Doomed)') <= Cardinality(kept)
            /\ Cardinality((TokenDesk!ActiveOf(u) \ Doomed)') \in Nat /\ Cardinality(kept) \in Nat
        BY <3>2, FewerIsFewer
      <3> QED BY <3>1, <3>3 DEF TokensAreFew
    <2> QED BY <2>1, <2>2
  <1> QED BY <1>4, <1>6, <1>7, <1>10

LEMMA TrimKeeps ==
  ASSUME TokensAreFew, TokenInv, NEW q \in PhoneRequests, TokenDesk!Trim(q)
  PROVE  TokenInv'
  <1> USE DEF TokenInv
  <1>0. phoneRequest[q].stale \in SUBSET PhoneTokens /\ "LIMIT" \in TokenDesk!DeviceTokenDeactivation
    BY DEF TokenTypes, Registration, TokenDesk!DeviceTokenDeactivation
  <1>1. /\ token' \in [PhoneTokens -> TokenDesk!DeviceToken] /\ ReasonsAreGiven'
        /\ \A t \in PhoneTokens : /\ token'[t].active <=> token[t].active /\ t \notin phoneRequest[q].stale
                                  /\ token'[t].user = token[t].user
    BY <1>0, Deactivating, PhonesAreCounted DEF TokenDesk!Trim
  <1>2. TokenTypes' /\ Working'
    BY <1>1, PhonesAreCounted DEF TokenDesk!Trim, TokenTypes, Registration, Working, TokenDesk!NoRequest
  <1>3. /\ phoneRequest[q].pc = "trim" /\ phoneRequest'[q].pc = "idle" /\ phoneRequest'[q].stale = {}
        /\ \A r \in PhoneRequests : r # q => phoneRequest'[r] = phoneRequest[r]
    BY PhonesAreCounted DEF TokenDesk!Trim, TokenTypes, TokenDesk!NoRequest
  <1>4. ReplacementIsUnderWay'
    BY <1>1, <1>3 DEF ReplacementIsUnderWay, Replacing
  <1>5. \A u \in PhonePeople : Counting(u) => Counting(u)'
    BY <1>3 DEF Counting
  <1>6. \A u \in PhonePeople : (TokenDesk!ActiveOf(u) \ Doomed)' \subseteq TokenDesk!ActiveOf(u) \ Doomed
    BY <1>1, <1>3 DEF TokenDesk!ActiveOf, Doomed
  <1>7. TrimIsUnderWay'
    BY <1>2, <1>5, <1>6, LimitStays
  <1> QED BY <1>1, <1>2, <1>4, <1>7

LEMMA TokenStep == TokensAreFew /\ TokenInv /\ [TokenDesk!Next]_(TokenDesk!tokenVars) => TokenInv'
  <1> SUFFICES ASSUME TokensAreFew, TokenInv, [TokenDesk!Next]_(TokenDesk!tokenVars) PROVE TokenInv'
    OBVIOUS
  <1>1. CASE UNCHANGED TokenDesk!tokenVars
    <2>1. TokenTypes' /\ ReasonsAreGiven' /\ Working' /\ ReplacementIsUnderWay'
      BY <1>1 DEF TokenDesk!tokenVars, TokenInv, TokenTypes, ReasonsAreGiven, Working,
                  ReplacementIsUnderWay,
                  Replacing
    <2>2. TrimIsUnderWay'
      BY <1>1 DEF TokenDesk!tokenVars, TokenInv, TrimIsUnderWay, Counting, TokenDesk!ActiveOf, Doomed
    <2> QED BY <2>1, <2>2 DEF TokenInv
  <1>2. ASSUME NEW S \in SUBSET PhoneTokens, NEW reason \in TokenDesk!DeviceTokenDeactivation,
               token' = TokenDesk!Deactivated(S, reason), UNCHANGED <<phoneRequest, delivery>>
        PROVE  TokenInv'
    BY <1>2, DeactivationKeeps DEF TokenInv, TokenTypes
  <1>3. ASSUME NEW t \in PhoneTokens, TokenDesk!Deactivate(t) PROVE TokenInv'
    BY <1>2, <1>3 DEF TokenDesk!Deactivate, TokenDesk!DeviceTokenDeactivation
  <1>4. ASSUME NEW u \in PhonePeople, NEW phone, TokenDesk!DeactivateDevice(u, phone) PROVE TokenInv'
    <2>1. {t \in TokenDesk!ActiveOf(u) : PhoneIssued[t] = phone} \in SUBSET PhoneTokens
      BY DEF TokenDesk!ActiveOf
    <2> QED BY <1>2, <1>4, <2>1 DEF TokenDesk!DeactivateDevice, TokenDesk!DeviceTokenDeactivation
  <1>5. ASSUME NEW u \in PhonePeople, NEW except, TokenDesk!DeactivateAllForUser(u, except) PROVE TokenInv'
    <2>1. {t \in TokenDesk!ActiveOf(u) : PhoneIssued[t] \notin except} \in SUBSET PhoneTokens
      BY DEF TokenDesk!ActiveOf
    <2> QED BY <1>2, <1>5, <2>1 DEF TokenDesk!DeactivateAllForUser, TokenDesk!DeviceTokenDeactivation
  <1>6. ASSUME UNCHANGED <<token, phoneRequest>>, delivery' \in [PhoneDeliveries -> PushDelivery]
        PROVE  TokenInv'
    <2>1. TokenTypes' /\ ReasonsAreGiven' /\ Working' /\ ReplacementIsUnderWay'
      BY <1>6 DEF TokenInv, TokenTypes, ReasonsAreGiven, Working, ReplacementIsUnderWay, Replacing
    <2>2. TrimIsUnderWay'
      BY <1>6 DEF TokenInv, TrimIsUnderWay, Counting, TokenDesk!ActiveOf, Doomed
    <2> QED BY <2>1, <2>2 DEF TokenInv
  <1>7. ASSUME NEW t \in PhoneTokens, TokenDesk!Uninstall(t) PROVE TokenInv'
    BY <1>6, <1>7 DEF TokenDesk!Uninstall, TokenInv, TokenTypes
  <1>8. ASSUME NEW d \in PhoneDeliveries, NEW u \in PhonePeople, TokenDesk!ActiveTokens(d, u)
        PROVE  TokenInv'
    <2>1. delivery' \in [PhoneDeliveries -> PushDelivery]
      BY <1>8 DEF TokenDesk!ActiveTokens, TokenDesk!ActiveOf, TokenDesk!NoDelivery, TokenInv,
                  TokenTypes, PushDelivery
    <2> QED BY <1>6, <1>8, <2>1 DEF TokenDesk!ActiveTokens
  <1>9. ASSUME NEW d \in PhoneDeliveries, TokenDesk!MarkInvalid(d) PROVE TokenInv'
    <2>1. delivery' \in [PhoneDeliveries -> PushDelivery]
      BY <1>9 DEF TokenDesk!MarkInvalid, TokenDesk!NoDelivery, TokenInv, TokenTypes, PushDelivery
    <2>2. {t \in delivery[d].tokens \cap dead : token[t].active} \in SUBSET PhoneTokens
      BY DEF TokenInv, TokenTypes, PushDelivery
    <2>3. "UNREGISTERED" \in TokenDesk!DeviceTokenDeactivation
      BY DEF TokenDesk!DeviceTokenDeactivation
    <2> QED BY <1>9, <2>1, <2>2, <2>3, DeactivationKeeps DEF TokenDesk!MarkInvalid
  <1> QED BY <1>1, <1>3, <1>4, <1>5, <1>7, <1>8, <1>9, UpsertKeeps, ReplaceKeeps, FindStaleKeeps,
             TrimKeeps DEF TokenDesk!Next

LEMMA TokensShow ==
  TokensAreFew /\ TokenInv => TokenDesk!TypeOK /\ TokenDesk!OneTokenPerPhone /\ TokenDesk!LimitHolds
  <1> SUFFICES ASSUME TokensAreFew, TokenInv
               PROVE  TokenDesk!TypeOK /\ TokenDesk!OneTokenPerPhone /\ TokenDesk!LimitHolds
    OBVIOUS
  <1>1. TokenDesk!TypeOK
    BY DEF TokenInv, TokenTypes, ReasonsAreGiven, TokenDesk!TypeOK
  <1>2. TokenDesk!OneTokenPerPhone
    BY DEF TokenInv, ReplacementIsUnderWay, Replacing, TokenDesk!OneTokenPerPhone, TokenDesk!Settled
  <1>3. ASSUME TokenDesk!Settled, NEW u \in PhonePeople
        PROVE  Cardinality(TokenDesk!ActiveOf(u)) <= PhoneMaxPerUser
    <2>1. ~Counting(u) /\ Doomed = {}
      BY <1>3 DEF TokenDesk!Settled, Counting, Doomed, TokenInv, Working
    <2>2. TokenDesk!ActiveOf(u) \ Doomed = TokenDesk!ActiveOf(u)
      BY <2>1
    <2> QED BY <2>1, <2>2 DEF TokenInv, TrimIsUnderWay
  <1> QED BY <1>1, <1>2, <1>3, PhonesAreCounted DEF TokenDesk!LimitHolds

-----------------------------------------------------------------------------
(* Notifications: proved in their own module, for any ride, handlers, notifications and phones. *)

Notices == INSTANCE Notifications WITH
  Drivers <- NoticeDrivers, Refunds <- NoticeRefunds, MaxVersion <- NoticeMaxVersion, Notes <- {},
    Batches <- <<>>, Devices <- {}, Configured <- FALSE, MaxReads <- 0, MaxFailures <- 0,
    MaxCrashes <- 0, ride <- noticeRide

Centre == INSTANCE Notifications WITH
  Drivers <- {}, Refunds <- {}, MaxVersion <- 0, Notes <- CentreNotes, Batches <- CentreBatches,
    Devices <- {}, Configured <- FALSE, MaxReads <- CentreMaxReads, MaxFailures <- 0,
    MaxCrashes <- 0, ride <- noticeRide

Pushes == INSTANCE Notifications WITH
  Drivers <- {}, Refunds <- {}, MaxVersion <- 0, Notes <- PushNotes, Batches <- PushBatches,
    Devices <- PushDevices, Configured <- TRUE, MaxReads <- 0, MaxFailures <- PushMaxFailures,
    MaxCrashes <- PushMaxCrashes, ride <- noticeRide

ASSUME NotesAndPhones == Notices!WhoAndWhat /\ Centre!WhoAndWhat /\ Pushes!WhoAndWhat

-----------------------------------------------------------------------------
(* Signing up: every document is of a handler that was begun, and whoever makes an account holds it
   alone. *)

SignUps == INSTANCE SignUp WITH
  Forms <- SignUpForms, Owned <- OwnedForms, RoleOf <- RoleOfForm, MaxCodes <- SignUpMaxCodes,
    MaxSteps <- SignUpMaxSteps, docs <- signUpDocs

\* No form is called "none", each asks for a role, and there are finitely many.
ASSUME FormsAreForms ==
  /\ "none" \notin SignUpForms /\ IsFiniteSet(SignUpForms)
  /\ RoleOfForm \in [SignUpForms -> {"CUSTOMER", "DRIVER"}]
  /\ SignUpMaxCodes \in Nat /\ SignUpMaxSteps \in Nat

SignUpHandler ==
  [pc : {"idle", "save", "challenge", "undo", "code", "create", "profile", "undoUser", "forget"},
   doc : 0..SignUpMaxSteps, form : SignUpForms \cup {"none"}]
Making == {"profile", "undoUser"}
Proved == Making \cup {"create", "forget"}
Saving == {f \in SignUpForms : SignUps!At(f, "save")}

\* Every document is of a handler that was begun and has saved its form.
SignUpTypes ==
  /\ SignUps!TypeOK
  /\ signUpDocs \in Nat /\ begun \in 0..SignUpMaxSteps /\ codes \in 0..SignUpMaxCodes
  /\ step \in [SignUpForms -> SignUpHandler]
DocsAreBegun == signUpDocs + Cardinality(Saving) <= begun

\* Whoever has proved the number holds the phone and their own form; whoever is making an account
\* has it, alone, and nobody is signed in yet; whoever is done with it has made it whole.
MakersHoldTheAccount ==
  \A f \in SignUpForms :
    /\ step[f].pc \in Proved \cup {"code"} => step[f].form = f
    /\ step[f].pc \in Proved => f \in OwnedForms
    /\ step[f].pc \in Making \cup {"forget"} => user.form = f
    /\ step[f].pc \in Making => sessions = {}
    /\ step[f].pc = "forget" => user.role # "DRIVER" \/ profile

AccountInv ==
  MakersHoldTheAccount /\ SignUps!AccountIsTheOwners /\ SignUps!NoHalfMadeDriver /\
  SignUps!SessionsHaveTheAccount

\* The inductive invariant.
SignUpInv == SignUpTypes /\ DocsAreBegun /\ AccountInv

\* Handler f goes on at a label with a form; the others rest.
SignUpMoves(f, pc, form) ==
  /\ step' \in [SignUpForms -> SignUpHandler]
  /\ \A g \in SignUpForms : g # f => step'[g] = step[g]
  /\ step'[f].pc = pc /\ step'[f].form = form

LEMMA SignUpGoes ==
  ASSUME SignUpTypes, NEW f \in SignUpForms, NEW s \in SignUpHandler, SignUps!Goes(f, s)
  PROVE  SignUpMoves(f, s.pc, s.form)
  BY DEF SignUpTypes, SignUps!Goes, SignUpMoves

LEMMA SignUpThen ==
  ASSUME SignUpTypes, NEW f \in SignUpForms,
         NEW pc \in {"save", "undo", "create", "profile", "undoUser", "forget"}, SignUps!Then(f, pc)
  PROVE  SignUpMoves(f, pc, step[f].form)
  <1> DEFINE s == [step[f] EXCEPT !.pc = pc]
  <1>1. s \in SignUpHandler /\ s.pc = pc /\ s.form = step[f].form
    BY DEF SignUpTypes, SignUpHandler
  <1>2. SignUps!Goes(f, s)
    BY DEF SignUps!Then
  <1> HIDE DEF s
  <1> QED BY <1>1, <1>2, SignUpGoes

LEMMA SignUpRests ==
  ASSUME SignUpTypes, NEW f \in SignUpForms, SignUps!Rests(f), SignUpMaxSteps \in Nat
  PROVE  SignUpMoves(f, "idle", "none")
  <1>1. SignUps!Resting \in SignUpHandler /\ SignUps!Resting.pc = "idle" /\ SignUps!Resting.form = "none"
    BY DEF SignUps!Resting, SignUpHandler
  <1> QED BY <1>1, SignUpGoes DEF SignUps!Rests

(* Types, and what bounds the documents.                                   *)

\* A handler that neither begins nor ends a save leaves the savers alone.
LEMMA SaversKept ==
  ASSUME SignUpTypes, NEW f \in SignUpForms, NEW pc, NEW form, SignUpMoves(f, pc, form),
         pc # "save", ~SignUps!At(f, "save")
  PROVE  Saving' = Saving
  BY DEF Saving, SignUps!At, SignUpMoves

LEMMA SaversCount ==
  ASSUME FormsAreForms
  PROVE  /\ IsFiniteSet(Saving) /\ Cardinality(Saving) \in Nat
         /\ \A f \in SignUpForms : SignUps!At(f, "save") => Cardinality(Saving) >= 1
  <1>1. IsFiniteSet(Saving)
    BY FS_Subset DEF FormsAreForms, Saving
  <1>2. Cardinality(Saving) \in Nat
    BY <1>1, FS_CardinalityType
  <1>3. ASSUME NEW f \in SignUpForms, SignUps!At(f, "save")
        PROVE  Cardinality(Saving) >= 1
    <2>1. f \in Saving
      BY <1>3 DEF Saving
    <2>2. Cardinality(Saving) # 0
      BY <1>1, <2>1, FS_EmptySet
    <2> QED BY <1>2, <2>2
  <1> QED BY <1>1, <1>2, <1>3

\* A save begins, and a save is over.
LEMMA SaveBegins ==
  ASSUME FormsAreForms, SignUpTypes, NEW f \in SignUpForms, NEW form, SignUpMoves(f, "save", form), SignUps!At(f, "idle")
  PROVE  Cardinality(Saving)' = Cardinality(Saving) + 1
  <1>1. Saving' = Saving \cup {f} /\ f \notin Saving
    BY DEF Saving, SignUps!At, SignUpMoves
  <1>2. Cardinality(Saving \cup {f}) = Cardinality(Saving) + 1
    BY <1>1, SaversCount, FS_AddElement
  <1> QED BY <1>1, <1>2

LEMMA SaveEnds ==
  ASSUME FormsAreForms, SignUpTypes, NEW f \in SignUpForms, NEW pc, NEW form, SignUpMoves(f, pc, form),
         pc # "save", SignUps!At(f, "save")
  PROVE  Cardinality(Saving)' = Cardinality(Saving) - 1
  <1>1. Saving' = Saving \ {f} /\ f \in Saving
    BY DEF Saving, SignUps!At, SignUpMoves
  <1>2. Cardinality(Saving \ {f}) = Cardinality(Saving) - 1
    BY <1>1, SaversCount, FS_RemoveElement
  <1> QED BY <1>1, <1>2

\* The labels and forms of a handler, action by action.
LEMMA SignUpHandlerMoves ==
  ASSUME FormsAreForms, SignUpTypes, DocsAreBegun, NEW f \in SignUpForms
  PROVE  /\ SignUps!Submit(f) => SignUps!At(f, "idle") /\ SignUpMoves(f, "save", step[f].form)
         /\ SignUps!SavePending(f) => SignUps!At(f, "save") /\ SignUpMoves(f, "challenge", f)
         /\ SignUps!Challenge(f) => SignUps!At(f, "challenge") /\ SignUpMoves(f, "idle", "none")
         /\ SignUps!ChallengeFails(f) => SignUps!At(f, "challenge") /\ SignUpMoves(f, "undo", step[f].form)
         /\ SignUps!UndoPending(f) => SignUps!At(f, "undo") /\ SignUpMoves(f, "idle", "none")
         /\ SignUps!Verify(f) => SignUps!At(f, "idle") /\ SignUpMoves(f, "code", f)
         /\ SignUps!VerifyCode(f) =>
              /\ SignUps!At(f, "code")
              /\ \/ f \in OwnedForms /\ SignUpMoves(f, "create", step[f].form)
                 \/ SignUpMoves(f, "idle", "none")
         /\ SignUps!CreateAccount(f) =>
              /\ SignUps!At(f, "create")
              /\ \/ user' = user /\ SignUpMoves(f, "idle", "none")
                 \/ /\ user = SignUps!NoUser /\ user'.form = step[f].form /\
                       user'.role = RoleOfForm[step[f].form]
                    /\ SignUpMoves(f, IF user'.role = "DRIVER" THEN "profile" ELSE "forget", step[f].form)
         /\ SignUps!CreateProfile(f) => SignUps!At(f, "profile") /\ SignUpMoves(f, "forget", step[f].form)
         /\ SignUps!ProfileFails(f) => SignUps!At(f, "profile") /\ SignUpMoves(f, "undoUser", step[f].form)
         /\ SignUps!DeleteUser(f) => SignUps!At(f, "undoUser") /\ SignUpMoves(f, "idle", "none")
         /\ SignUps!Forget(f) => SignUps!At(f, "forget") /\ SignUpMoves(f, "idle", "none")
  <1>0. SignUpMaxSteps \in Nat
    BY DEF FormsAreForms
  <1>1. SignUps!Submit(f) => SignUps!At(f, "idle") /\ SignUpMoves(f, "save", step[f].form)
    BY SignUpThen DEF SignUps!Submit, SignUps!Begins
  <1>2. ASSUME SignUps!SavePending(f) PROVE SignUps!At(f, "save") /\ SignUpMoves(f, "challenge", f)
    <2> DEFINE s == [pc |-> "challenge", doc |-> pending'.doc, form |-> f]
    <2>1. SignUps!At(f, "save") /\ SignUps!Goes(f, s)
      BY <1>2 DEF SignUps!SavePending
    <2>2. signUpDocs + 1 \in 1..SignUpMaxSteps
      BY <1>0, <2>1, SaversCount DEF SignUpTypes, DocsAreBegun
    <2>3. pending'.doc \in 0..SignUpMaxSteps
      <3>1. pending.doc \in 0..SignUpMaxSteps
        BY DEF SignUpTypes, SignUps!TypeOK, SignUps!PendingSignup, SignUps!NoPending, FormsAreForms
      <3>2. pending' = [doc |-> IF pending.doc = 0 THEN signUpDocs + 1 ELSE pending.doc, form |-> f]
        BY <1>2 DEF SignUps!SavePending
      <3> QED BY <2>2, <3>1, <3>2
    <2>4. s \in SignUpHandler /\ s.pc = "challenge" /\ s.form = f
      BY <2>3 DEF SignUpHandler
    <2> HIDE DEF s
    <2> QED BY <2>1, <2>4, SignUpGoes
  <1>3. SignUps!Challenge(f) => SignUps!At(f, "challenge") /\ SignUpMoves(f, "idle", "none")
    BY <1>0, SignUpRests DEF SignUps!Challenge
  <1>4. SignUps!ChallengeFails(f) => SignUps!At(f, "challenge") /\ SignUpMoves(f, "undo", step[f].form)
    BY SignUpThen DEF SignUps!ChallengeFails
  <1>5. SignUps!UndoPending(f) => SignUps!At(f, "undo") /\ SignUpMoves(f, "idle", "none")
    BY <1>0, SignUpRests DEF SignUps!UndoPending
  <1>6. ASSUME SignUps!Verify(f) PROVE SignUps!At(f, "idle") /\ SignUpMoves(f, "code", f)
    <2> DEFINE s == [pc |-> "code", doc |-> pending.doc, form |-> pending.form]
    <2>1. SignUps!At(f, "idle") /\ SignUps!Goes(f, s) /\ pending.form = f /\ pending # SignUps!NoPending
      BY <1>6 DEF SignUps!Verify, SignUps!Begins, SignUps!PendingFor, SignUps!NoPending
    <2>2. s \in SignUpHandler /\ s.pc = "code" /\ s.form = f
      BY <2>1 DEF SignUpHandler, SignUpTypes, SignUps!TypeOK, SignUps!PendingSignup
    <2> HIDE DEF s
    <2> QED BY <2>1, <2>2, SignUpGoes
  <1>7. SignUps!VerifyCode(f) => /\ SignUps!At(f, "code")
                                 /\ \/ f \in OwnedForms /\ SignUpMoves(f, "create", step[f].form)
                                    \/ SignUpMoves(f, "idle", "none")
    BY <1>0, SignUpRests, SignUpThen DEF SignUps!VerifyCode
  <1>8. ASSUME SignUps!CreateAccount(f)
        PROVE  /\ SignUps!At(f, "create")
               /\ \/ user' = user /\ SignUpMoves(f, "idle", "none")
                  \/ /\ user = SignUps!NoUser /\ user'.form = step[f].form /\
                        user'.role = RoleOfForm[step[f].form]
                     /\ SignUpMoves(f, IF user'.role = "DRIVER" THEN "profile" ELSE "forget", step[f].form)
    <2>1. CASE SignUps!existsByPhone
      BY <1>0, <1>8, <2>1, SignUpRests DEF SignUps!CreateAccount, SignUps!PhoneTaken
    <2>2. CASE ~SignUps!existsByPhone
      <3>1. /\ SignUps!At(f, "create") /\ user' = [form |-> step[f].form, role |-> RoleOfForm[step[f].form]]
            /\ SignUps!Then(f, IF user'.role = "DRIVER" THEN "profile" ELSE "forget")
        BY <1>8, <2>2 DEF SignUps!CreateAccount, SignUps!FormHeld
      <3>2. SignUpMoves(f, IF user'.role = "DRIVER" THEN "profile" ELSE "forget", step[f].form)
        BY <3>1, SignUpThen
      <3> QED BY <2>2, <3>1, <3>2 DEF SignUps!existsByPhone
    <2> QED BY <2>1, <2>2
  <1>9. SignUps!CreateProfile(f) => SignUps!At(f, "profile") /\ SignUpMoves(f, "forget", step[f].form)
    BY SignUpThen DEF SignUps!CreateProfile
  <1>10. SignUps!ProfileFails(f) => SignUps!At(f, "profile") /\ SignUpMoves(f, "undoUser", step[f].form)
    BY SignUpThen DEF SignUps!ProfileFails, SignUps!UndoesUser
  <1>11. SignUps!DeleteUser(f) => SignUps!At(f, "undoUser") /\ SignUpMoves(f, "idle", "none")
    BY <1>0, SignUpRests DEF SignUps!DeleteUser
  <1>12. SignUps!Forget(f) => SignUps!At(f, "forget") /\ SignUpMoves(f, "idle", "none")
    BY <1>0, SignUpRests DEF SignUps!Forget
  <1> QED BY <1>1, <1>2, <1>3, <1>4, <1>5, <1>6, <1>7, <1>8, <1>9, <1>10, <1>11, <1>12

\* The documents, codes and accounts stay what they are.
LEMMA SignUpTypesStep ==
  ASSUME FormsAreForms, SignUpTypes, DocsAreBegun, MakersHoldTheAccount, SignUps!Next
  PROVE  SignUpTypes' /\ DocsAreBegun'
  <1> USE DEF SignUpTypes, SignUps!TypeOK, FormsAreForms
  <1>0. Cardinality(Saving) \in Nat
    BY SaversCount
  <1> DEFINE savers == Cardinality(Saving)
             next == Cardinality(Saving)'
  <1> SUFFICES /\ SignUpTypes'
               /\ signUpDocs' + next <= begun'
    BY DEF DocsAreBegun
  <1>k. savers \in Nat /\ signUpDocs + savers <= begun
    BY <1>0 DEF DocsAreBegun
  <1>s. Saving' = Saving => next = savers
    OBVIOUS
  <1>1. ASSUME NEW f \in SignUpForms, SignUps!Submit(f)
        PROVE  SignUpTypes' /\ signUpDocs' + next <= begun'
    <2>1. SignUps!At(f, "idle") /\ SignUpMoves(f, "save", step[f].form)
      BY <1>1, SignUpHandlerMoves
    <2>2. next = savers + 1
      BY <2>1, SaveBegins
    <2>3. begun < SignUpMaxSteps /\ begun' = begun + 1 /\
          UNCHANGED <<SignUps!accountVars, SignUps!pendingVars, SignUps!codeVars>>
      BY <1>1 DEF SignUps!Submit, SignUps!Begins
    <2> HIDE DEF savers, next
    <2> QED BY <1>k, <2>1, <2>2, <2>3 DEF SignUpMoves, SignUps!accountVars, SignUps!pendingVars,
                                          SignUps!codeVars
  <1>2. ASSUME NEW f \in SignUpForms, SignUps!SavePending(f)
        PROVE  SignUpTypes' /\ signUpDocs' + next <= begun'
    <2>1. SignUps!At(f, "save") /\ SignUpMoves(f, "challenge", f)
      BY <1>2, SignUpHandlerMoves
    <2>2. next = savers - 1 /\ savers >= 1
      BY <2>1, SaveEnds, SaversCount
    <2>3. /\ UNCHANGED <<SignUps!accountVars, SignUps!codeVars, begun>> /\ pendingOver' = FALSE
          /\ signUpDocs' = IF pending.doc = 0 THEN signUpDocs + 1 ELSE signUpDocs
      BY <1>2 DEF SignUps!SavePending
    <2>d. PICK d : /\ d = (IF pending.doc = 0 THEN signUpDocs + 1 ELSE pending.doc)
                   /\ pending' = [doc |-> d, form |-> f]
      BY <1>2 DEF SignUps!SavePending
    <2> HIDE DEF savers, next
    <2>4. signUpDocs' + next <= begun' /\ signUpDocs' \in Nat /\ signUpDocs + 1 <= SignUpMaxSteps
      BY <1>k, <2>2, <2>3
    <2>5. d \in 1..SignUpMaxSteps
      BY <2>4, <2>d DEF SignUps!PendingSignup, SignUps!NoPending
    <2>6. pending' \in SignUps!PendingSignup
      BY <2>5, <2>d DEF SignUps!PendingSignup
    <2> QED BY <2>1, <2>3, <2>4, <2>6 DEF SignUpMoves, SignUps!accountVars, SignUps!codeVars
  <1>3. ASSUME NEW f \in SignUpForms,
               SignUps!Challenge(f) \/ SignUps!ChallengeFails(f) \/ SignUps!UndoPending(f) \/
               SignUps!Verify(f) \/ SignUps!VerifyCode(f)
        PROVE  SignUpTypes' /\ signUpDocs' + next <= begun'
    <2>1. PICK pc \in {"idle", "undo", "code", "create"}, form \in SignUpForms \cup {"none"} :
            ~SignUps!At(f, "save") /\ SignUpMoves(f, pc, form)
      BY <1>3, SignUpHandlerMoves DEF SignUps!At, SignUpHandler
    <2>2. next = savers
      BY <2>1, SaversKept, <1>s
    <2>3. UNCHANGED <<SignUps!accountVars, signUpDocs>>
      BY <1>3 DEF SignUps!Challenge, SignUps!ChallengeFails, SignUps!UndoPending, SignUps!Verify,
                  SignUps!VerifyCode, SignUps!pendingVars
    <2>4. begun' = begun \/ (begun < SignUpMaxSteps /\ begun' = begun + 1)
      BY <1>3 DEF SignUps!Challenge, SignUps!ChallengeFails, SignUps!UndoPending, SignUps!Verify,
                  SignUps!VerifyCode, SignUps!Begins
    <2>5. code' \in 0..SignUpMaxCodes /\ codes' \in 0..SignUpMaxCodes
      BY <1>3 DEF SignUps!Challenge, SignUps!ChallengeFails, SignUps!UndoPending, SignUps!Verify,
                  SignUps!VerifyCode, SignUps!Issues, SignUps!codeVars
    <2>6. fresh' \in BOOLEAN
      BY <1>3 DEF SignUps!Challenge, SignUps!ChallengeFails, SignUps!UndoPending, SignUps!Verify,
                  SignUps!VerifyCode, SignUps!codeVars
    <2>7. pending' \in SignUps!PendingSignup \cup {SignUps!NoPending} /\ pendingOver' \in BOOLEAN
      BY <1>3 DEF SignUps!Challenge, SignUps!ChallengeFails, SignUps!UndoPending, SignUps!Verify,
                  SignUps!VerifyCode, SignUps!DropPending, SignUps!pendingVars
    <2> HIDE DEF savers, next
    <2> QED BY <1>k, <2>1, <2>2, <2>3, <2>4, <2>5, <2>6, <2>7 DEF SignUpMoves, SignUps!accountVars
  <1>4. ASSUME NEW f \in SignUpForms, SignUps!Abandon(f) \/ SignUps!Resend(f)
        PROVE  SignUpTypes' /\ signUpDocs' + next <= begun'
    <2>1. next = savers
      BY <1>4, <1>s DEF SignUps!Abandon, SignUps!Resend, Saving, SignUps!At
    <2>2. UNCHANGED <<SignUps!accountVars, signUpDocs, step>> /\ begun < SignUpMaxSteps /\
          begun' = begun + 1
      BY <1>4 DEF SignUps!Abandon, SignUps!Resend, SignUps!Begins
    <2>3. code' \in 0..SignUpMaxCodes /\ codes' \in 0..SignUpMaxCodes
      BY <1>4 DEF SignUps!Abandon, SignUps!Resend, SignUps!Issues
    <2>4. fresh' \in BOOLEAN
      BY <1>4 DEF SignUps!Abandon, SignUps!Resend
    <2>5. pending' \in SignUps!PendingSignup \cup {SignUps!NoPending} /\ pendingOver' \in BOOLEAN
      BY <1>4 DEF SignUps!Abandon, SignUps!Resend, SignUps!DropPending
    <2> HIDE DEF savers, next
    <2> QED BY <1>k, <2>1, <2>2, <2>3, <2>4, <2>5 DEF SignUps!accountVars
  <1>5. ASSUME NEW f \in SignUpForms,
               SignUps!CreateAccount(f) \/ SignUps!CreateProfile(f) \/ SignUps!ProfileFails(f) \/
               SignUps!DeleteUser(f) \/ SignUps!Forget(f)
        PROVE  SignUpTypes' /\ signUpDocs' + next <= begun'
    <2>1. PICK pc \in {"idle", "profile", "undoUser", "forget"}, form \in {step[f].form, "none"} :
            ~SignUps!At(f, "save") /\ SignUpMoves(f, pc, form)
      BY <1>5, SignUpHandlerMoves DEF SignUps!At
    <2>2. next = savers
      BY <2>1, SaversKept, <1>s
    <2>3. UNCHANGED <<SignUps!codeVars, signUpDocs, begun>>
      BY <1>5 DEF SignUps!CreateAccount, SignUps!CreateProfile, SignUps!ProfileFails,
                  SignUps!DeleteUser, SignUps!Forget, SignUps!pendingVars
    <2>4. pending' \in SignUps!PendingSignup \cup {SignUps!NoPending} /\ pendingOver' \in BOOLEAN
      <3>1. CASE SignUps!Forget(f)
        BY <3>1 DEF SignUps!Forget, SignUps!DropsPending, SignUps!DropPending
      <3>2. CASE ~SignUps!Forget(f)
        BY <1>5, <3>2 DEF SignUps!CreateAccount, SignUps!CreateProfile, SignUps!ProfileFails,
                          SignUps!DeleteUser, SignUps!pendingVars
      <3> QED BY <3>1, <3>2
    <2>5. profile' \in BOOLEAN
      BY <1>5 DEF SignUps!CreateAccount, SignUps!CreateProfile, SignUps!ProfileFails,
                  SignUps!DeleteUser, SignUps!Forget
    <2>6. sessions' \subseteq SignUpForms
      BY <1>5 DEF SignUps!CreateAccount, SignUps!CreateProfile, SignUps!ProfileFails,
                  SignUps!DeleteUser, SignUps!Forget, SignUps!At,
                  MakersHoldTheAccount, Proved, Making
    <2>7. user' \in SignUps!User \cup {SignUps!NoUser}
      <3>1. CASE SignUps!CreateAccount(f)
        <4>1. step[f].form = f
          BY <3>1 DEF SignUps!CreateAccount, SignUps!At, MakersHoldTheAccount, Proved, Making
        <4>2. user' = user \/ user' = [form |-> f, role |-> RoleOfForm[f]]
          BY <3>1, <4>1 DEF SignUps!CreateAccount, SignUps!FormHeld
        <4> QED BY <4>2 DEF SignUps!User
      <3>2. CASE ~SignUps!CreateAccount(f)
        BY <1>5, <3>2 DEF SignUps!CreateProfile, SignUps!ProfileFails, SignUps!DeleteUser,
                          SignUps!Forget, SignUps!UndoesUser
      <3> QED BY <3>1, <3>2
    <2> HIDE DEF savers, next
    <2> QED BY <1>k, <2>1, <2>2, <2>3, <2>4, <2>5, <2>6, <2>7 DEF SignUpMoves, SignUps!codeVars
  <1>6. CASE SignUps!Time
    <2>1. next = savers
      BY <1>6, <1>s DEF SignUps!Time, Saving, SignUps!At
    <2>2. UNCHANGED <<SignUps!accountVars, signUpDocs, codes, step, begun>>
      BY <1>6 DEF SignUps!Time
    <2>3. code' \in 0..SignUpMaxCodes
      BY <1>6 DEF SignUps!Time
    <2>4. fresh' \in BOOLEAN
      BY <1>6 DEF SignUps!Time
    <2>5. pending' \in SignUps!PendingSignup \cup {SignUps!NoPending} /\ pendingOver' \in BOOLEAN
      BY <1>6 DEF SignUps!Time, SignUps!DropPending
    <2> HIDE DEF savers, next
    <2> QED BY <1>k, <2>1, <2>2, <2>3, <2>4, <2>5 DEF SignUps!accountVars
  <1> QED BY <1>1, <1>2, <1>3, <1>4, <1>5, <1>6 DEF SignUps!Next

(* The account and its makers.                                             *)

\* Who touches no account, and goes on where it may, disturbs nothing.
LEMMA SignUpQuietStep ==
  ASSUME AccountInv, NEW f \in SignUpForms, NEW pc, NEW form, SignUpMoves(f, pc, form),
         UNCHANGED SignUps!accountVars, step[f].pc \notin Making,
         pc \notin Making \cup {"forget"},
         pc \in Proved \cup {"code"} => form = f,
         pc \in Proved => f \in OwnedForms
  PROVE  AccountInv'
  <1> USE DEF AccountInv, SignUps!accountVars, SignUpMoves
  <1>1. MakersHoldTheAccount'
    BY DEF MakersHoldTheAccount
  <1>2. SignUps!AccountIsTheOwners' /\ SignUps!SessionsHaveTheAccount'
    BY DEF SignUps!AccountIsTheOwners, SignUps!SessionsHaveTheAccount
  <1>3. SignUps!NoHalfMadeDriver'
    BY DEF SignUps!NoHalfMadeDriver, Making
  <1> QED BY <1>1, <1>2, <1>3

LEMMA SignUpAccountStep ==
  ASSUME FormsAreForms, SignUpTypes, DocsAreBegun, AccountInv, SignUps!Next
  PROVE  AccountInv'
  <1>0. MakersHoldTheAccount /\ SignUps!AccountIsTheOwners /\ SignUps!NoHalfMadeDriver /\
        SignUps!SessionsHaveTheAccount
    BY DEF AccountInv
  <1>1. ASSUME NEW f \in SignUpForms,
               \/ SignUps!Submit(f) \/ SignUps!SavePending(f) \/ SignUps!Challenge(f) \/
                  SignUps!ChallengeFails(f)
               \/ SignUps!UndoPending(f) \/ SignUps!Verify(f) \/ SignUps!VerifyCode(f)
        PROVE  AccountInv'
    <2>1. UNCHANGED SignUps!accountVars
      BY <1>1 DEF SignUps!Submit, SignUps!SavePending, SignUps!Challenge, SignUps!ChallengeFails,
                  SignUps!UndoPending, SignUps!Verify, SignUps!VerifyCode
    <2>2. step[f].pc \in {"idle", "save", "challenge", "undo", "code"}
      BY <1>1, SignUpHandlerMoves DEF SignUps!At
    <2>3. step[f].pc = "code" => step[f].form = f
      BY <1>0 DEF MakersHoldTheAccount
    <2>4. \/ SignUpMoves(f, "save", step[f].form) \/ SignUpMoves(f, "challenge", f) \/
             SignUpMoves(f, "idle", "none")
          \/ SignUpMoves(f, "undo", step[f].form) \/ SignUpMoves(f, "code", f)
          \/ f \in OwnedForms /\ SignUpMoves(f, "create", f)
      BY <1>1, <2>3, SignUpHandlerMoves DEF SignUps!At
    <2> QED BY <2>1, <2>2, <2>4, SignUpQuietStep DEF Making, Proved
  <1>2. ASSUME NEW f \in SignUpForms, SignUps!Abandon(f) \/ SignUps!Resend(f)
        PROVE  AccountInv'
    <2>1. UNCHANGED <<SignUps!accountVars, step>>
      BY <1>2 DEF SignUps!Abandon, SignUps!Resend
    <2> QED BY <2>1 DEF AccountInv, MakersHoldTheAccount, SignUps!AccountIsTheOwners,
                        SignUps!NoHalfMadeDriver,
                        SignUps!SessionsHaveTheAccount, SignUps!accountVars
  <1>3. CASE SignUps!Time
    <2>1. UNCHANGED <<SignUps!accountVars, step>>
      BY <1>3 DEF SignUps!Time
    <2> QED BY <2>1 DEF AccountInv, MakersHoldTheAccount, SignUps!AccountIsTheOwners,
                        SignUps!NoHalfMadeDriver,
                        SignUps!SessionsHaveTheAccount, SignUps!accountVars
  <1>4. ASSUME NEW f \in SignUpForms, SignUps!CreateAccount(f)
        PROVE  AccountInv'
    <2>1. SignUps!At(f, "create") /\ f \in OwnedForms /\ step[f].form = f /\ UNCHANGED <<profile, sessions>>
      BY <1>0, <1>4 DEF SignUps!CreateAccount, SignUps!At, MakersHoldTheAccount, Proved
    <2>2. CASE user' = user /\ SignUpMoves(f, "idle", "none")
      BY <2>1, <2>2, SignUpQuietStep DEF SignUps!At, Making, Proved, SignUps!accountVars
    <2>3. CASE /\ user = SignUps!NoUser /\ user'.form = f /\ user'.role = RoleOfForm[f]
               /\ SignUpMoves(f, IF user'.role = "DRIVER" THEN "profile" ELSE "forget", f)
      <3>1. sessions = {}
        BY <1>0, <2>3 DEF SignUps!SessionsHaveTheAccount, SignUps!NoUser, FormsAreForms,
                          SignUpTypes, SignUps!TypeOK
      <3>2. \A g \in SignUpForms : step[g].pc \notin Making \cup {"forget"}
        BY <1>0, <2>3 DEF MakersHoldTheAccount, SignUps!NoUser, FormsAreForms
      <3>3. MakersHoldTheAccount'
        BY <1>0, <2>1, <2>3, <3>1, <3>2 DEF MakersHoldTheAccount, SignUpMoves, Making, Proved
      <3>4. SignUps!AccountIsTheOwners' /\ SignUps!SessionsHaveTheAccount'
        BY <2>1, <2>3, <3>1 DEF SignUps!AccountIsTheOwners, SignUps!SessionsHaveTheAccount
      <3>5. SignUps!NoHalfMadeDriver'
        BY <2>3 DEF SignUps!NoHalfMadeDriver, SignUpMoves
      <3> QED BY <3>3, <3>4, <3>5 DEF AccountInv
    <2> QED BY <1>4, <2>1, <2>2, <2>3, SignUpHandlerMoves
  <1>5. ASSUME NEW f \in SignUpForms, SignUps!CreateProfile(f)
        PROVE  AccountInv'
    <2>1. /\ step[f].pc = "profile" /\ f \in OwnedForms /\ step[f].form = f /\ user.form = f
          /\ UNCHANGED <<user, sessions>> /\ profile' = TRUE /\ SignUpMoves(f, "forget", f)
      BY <1>0, <1>5, SignUpHandlerMoves DEF SignUps!CreateProfile, SignUps!At,
                                            MakersHoldTheAccount, Proved, Making
    <2>2. MakersHoldTheAccount'
      BY <1>0, <2>1 DEF MakersHoldTheAccount, SignUpMoves, Making, Proved
    <2>3. SignUps!AccountIsTheOwners' /\ SignUps!SessionsHaveTheAccount' /\ SignUps!NoHalfMadeDriver'
      BY <1>0, <2>1 DEF SignUps!AccountIsTheOwners, SignUps!SessionsHaveTheAccount,
                        SignUps!NoHalfMadeDriver
    <2> QED BY <2>2, <2>3 DEF AccountInv
  <1>6. ASSUME NEW f \in SignUpForms, SignUps!ProfileFails(f)
        PROVE  AccountInv'
    <2>1. /\ step[f].pc = "profile" /\ f \in OwnedForms /\ step[f].form = f /\ user.form = f
          /\ UNCHANGED <<user, sessions, profile>> /\ SignUpMoves(f, "undoUser", f)
      BY <1>0, <1>6, SignUpHandlerMoves DEF SignUps!ProfileFails, SignUps!UndoesUser, SignUps!At,
                                            MakersHoldTheAccount, Proved, Making
    <2>2. MakersHoldTheAccount'
      BY <1>0, <2>1 DEF MakersHoldTheAccount, SignUpMoves, Making, Proved
    <2>3. SignUps!AccountIsTheOwners' /\ SignUps!SessionsHaveTheAccount'
      BY <1>0, <2>1 DEF SignUps!AccountIsTheOwners, SignUps!SessionsHaveTheAccount
    <2>4. SignUps!NoHalfMadeDriver'
      BY <2>1 DEF SignUps!NoHalfMadeDriver, SignUpMoves
    <2> QED BY <2>2, <2>3, <2>4 DEF AccountInv
  <1>7. ASSUME NEW f \in SignUpForms, SignUps!DeleteUser(f)
        PROVE  AccountInv'
    <2>1. /\ step[f].pc = "undoUser" /\ user.form = f /\ sessions = {}
          /\ user' = SignUps!NoUser /\ UNCHANGED <<sessions, profile>> /\ SignUpMoves(f, "idle", "none")
      BY <1>0, <1>7, SignUpHandlerMoves DEF SignUps!DeleteUser, SignUps!At, MakersHoldTheAccount,
                                            Proved, Making
    <2>2. \A g \in SignUpForms : g # f => step[g].pc \notin Making \cup {"forget"}
      BY <1>0, <2>1 DEF MakersHoldTheAccount
    <2>3. MakersHoldTheAccount'
      BY <1>0, <2>1, <2>2 DEF MakersHoldTheAccount, SignUpMoves, Making, Proved
    <2>4. SignUps!AccountIsTheOwners' /\ SignUps!SessionsHaveTheAccount' /\ SignUps!NoHalfMadeDriver'
      BY <2>1 DEF SignUps!AccountIsTheOwners, SignUps!SessionsHaveTheAccount,
                  SignUps!NoHalfMadeDriver, SignUps!NoUser
    <2> QED BY <2>3, <2>4 DEF AccountInv
  <1>8. ASSUME NEW f \in SignUpForms, SignUps!Forget(f)
        PROVE  AccountInv'
    <2>1. /\ step[f].pc = "forget" /\ user.form = f /\ (user.role # "DRIVER" \/ profile)
          /\ UNCHANGED <<user, profile>> /\ sessions' = sessions \cup {f} /\ SignUpMoves(f, "idle", "none")
      BY <1>0, <1>8, SignUpHandlerMoves DEF SignUps!Forget, SignUps!At, MakersHoldTheAccount,
                                            Proved, Making
    <2>2. \A g \in SignUpForms : g # f => step[g].pc \notin Making
      BY <1>0, <2>1 DEF MakersHoldTheAccount
    <2>3. MakersHoldTheAccount'
      BY <1>0, <2>1, <2>2 DEF MakersHoldTheAccount, SignUpMoves, Making, Proved
    <2>4. SignUps!AccountIsTheOwners' /\ SignUps!SessionsHaveTheAccount' /\ SignUps!NoHalfMadeDriver'
      BY <1>0, <2>1 DEF SignUps!AccountIsTheOwners, SignUps!SessionsHaveTheAccount,
                        SignUps!NoHalfMadeDriver
    <2> QED BY <2>3, <2>4 DEF AccountInv
  <1> QED BY <1>1, <1>2, <1>3, <1>4, <1>5, <1>6, <1>7, <1>8 DEF SignUps!Next

LEMMA SignUpBegins == FormsAreForms /\ SignUps!Init => SignUpInv
  <1> SUFFICES ASSUME FormsAreForms, SignUps!Init
               PROVE  SignUpInv
    OBVIOUS
  <1>1. SignUpTypes
    <2>1. SignUps!Resting \in SignUpHandler
      BY DEF SignUps!Resting, SignUpHandler, FormsAreForms
    <2>2. step \in [SignUpForms -> SignUpHandler]
      BY <2>1 DEF SignUps!Init
    <2>3. profile \in BOOLEAN /\ pendingOver \in BOOLEAN /\ fresh \in BOOLEAN
      BY Zenon DEF SignUps!Init
    <2>4. code \in 0..SignUpMaxCodes /\ sessions \subseteq SignUpForms
      BY DEF SignUps!Init, FormsAreForms
    <2>5. SignUps!TypeOK
      BY <2>3, <2>4 DEF SignUps!Init, SignUps!TypeOK
    <2> QED BY <2>2, <2>5 DEF SignUps!Init, SignUpTypes, FormsAreForms
  <1>2. DocsAreBegun
    <2>1. Saving = {}
      BY DEF SignUps!Init, Saving, SignUps!At, SignUps!Resting
    <2> QED BY <2>1, FS_EmptySet DEF SignUps!Init, DocsAreBegun
  <1>3. AccountInv
    BY DEF SignUps!Init, AccountInv, MakersHoldTheAccount, Making, Proved, SignUps!Resting,
           SignUps!AccountIsTheOwners,
           SignUps!NoHalfMadeDriver, SignUps!SessionsHaveTheAccount, SignUps!NoUser
  <1> QED BY <1>1, <1>2, <1>3 DEF SignUpInv

LEMMA SignUpStep == FormsAreForms /\ SignUpInv /\ [SignUps!Next]_(SignUps!signUpVars) => SignUpInv'
  <1> SUFFICES ASSUME FormsAreForms, SignUpInv, [SignUps!Next]_(SignUps!signUpVars)
               PROVE  SignUpInv'
    OBVIOUS
  <1>1. CASE SignUps!Next
    BY <1>1, SignUpTypesStep, SignUpAccountStep DEF SignUpInv, AccountInv
  <1>2. CASE UNCHANGED SignUps!signUpVars
    <2> USE <1>2 DEF SignUps!signUpVars, SignUps!accountVars, SignUps!pendingVars, SignUps!codeVars
    <2>1. SignUpTypes'
      BY DEF SignUpInv, SignUpTypes, SignUps!TypeOK
    <2>2. DocsAreBegun'
      <3>1. Saving' = Saving
        BY DEF Saving, SignUps!At
      <3> QED BY <3>1 DEF SignUpInv, DocsAreBegun
    <2>3. AccountInv'
      BY DEF SignUpInv, AccountInv, MakersHoldTheAccount, SignUps!AccountIsTheOwners,
             SignUps!NoHalfMadeDriver,
             SignUps!SessionsHaveTheAccount
    <2> QED BY <2>1, <2>2, <2>3 DEF SignUpInv
  <1> QED BY <1>1, <1>2

LEMMA SignUpShows ==
  SignUpInv => SignUps!TypeOK /\ SignUps!AccountIsTheOwners /\ SignUps!NoHalfMadeDriver /\
  SignUps!SessionsHaveTheAccount
  BY DEF SignUpInv, SignUpTypes, AccountInv

\* The invariant holds whichever handlers of register, resend and verify overlap, fail or die.
THEOREM SignUpInvariance == SignUps!Spec => []SignUpInv
  <1>1. SignUps!Init => SignUpInv
    BY FormsAreForms, SignUpBegins
  <1>2. SignUpInv /\ [SignUps!Next]_(SignUps!signUpVars) => SignUpInv'
    BY FormsAreForms, SignUpStep
  <1> QED BY <1>1, <1>2, PTL DEF SignUps!Spec

\* The account of a number is made from a form of the person who holds the phone, whoever else
\* submitted forms for it before, between or after (SignupService.verify, createAccount).
THEOREM TheOwnerHasTheAccount == SignUps!Spec => []SignUps!AccountIsTheOwners
  <1>1. SignUpInv => SignUps!AccountIsTheOwners
    BY SignUpShows
  <1> QED BY <1>1, SignUpInvariance, PTL

\* A driver's account lacks its profile only while the handler that made it is about to make the
\* profile or to delete the account (createVerified and its catch).
THEOREM DriversAreWhole == SignUps!Spec => []SignUps!NoHalfMadeDriver
  <1>1. SignUpInv => SignUps!NoHalfMadeDriver
    BY SignUpShows
  <1> QED BY <1>1, SignUpInvariance, PTL

\* Only the holder of the form the account was made from is ever signed in by a sign-up: of forms
\* verified together, those that lost the number get no session (phoneTaken).
THEOREM WinnersSignIn == SignUps!Spec => []SignUps!SessionsHaveTheAccount
  <1>1. SignUpInv => SignUps!SessionsHaveTheAccount
    BY SignUpShows
  <1> QED BY <1>1, SignUpInvariance, PTL

-----------------------------------------------------------------------------
(* Signing in: a request that sets the password holds its ticket alone, and who is past the judgement
   met an active account. *)

SignIns == INSTANCE Sessions WITH
  Requests <- SignInRequests, MaxSessions <- SignInMaxSessions, MaxTickets <- SignInMaxTickets,
    MaxBlocks <- SignInMaxBlocks

ASSUME SignInBounds ==
  SignInMaxSessions \in Nat /\ SignInMaxTickets \in Nat /\ SignInMaxBlocks \in Nat

Slot ==
  [pc : {"idle", "open", "judge", "rotate", "end", "claim", "set", "revoke"},
   s : 0..SignInMaxSessions, t : 0..SignInMaxTickets, proof : Nat, sawActive : BOOLEAN]
SessionTypes ==
  /\ status \in {"ACTIVE", "BLOCKED"}
  /\ session \in [1..SignInMaxSessions -> SignIns!UserSession]
  /\ proof \in [1..SignInMaxSessions -> Nat]
  /\ tickets \in 0..SignInMaxTickets /\ ticket \in 0..tickets /\ resets \in Nat
  /\ redeemed \in [1..SignInMaxTickets -> Nat]
  /\ request \in [SignInRequests -> Slot]

\* A request that sets the password alone holds a ticket that was issued, is gone and has set
\* no password yet; nor has the ticket that can still be claimed, or one not issued yet.
TicketIsOwned ==
  /\ \A p \in SignInRequests :
       /\ SignIns!At(p, "claim") => request[p].t \in 1..tickets
       /\ SignIns!At(p, "set") =>
            /\ request[p].t \in 1..tickets /\ request[p].t # ticket
            /\ redeemed[request[p].t] = 0
            /\ \A q \in SignInRequests : SignIns!At(q, "set") /\ request[q].t = request[p].t => q = p
  /\ ticket # 0 => redeemed[ticket] = 0
  /\ \A t \in 1..SignInMaxTickets : t > tickets => redeemed[t] = 0

\* Past its judgement a request has met an active account; one waiting for it is recorded
\* as soon as the account is active.
AdmittedSawActive ==
  \A p \in SignInRequests :
    /\ request[p].pc \in {"open", "rotate", "claim", "set", "revoke"} => request[p].sawActive
    /\ SignIns!At(p, "judge") /\ status = "ACTIVE" => request[p].sawActive

SignInInv == SessionTypes /\ TicketIsOwned /\ SignIns!TicketsWorkOnce /\ AdmittedSawActive

LEMMA SignInBegins == ASSUME SignInBounds PROVE SignIns!Init => SignInInv
  BY DEF SignInBounds, SignIns!Init, SignInInv, SessionTypes, TicketIsOwned, SignIns!TicketsWorkOnce,
         AdmittedSawActive, SignIns!Resting, SignIns!UserSession, SignIns!At, Slot

(* What each action makes of the request it belongs to.                    *)

\* Request p goes on at a label, with a ticket, and has or has not seen the account active.
SignInMoves(p, pc, t, saw) ==
  /\ request' \in [SignInRequests -> Slot]
  /\ \A q \in SignInRequests : q # p => request'[q] = request[q]
  /\ request'[p].pc = pc /\ request'[p].t = t /\ request'[p].sawActive = saw

LEMMA SignInGoes ==
  ASSUME SessionTypes, NEW p \in SignInRequests, NEW r \in Slot, SignIns!Goes(p, r)
  PROVE  SignInMoves(p, r.pc, r.t, r.sawActive)
  BY DEF SessionTypes, SignIns!Goes, SignInMoves

LEMMA RestingIsSlot ==
  ASSUME SignInBounds
  PROVE  SignIns!Resting \in Slot /\ SignIns!Resting.pc = "idle" /\ SignIns!Resting.t = 0 /\
         SignIns!Resting.sawActive = FALSE
  BY DEF SignInBounds, SignIns!Resting, Slot

LEMMA SignInThen ==
  ASSUME SessionTypes, NEW p \in SignInRequests,
         NEW pc \in {"idle", "open", "judge", "rotate", "end", "claim", "set", "revoke"}, SignIns!Then(p, pc)
  PROVE  SignInMoves(p, pc, request[p].t, request[p].sawActive)
  <1> DEFINE r == [request[p] EXCEPT !.pc = pc]
  <1>1. r \in Slot /\ r.pc = pc /\ r.t = request[p].t /\ r.sawActive = request[p].sawActive
    BY DEF SessionTypes, Slot
  <1>2. SignIns!Goes(p, r)
    BY DEF SignIns!Then
  <1> HIDE DEF r
  <1> QED BY <1>1, <1>2, SignInGoes

LEMMA SignInRests ==
  ASSUME SignInBounds, SessionTypes, NEW p \in SignInRequests, SignIns!Goes(p, SignIns!Resting)
  PROVE  SignInMoves(p, "idle", 0, FALSE)
  <1> QED BY RestingIsSlot, SignInGoes

LEMMA SignInStarts ==
  ASSUME SessionTypes, NEW p \in SignInRequests, NEW r \in Slot, SignIns!Begins(p, r)
  PROVE  SignInMoves(p, r.pc, r.t, status = "ACTIVE") /\ SignIns!At(p, "idle")
  <1> DEFINE c == [r EXCEPT !.sawActive = (status = "ACTIVE"), !.proof = resets]
  <1>1. c \in Slot /\ c.pc = r.pc /\ c.t = r.t /\ c.sawActive = (status = "ACTIVE")
    BY DEF SessionTypes, Slot
  <1>2. SignIns!Goes(p, c) /\ SignIns!At(p, "idle")
    BY DEF SignIns!Begins
  <1> HIDE DEF c
  <1> QED BY <1>1, <1>2, SignInGoes

\* The moves of a request, action by action.
LEMMA RequestMoves ==
  ASSUME SignInBounds, SessionTypes, NEW p \in SignInRequests
  PROVE  /\ SignIns!SignIn(p) => SignInMoves(p, "open", 0, TRUE)
         /\ SignIns!OpenSession(p) => SignInMoves(p, "idle", 0, FALSE)
         /\ SignIns!Refresh(p) => SignInMoves(p, "judge", 0, status = "ACTIVE")
         /\ SignIns!Judge(p) => SignInMoves(p, IF SignIns!CanSignIn THEN "rotate" ELSE "end",
                              request[p].t, request[p].sawActive)
         /\ SignIns!Rotate(p) => \/ SignIns!At(p, "rotate") /\ SignInMoves(p, "open", request[p].t, request[p].sawActive)
                                 \/ SignInMoves(p, "idle", 0, FALSE)
         /\ SignIns!Logout(p) => SignInMoves(p, "end", 0, status = "ACTIVE")
         /\ SignIns!Reset(p) => SignInMoves(p, "claim", ticket, TRUE)
         /\ SignIns!Claim(p) => IF SignIns!Claimed(request[p].t)
                        THEN SignInMoves(p, "set", request[p].t, request[p].sawActive)
                        ELSE SignInMoves(p, "idle", 0, FALSE)
         /\ SignIns!SetPassword(p) => SignInMoves(p, "revoke", request[p].t, request[p].sawActive)
         /\ SignIns!RevokeAll(p) => SignInMoves(p, "open", request[p].t, request[p].sawActive)
  <1>1. ASSUME SignIns!SignIn(p) PROVE SignInMoves(p, "open", 0, TRUE)
    <2> DEFINE r == [SignIns!Resting EXCEPT !.pc = "open"]
    <2>1. r \in Slot /\ r.pc = "open" /\ r.t = 0
      BY RestingIsSlot DEF Slot
    <2>2. SignIns!Begins(p, r) /\ status = "ACTIVE"
      BY <1>1 DEF SignIns!SignIn, SignIns!CanSignIn
    <2> HIDE DEF r
    <2>3. SignInMoves(p, r.pc, r.t, status = "ACTIVE")
      BY <2>1, <2>2, SignInStarts
    <2> QED BY <2>1, <2>2, <2>3 DEF SignInMoves
  <1>2. ASSUME SignIns!OpenSession(p) PROVE SignInMoves(p, "idle", 0, FALSE)
    BY <1>2, SignInRests DEF SignIns!OpenSession
  <1>3. ASSUME SignIns!Refresh(p) PROVE SignInMoves(p, "judge", 0, status = "ACTIVE")
    <2>1. PICK s \in 1..SignInMaxSessions :
            SignIns!Goes(p, [pc |-> "judge", s |-> s, t |-> 0, proof |-> proof[s],
                     sawActive |-> status = "ACTIVE"])
      BY <1>3 DEF SignIns!Refresh
    <2> DEFINE r == [pc |-> "judge", s |-> s, t |-> 0, proof |-> proof[s],
                     sawActive |-> status = "ACTIVE"]
    <2>2. r \in Slot /\ r.pc = "judge" /\ r.t = 0 /\ r.sawActive = (status = "ACTIVE")
      BY DEF Slot, SessionTypes, SignInBounds
    <2>3. SignIns!Goes(p, r)
      BY <2>1
    <2> HIDE DEF r
    <2>4. SignInMoves(p, r.pc, r.t, r.sawActive)
      BY <2>2, <2>3, SignInGoes
    <2> QED BY <2>2, <2>4
  <1>4. ASSUME SignIns!Judge(p)
        PROVE  SignInMoves(p, IF SignIns!CanSignIn THEN "rotate" ELSE "end", request[p].t,
        request[p].sawActive)
    BY <1>4, SignInThen DEF SignIns!Judge
  <1>5. ASSUME SignIns!Rotate(p)
        PROVE  \/ SignIns!At(p, "rotate") /\ SignInMoves(p, "open", request[p].t, request[p].sawActive)
               \/ SignInMoves(p, "idle", 0, FALSE)
    BY <1>5, SignInThen, SignInRests DEF SignIns!Rotate
  <1>6. ASSUME SignIns!Logout(p) PROVE SignInMoves(p, "end", 0, status = "ACTIVE")
    <2>1. PICK s \in 1..SignInMaxSessions : SignIns!Begins(p, [SignIns!Resting EXCEPT !.pc = "end", !.s = s])
      BY <1>6 DEF SignIns!Logout
    <2> DEFINE r == [SignIns!Resting EXCEPT !.pc = "end", !.s = s]
    <2>0. s \in 0..SignInMaxSessions
      BY DEF SignInBounds
    <2>2. r \in Slot /\ r.pc = "end" /\ r.t = 0
      BY <2>0, RestingIsSlot DEF Slot
    <2>3. SignIns!Begins(p, r)
      BY <2>1
    <2> HIDE DEF r
    <2>4. SignInMoves(p, r.pc, r.t, status = "ACTIVE")
      BY <2>2, <2>3, SignInStarts
    <2> QED BY <2>2, <2>4
  <1>7. ASSUME SignIns!Reset(p) PROVE SignInMoves(p, "claim", ticket, TRUE)
    <2> DEFINE r == [SignIns!Resting EXCEPT !.pc = "claim", !.t = ticket]
    <2>0. ticket \in 0..SignInMaxTickets
      BY DEF SignInBounds, SessionTypes
    <2>1. r \in Slot /\ r.pc = "claim" /\ r.t = ticket
      BY <2>0, RestingIsSlot DEF Slot
    <2>2. SignIns!Begins(p, r) /\ status = "ACTIVE"
      BY <1>7 DEF SignIns!Reset, SignIns!CanSignIn
    <2> HIDE DEF r
    <2>3. SignInMoves(p, r.pc, r.t, status = "ACTIVE")
      BY <2>1, <2>2, SignInStarts
    <2> QED BY <2>1, <2>2, <2>3 DEF SignInMoves
  <1>8. ASSUME SignIns!Claim(p)
        PROVE  IF SignIns!Claimed(request[p].t)
               THEN SignInMoves(p, "set", request[p].t, request[p].sawActive)
               ELSE SignInMoves(p, "idle", 0, FALSE)
    BY <1>8, SignInThen, SignInRests DEF SignIns!Claim
  <1>9. ASSUME SignIns!SetPassword(p) PROVE SignInMoves(p, "revoke", request[p].t, request[p].sawActive)
    <2> DEFINE r == [request[p] EXCEPT !.pc = "revoke", !.proof = resets + 1]
    <2>0. request[p] \in Slot /\ resets + 1 \in Nat
      BY DEF SessionTypes
    <2>1. r \in Slot /\ r.pc = "revoke" /\ r.t = request[p].t /\ r.sawActive = request[p].sawActive
      BY <2>0 DEF Slot
    <2>2. SignIns!Goes(p, r)
      BY <1>9 DEF SignIns!SetPassword
    <2> HIDE DEF r
    <2>3. SignInMoves(p, r.pc, r.t, r.sawActive)
      BY <2>1, <2>2, SignInGoes
    <2> QED BY <2>1, <2>3
  <1>10. ASSUME SignIns!RevokeAll(p) PROVE SignInMoves(p, "open", request[p].t, request[p].sawActive)
    BY <1>10, SignInThen DEF SignIns!RevokeAll
  <1> QED BY <1>1, <1>2, <1>3, <1>4, <1>5, <1>6, <1>7, <1>8, <1>9, <1>10

(* The three parts of the invariant.                                       *)

RequestStep(p) ==
  \/ SignIns!SignIn(p) \/ SignIns!OpenSession(p) \/ SignIns!Refresh(p) \/ SignIns!Judge(p) \/
     SignIns!Rotate(p) \/ SignIns!Logout(p)
  \/ SignIns!Reset(p) \/ SignIns!Claim(p) \/ SignIns!SetPassword(p) \/ SignIns!RevokeAll(p)

LEMMA RequestsKeepType ==
  ASSUME SignInBounds, SessionTypes, NEW p \in SignInRequests, RequestStep(p)
  PROVE  request' \in [SignInRequests -> Slot]
  BY RequestMoves DEF RequestStep, SignInMoves

LEMMA RevokeType ==
  ASSUME SessionTypes, NEW S, SignIns!Revoke(S)
  PROVE  session' \in [1..SignInMaxSessions -> SignIns!UserSession]
  BY DEF SessionTypes, SignIns!Revoke, SignIns!UserSession

LEMMA UnblockType ==
  ASSUME SessionTypes, SignIns!Unblock
  PROVE  /\ request' \in [SignInRequests -> Slot]
         /\ \A p \in SignInRequests :
              /\ request'[p].pc = request[p].pc /\ request'[p].t = request[p].t
              /\ request'[p].sawActive = (request[p].sawActive \/ request[p].pc # "idle")
  <1> DEFINE r(p) == [request[p] EXCEPT !.sawActive = @ \/ request[p].pc # "idle"]
  <1>1. \A p \in SignInRequests : /\ r(p) \in Slot /\ r(p).pc = request[p].pc /\ r(p).t = request[p].t
                                  /\ r(p).sawActive = (request[p].sawActive \/ request[p].pc # "idle")
    BY DEF SessionTypes, Slot
  <1>2. request' = [p \in SignInRequests |-> r(p)]
    BY DEF SignIns!Unblock
  <1> HIDE DEF r
  <1> QED BY <1>1, <1>2

LEMMA SignInTypesStep ==
  ASSUME SignInBounds, SessionTypes, [SignIns!Next]_(SignIns!sessionVars)
  PROVE  SessionTypes'
  <1>1. CASE UNCHANGED SignIns!sessionVars
    BY <1>1 DEF SignIns!sessionVars, SignIns!reqVars, SessionTypes
  <1>2. ASSUME NEW p \in SignInRequests, RequestStep(p)
        PROVE  SessionTypes'
    <2>1. request' \in [SignInRequests -> Slot] /\ status' = status
      BY <1>2, RequestsKeepType DEF RequestStep, SignIns!SignIn, SignIns!OpenSession,
                                    SignIns!Refresh, SignIns!Judge, SignIns!Rotate, SignIns!Logout,
         SignIns!Reset, SignIns!Claim, SignIns!SetPassword, SignIns!RevokeAll
    <2>2. CASE SignIns!SignIn(p) \/ SignIns!Refresh(p) \/ SignIns!Judge(p) \/ SignIns!Logout(p) \/
               SignIns!Reset(p)
      BY <2>1, <2>2 DEF SignIns!SignIn, SignIns!Refresh, SignIns!Judge, SignIns!Logout,
                        SignIns!Reset, SessionTypes
    <2>3. CASE SignIns!OpenSession(p)
      <3>1. request[p].proof \in Nat
        BY DEF Slot, SessionTypes
      <3>2. session' \in [1..SignInMaxSessions -> SignIns!UserSession] /\
            proof' \in [1..SignInMaxSessions -> Nat]
        BY <2>3, <3>1 DEF SignIns!OpenSession, SignIns!UserSession, SessionTypes
      <3> QED BY <2>1, <2>3, <3>2 DEF SignIns!OpenSession, SessionTypes
    <2>4. CASE SignIns!Rotate(p) \/ SignIns!RevokeAll(p)
      BY <2>1, <2>4, RevokeType DEF SignIns!Rotate, SignIns!RevokeAll, SessionTypes
    <2>5. CASE SignIns!Claim(p)
      BY <2>1, <2>5 DEF SignIns!Claim, SessionTypes
    <2>6. CASE SignIns!SetPassword(p)
      <3> DEFINE t == request[p].t
      <3>1. redeemed' \in [1..SignInMaxTickets -> Nat]
        <4>1. redeemed' = [redeemed EXCEPT ![t] = redeemed[t] + 1]
          BY <2>6 DEF SignIns!SetPassword
        <4> HIDE DEF t
        <4>2. t \in 1..SignInMaxTickets => redeemed[t] + 1 \in Nat
          BY DEF SessionTypes
        <4> QED BY <4>1, <4>2 DEF SessionTypes
      <3>2. resets' \in Nat
        BY <2>6 DEF SignIns!SetPassword, SessionTypes
      <3> QED BY <2>1, <2>6, <3>1, <3>2 DEF SignIns!SetPassword, SessionTypes
    <2> QED BY <1>2, <2>2, <2>3, <2>4, <2>5, <2>6 DEF RequestStep
  <1>3. CASE SignIns!LogoutEverywhere \/ SignIns!VerifyCode \/ SignIns!TicketExpires
    BY <1>3, RevokeType
       DEF SignIns!LogoutEverywhere, SignIns!VerifyCode, SignIns!TicketExpires, SessionTypes,
           SignInBounds
  <1>4. CASE SignIns!Block \/ SignIns!RevokeBlocked
    BY <1>4, RevokeType DEF SignIns!Block, SignIns!RevokeBlocked, SignIns!reqVars, SessionTypes
  <1>5. CASE SignIns!Unblock
    BY <1>5, UnblockType DEF SignIns!Unblock, SessionTypes
  <1> QED BY <1>1, <1>2, <1>3, <1>4, <1>5 DEF SignIns!Next, RequestStep

\* A request that holds no ticket it claimed, and leaves the tickets alone.
LEMMA TicketsRest ==
  ASSUME SessionTypes, TicketIsOwned, SignIns!TicketsWorkOnce,
         UNCHANGED <<ticket, tickets, redeemed>>,
         \A q \in SignInRequests :
           /\ SignIns!At(q, "claim")' => SignIns!At(q, "claim") /\ request'[q].t = request[q].t
           /\ SignIns!At(q, "set")' => SignIns!At(q, "set") /\ request'[q].t = request[q].t
  PROVE  TicketIsOwned' /\ SignIns!TicketsWorkOnce'
  BY DEF TicketIsOwned, SignIns!TicketsWorkOnce, SignIns!At

LEMMA TicketsStep ==
  ASSUME SignInBounds, SessionTypes, TicketIsOwned, SignIns!TicketsWorkOnce,
  [SignIns!Next]_(SignIns!sessionVars)
  PROVE  TicketIsOwned' /\ SignIns!TicketsWorkOnce'
  <1>1. CASE UNCHANGED SignIns!sessionVars
    BY <1>1, TicketsRest DEF SignIns!sessionVars, SignIns!reqVars, SignIns!At
  <1>2. ASSUME NEW p \in SignInRequests, RequestStep(p)
        PROVE  TicketIsOwned' /\ SignIns!TicketsWorkOnce'
    <2>1. CASE SignIns!SignIn(p) \/ SignIns!OpenSession(p) \/ SignIns!Refresh(p) \/ SignIns!Judge(p) \/
               SignIns!Rotate(p) \/ SignIns!Logout(p)
      <3>1. \E pc \in {"open", "idle", "judge", "rotate", "end"} :
              \E t, saw : SignInMoves(p, pc, t, saw)
        BY <2>1, RequestMoves
      <3>2. UNCHANGED <<ticket, tickets, redeemed>>
        BY <2>1 DEF SignIns!SignIn, SignIns!OpenSession, SignIns!Refresh, SignIns!Judge,
                    SignIns!Rotate, SignIns!Logout
      <3> QED BY <3>1, <3>2, TicketsRest DEF SignInMoves, SignIns!At
    <2>2. CASE SignIns!RevokeAll(p)
      <3>1. SignInMoves(p, "open", request[p].t, request[p].sawActive)
        BY <2>2, RequestMoves
      <3> QED BY <2>2, <3>1, TicketsRest DEF SignIns!RevokeAll, SignInMoves, SignIns!At
    <2>3. CASE SignIns!Reset(p)
      <3>1. SignInMoves(p, "claim", ticket, TRUE)
        BY <2>3, RequestMoves
      <3>2. ticket \in 1..tickets
        BY <2>3 DEF SignIns!Reset, SessionTypes
      <3> QED BY <2>3, <3>1, <3>2 DEF SignIns!Reset, SignInMoves, SignIns!At, TicketIsOwned,
                                      SignIns!TicketsWorkOnce
    <2>4. CASE SignIns!Claim(p) /\ SignIns!Claimed(request[p].t)
      <3>1. SignInMoves(p, "set", request[p].t, request[p].sawActive) /\ ticket' = 0
        BY <2>4, RequestMoves DEF SignIns!Claim, SignIns!Claimed
      <3>2. SignIns!At(p, "claim") /\ request[p].t = ticket /\ ticket \in 1..tickets
        BY <2>4 DEF SignIns!Claim, SignIns!Claimed, TicketIsOwned
      <3>3. UNCHANGED <<tickets, redeemed>>
        BY <2>4 DEF SignIns!Claim
      <3> QED BY <3>1, <3>2, <3>3, SMTT(40) DEF SignInMoves, SignIns!At, TicketIsOwned,
                                                SignIns!TicketsWorkOnce, SessionTypes
    <2>5. CASE SignIns!Claim(p) /\ ~SignIns!Claimed(request[p].t)
      <3>1. SignInMoves(p, "idle", 0, FALSE)
        BY <2>5, RequestMoves
      <3>2. UNCHANGED <<ticket, tickets, redeemed>>
        BY <2>5 DEF SignIns!Claim, SignIns!Claimed
      <3> QED BY <3>1, <3>2, TicketsRest DEF SignInMoves, SignIns!At
    <2>6. CASE SignIns!SetPassword(p)
      <3> DEFINE t == request[p].t
      <3>1. SignInMoves(p, "revoke", t, request[p].sawActive)
        BY <2>6, RequestMoves
      <3>2. /\ SignIns!At(p, "set") /\ t \in 1..tickets /\ t # ticket /\ redeemed[t] = 0
            /\ \A q \in SignInRequests : SignIns!At(q, "set") /\ request[q].t = t => q = p
        BY <2>6 DEF SignIns!SetPassword, TicketIsOwned
      <3>3. UNCHANGED <<ticket, tickets>> /\ redeemed' = [redeemed EXCEPT ![t] = @ + 1]
        BY <2>6 DEF SignIns!SetPassword
      <3>4. t \in 1..SignInMaxTickets /\ redeemed'[t] = 1
            /\ \A i \in 1..SignInMaxTickets : i # t => redeemed'[i] = redeemed[i]
        BY <3>2, <3>3 DEF SessionTypes, SignInBounds
      <3> HIDE DEF t
      <3>5. SignIns!TicketsWorkOnce'
        BY <3>4 DEF SignIns!TicketsWorkOnce
      <3>6. \A q \in SignInRequests : SignIns!At(q, "claim")' => SignIns!At(q, "claim") /\
            request'[q].t = request[q].t
        BY <3>1 DEF SignInMoves, SignIns!At
      <3>7. \A q \in SignInRequests : SignIns!At(q, "set")' =>
              q # p /\ SignIns!At(q, "set") /\ request'[q].t = request[q].t /\ request[q].t # t
        BY <3>1, <3>2 DEF SignInMoves, SignIns!At
      <3>8. \A i \in 1..tickets : i \in 1..SignInMaxTickets
        BY DEF SessionTypes, SignInBounds
      <3>9. \A q \in SignInRequests : SignIns!At(q, "claim")' => request'[q].t \in 1..tickets'
        BY <3>3, <3>6 DEF TicketIsOwned
      <3>a. \A q \in SignInRequests : SignIns!At(q, "set")' =>
              /\ request'[q].t \in 1..tickets' /\ request'[q].t # ticket'
              /\ redeemed'[request'[q].t] = 0
        BY <3>3, <3>4, <3>7, <3>8 DEF TicketIsOwned
      <3>b. \A q, o \in SignInRequests :
              SignIns!At(q, "set")' /\ SignIns!At(o, "set")' /\ request'[o].t = request'[q].t => o = q
        BY <3>7 DEF TicketIsOwned
      <3>c. /\ ticket' # 0 => redeemed'[ticket'] = 0
            /\ \A i \in 1..SignInMaxTickets : i > tickets' => redeemed'[i] = 0
        BY <3>2, <3>3, <3>4, <3>8 DEF TicketIsOwned, SessionTypes
      <3> QED BY <3>5, <3>9, <3>a, <3>b, <3>c DEF TicketIsOwned
    <2> QED BY <1>2, <2>1, <2>2, <2>3, <2>4, <2>5, <2>6 DEF RequestStep
  <1>3. CASE SignIns!VerifyCode
    BY <1>3 DEF SignIns!VerifyCode, TicketIsOwned, SignIns!TicketsWorkOnce, SignIns!At,
                SessionTypes, SignInBounds
  <1>4. CASE SignIns!TicketExpires
    BY <1>4 DEF SignIns!TicketExpires, TicketIsOwned, SignIns!TicketsWorkOnce, SignIns!At, SessionTypes
  <1>5. CASE SignIns!LogoutEverywhere \/ SignIns!Block \/ SignIns!RevokeBlocked
    BY <1>5, TicketsRest DEF SignIns!LogoutEverywhere, SignIns!Block, SignIns!RevokeBlocked,
                             SignIns!reqVars, SignIns!At
  <1>6. CASE SignIns!Unblock
    <2>1. UNCHANGED <<ticket, tickets, redeemed>>
      BY <1>6 DEF SignIns!Unblock
    <2> QED BY <1>6, <2>1, UnblockType, TicketsRest DEF SignIns!At
  <1> QED BY <1>1, <1>2, <1>3, <1>4, <1>5, <1>6 DEF SignIns!Next, RequestStep

LEMMA AdmittedStep ==
  ASSUME SignInBounds, SessionTypes, AdmittedSawActive, [SignIns!Next]_(SignIns!sessionVars)
  PROVE  AdmittedSawActive'
  <1> USE DEF AdmittedSawActive, SignIns!At
  <1>1. CASE UNCHANGED SignIns!sessionVars
    BY <1>1 DEF SignIns!sessionVars, SignIns!reqVars
  <1>2. ASSUME NEW p \in SignInRequests, RequestStep(p)
        PROVE  AdmittedSawActive'
    <2>1. status' = status
      BY <1>2 DEF RequestStep, SignIns!SignIn, SignIns!OpenSession, SignIns!Refresh, SignIns!Judge,
                  SignIns!Rotate, SignIns!Logout, SignIns!Reset, SignIns!Claim,
                  SignIns!SetPassword, SignIns!RevokeAll
    <2>2. CASE SignIns!SignIn(p) \/ SignIns!Reset(p)
      <3>1. SignInMoves(p, "open", 0, TRUE) \/ SignInMoves(p, "claim", ticket, TRUE)
        BY <2>2, RequestMoves
      <3> QED BY <2>1, <3>1 DEF SignInMoves
    <2>3. CASE SignIns!OpenSession(p) \/ SignIns!Logout(p)
      <3>1. \E pc \in {"idle", "end"}, saw \in BOOLEAN : SignInMoves(p, pc, 0, saw)
        BY <2>3, RequestMoves
      <3> QED BY <2>1, <3>1 DEF SignInMoves
    <2>4. CASE SignIns!Refresh(p)
      <3>1. SignInMoves(p, "judge", 0, status = "ACTIVE")
        BY <2>4, RequestMoves
      <3> QED BY <2>1, <3>1 DEF SignInMoves
    <2>5. CASE SignIns!Judge(p)
      <3>1. SignIns!At(p, "judge")
        BY <2>5 DEF SignIns!Judge
      <3>2. SignInMoves(p, IF SignIns!CanSignIn THEN "rotate" ELSE "end", request[p].t, request[p].sawActive)
        BY <2>5, RequestMoves
      <3> QED BY <2>1, <3>1, <3>2 DEF SignInMoves, SignIns!CanSignIn
    <2>6. CASE SignIns!Rotate(p)
      <3>1. \/ SignIns!At(p, "rotate") /\ SignInMoves(p, "open", request[p].t, request[p].sawActive)
            \/ SignInMoves(p, "idle", 0, FALSE)
        BY <2>6, RequestMoves
      <3> QED BY <2>1, <3>1 DEF SignInMoves
    <2>7. CASE SignIns!Claim(p)
      <3>1. SignIns!At(p, "claim")
        BY <2>7 DEF SignIns!Claim
      <3>2. \/ SignInMoves(p, "set", request[p].t, request[p].sawActive)
            \/ SignInMoves(p, "idle", 0, FALSE)
        BY <2>7, RequestMoves
      <3> QED BY <2>1, <3>1, <3>2 DEF SignInMoves
    <2>8. CASE SignIns!SetPassword(p) \/ SignIns!RevokeAll(p)
      <3>1. SignIns!At(p, "set") \/ SignIns!At(p, "revoke")
        BY <2>8 DEF SignIns!SetPassword, SignIns!RevokeAll
      <3>2. \/ SignInMoves(p, "revoke", request[p].t, request[p].sawActive)
            \/ SignInMoves(p, "open", request[p].t, request[p].sawActive)
        BY <2>8, RequestMoves
      <3> QED BY <2>1, <3>1, <3>2 DEF SignInMoves
    <2> QED BY <1>2, <2>2, <2>3, <2>4, <2>5, <2>6, <2>7, <2>8 DEF RequestStep
  <1>3. CASE SignIns!LogoutEverywhere \/ SignIns!VerifyCode \/ SignIns!TicketExpires \/ SignIns!Block \/
             SignIns!RevokeBlocked
    BY <1>3 DEF SignIns!LogoutEverywhere, SignIns!VerifyCode, SignIns!TicketExpires, SignIns!Block,
                SignIns!RevokeBlocked, SignIns!reqVars
  <1>4. CASE SignIns!Unblock
    BY <1>4, UnblockType DEF SessionTypes, Slot
  <1> QED BY <1>1, <1>2, <1>3, <1>4 DEF SignIns!Next, RequestStep

LEMMA SignInStep == SignInBounds /\ SignInInv /\ [SignIns!Next]_(SignIns!sessionVars) => SignInInv'
  BY SignInTypesStep, TicketsStep, AdmittedStep DEF SignInInv

LEMMA SignInShows == SignInBounds /\ SignInInv => SignIns!TypeOK /\ SignIns!TicketsWorkOnce /\
      SignIns!BlockedOpenNothingStep
  BY DEF SignInBounds, SignInInv, SessionTypes, SignIns!TypeOK, AdmittedSawActive,
         SignIns!BlockedOpenNothingStep, SignIns!At

\* The inductive invariant holds in every reachable state, whatever the requests, the admin
\* and the expiry of tickets do to each other.
THEOREM SignInInvariance ==
  SignIns!Spec => []SignInInv
  <1>1. SignIns!Init => SignInInv
    BY SignInBounds, SignInBegins
  <1>2. SignInInv /\ [SignIns!Next]_(SignIns!sessionVars) => SignInInv'
    BY SignInBounds, SignInStep
  <1> QED BY <1>1, <1>2, PTL DEF SignIns!Spec

\* A reset ticket sets a password at most once, however many requests present it: the
\* findOneAndDelete of PasswordResetService.reset decides.
THEOREM TicketsAreUsedOnce ==
  SignIns!Spec => []SignIns!TicketsWorkOnce
  <1>1. SignInInv => SignIns!TicketsWorkOnce
    BY DEF SignInInv
  <1> QED BY <1>1, SignInInvariance, PTL

\* A request opens a session only if the account was active at some moment while it was
\* under way: by password, code, refresh or reset (assertCanSignIn before each).
THEOREM BlockedStayOut ==
  SignIns!Spec => SignIns!BlockedOpenNothing
  <1>1. SignInInv => SignIns!BlockedOpenNothingStep
    BY DEF SignInInv, AdmittedSawActive, SignIns!BlockedOpenNothingStep, SignIns!At
  <1> QED BY <1>1, SignInInvariance, PTL DEF SignIns!BlockedOpenNothing
-----------------------------------------------------------------------------
(* One-time codes: proved in their own module, for any slots and limits. *)

OtpSends == INSTANCE OtpCodes WITH
  Senders <- SendSenders, Verifiers <- {}, MaxAttempts <- SendMaxAttempts,
    MaxSendsPerWindow <- SendMaxPerWindow, MaxSends <- SendMaxSends, MaxWindows <- SendMaxWindows

OtpChecks == INSTANCE OtpCodes WITH
  Senders <- CheckSenders, Verifiers <- CheckVerifiers, MaxAttempts <- CheckMaxAttempts,
    MaxSendsPerWindow <- CheckMaxPerWindow, MaxSends <- CheckMaxSends,
    MaxWindows <- CheckMaxWindows

ASSUME OtpSlotsAndLimits == OtpSends!SlotsAndLimits /\ OtpChecks!SlotsAndLimits

-----------------------------------------------------------------------------
(* What customers say.  The sums of stars: of one rating, and of one more. *)

RatingDesk == INSTANCE Feedback WITH
  Rides <- RatingRides, Stars <- RatingStars, Taps <- RatingTaps, MaxErrors <- RatingMaxErrors,
    Filers <- {}, Admins <- {}, MaxTickets <- 0, MaxUpdates <- 0, errors <- feedbackErrors,
    tickets <- feedbackTickets, desk <- feedbackDesk, crossed <- feedbackCrossed

ASSUME RateableRides == RatingStars \subseteq Nat

LEMMA RatingsAreCounted == ASSUME NEW S PROVE RatingDesk!Cardinality(S) = Cardinality(S)
  BY DEF RatingDesk!Cardinality, Cardinality

LEMMA StarsOfNone == RatingDesk!StarsOf({}) = 0
  <1>1. RatingDesk!StarsGiven({}) = {}
    BY DEF RatingDesk!StarsGiven
  <1> QED BY <1>1, FS_EmptySet, RatingsAreCounted DEF RatingDesk!StarsOf

\* n stars are n.
LEMMA StarsOfOne ==
  ASSUME NEW r, r.stars \in Nat
  PROVE  IsFiniteSet({r} \X (1..r.stars)) /\ Cardinality({r} \X (1..r.stars)) = r.stars
  <1>1. IsFiniteSet(1..r.stars) /\ Cardinality(1..r.stars) = r.stars
    BY FS_Interval
  <1>2. IsFiniteSet({r}) /\ Cardinality({r}) = 1
    BY FS_Singleton
  <1> QED BY <1>1, <1>2, FS_Product

LEMMA StarsAreFinite ==
  ASSUME NEW S, IsFiniteSet(S), \A r \in S : r.stars \in Nat
  PROVE  IsFiniteSet(RatingDesk!StarsGiven(S)) /\ RatingDesk!StarsOf(S) \in Nat
  <1>1. IsFiniteSet({{r} \X (1..r.stars) : r \in S})
    <2> DEFINE T == {{r} \X (1..r.stars) : r \in S}
               f == [r \in S |-> {r} \X (1..r.stars)]
    <2>1. f \in Surjection(S, T)
      BY DEF Surjection
    <2> QED BY <2>1, FS_Surjection
  <1>2. \A T \in {{r} \X (1..r.stars) : r \in S} : IsFiniteSet(T)
    BY StarsOfOne
  <1>3. IsFiniteSet(RatingDesk!StarsGiven(S))
    BY <1>1, <1>2, FS_UNION DEF RatingDesk!StarsGiven
  <1> QED BY <1>3, FS_CardinalityType, RatingsAreCounted DEF RatingDesk!StarsOf

\* One more rating adds its stars.
LEMMA StarsOfOneMore ==
  ASSUME NEW S, IsFiniteSet(S), \A q \in S : q.stars \in Nat, NEW r, r.stars \in Nat, r \notin S
  PROVE  RatingDesk!StarsOf(S \cup {r}) = RatingDesk!StarsOf(S) + r.stars
  <1> DEFINE new == {r} \X (1..r.stars)
  <1>1. RatingDesk!StarsGiven(S \cup {r}) = RatingDesk!StarsGiven(S) \cup new
    BY DEF RatingDesk!StarsGiven
  <1>2. RatingDesk!StarsGiven(S) \cap new = {}
    BY DEF RatingDesk!StarsGiven
  <1>3. IsFiniteSet(RatingDesk!StarsGiven(S)) /\ RatingDesk!StarsOf(S) \in Nat
    BY StarsAreFinite
  <1>4. IsFiniteSet(new) /\ Cardinality(new) = r.stars
    BY StarsOfOne
  <1> HIDE DEF new
  <1>5. Cardinality(RatingDesk!StarsGiven(S) \cup new) = Cardinality(RatingDesk!StarsGiven(S)) + Cardinality(new) - 0
    BY <1>2, <1>3, <1>4, FS_Union, FS_EmptySet
  <1>6. RatingDesk!StarsOf(S \cup {r}) = Cardinality(RatingDesk!StarsGiven(S) \cup new)
    BY Zenon, <1>1, RatingsAreCounted DEF RatingDesk!StarsOf
  <1>7. RatingDesk!StarsOf(S) = Cardinality(RatingDesk!StarsGiven(S))
    BY Zenon, RatingsAreCounted DEF RatingDesk!StarsOf
  <1> QED BY <1>3, <1>4, <1>5, <1>6, <1>7

(* The stars of the driver.                                                *)

\* A tap whose rating is stored and who has not finished with the sums.
Pending(t) == tap[t].pc \in {"apply", "sum", "set"}
RatingOf(t) == [ride |-> tap[t].ride, stars |-> tap[t].stars]
\* The ratings that are still to be added.
Owing == {RatingOf(t) : t \in {u \in RatingTaps : tap[u].pc = "apply"}}
Torn == \E t \in RatingTaps : tap[t].pc \in {"sum", "set"}

Tap == [pc : {"idle", "create", "apply", "sum", "set"}, ride : RatingRides \cup {"none"},
        stars : RatingStars \cup {0}, sum : Nat, count : Nat]

RatingTypes ==
  /\ tap \in [RatingTaps -> Tap] /\ rebuilt \in BOOLEAN
  /\ ratings \subseteq RatingDesk!Rating /\ IsFiniteSet(ratings)
  /\ sum \in Nat /\ count \in Nat
  /\ \A t \in RatingTaps : tap[t].pc # "idle" => RatingOf(t) \in RatingDesk!Rating /\ tap[t].ride \in paid

TapsHaveRatings ==
  /\ \A t \in RatingTaps : Pending(t) => RatingOf(t) \in ratings
  /\ \A t, u \in RatingTaps : Pending(t) /\ Pending(u) /\ tap[t].ride = tap[u].ride => t = u

\* What a rebuild has read covers no rating of a tap that is not done.
Covers(t, R) ==
  /\ tap[t].sum = RatingDesk!StarsOf(R) /\ tap[t].count = Cardinality(R)
  /\ \A u \in RatingTaps \ {t} : Pending(u) => RatingOf(u) \notin R

SumsAgree ==
  ~rebuilt =>
    /\ ~Torn => sum = RatingDesk!StarsOf(ratings \ Owing) /\ count = Cardinality(ratings \ Owing)
    /\ \A t \in RatingTaps : tap[t].pc = "set" => \E R \in SUBSET ratings : Covers(t, R)

RatingInv == RatingTypes /\ RatingDesk!OneRatingPerRide /\ TapsHaveRatings /\ SumsAgree

\* No two ratings of a driver's taps are the same.
LEMMA StarsAreNumbers ==
  ASSUME RateableRides, RatingTypes, NEW R \in SUBSET ratings
  PROVE  /\ IsFiniteSet(R) /\ \A r \in R : r.stars \in Nat
         /\ RatingDesk!StarsOf(R) \in Nat /\ Cardinality(R) \in Nat
  <1>1. IsFiniteSet(R)
    BY FS_Subset DEF RatingTypes
  <1>2. \A r \in R : r.stars \in Nat
    BY DEF RatingTypes, RatingDesk!Rating, RateableRides
  <1> QED BY <1>1, <1>2, StarsAreFinite, FS_CardinalityType

LEMMA RatingBegins == RateableRides /\ RatingDesk!Init => RatingInv
  <1> SUFFICES ASSUME RateableRides, RatingDesk!Init PROVE RatingInv
    OBVIOUS
  <1>1. tap = [t \in RatingTaps |-> RatingDesk!Idle] /\ ratings = {} /\ paid = {} /\ sum = 0 /\
        count = 0 /\ rebuilt = FALSE
    BY DEF RatingDesk!Init
  <1>2. RatingTypes
    BY <1>1, FS_EmptySet DEF RatingTypes, Tap, RatingDesk!Idle
  <1>3. RatingDesk!OneRatingPerRide
    BY <1>1 DEF RatingDesk!OneRatingPerRide, RatingDesk!RatedRides
  <1>4. TapsHaveRatings
    BY <1>1 DEF TapsHaveRatings, Pending, RatingDesk!Idle
  <1>5. SumsAgree
    <2>1. ratings \ Owing = {}
      BY <1>1
    <2>2. \A t \in RatingTaps : tap[t].pc # "set"
      BY <1>1 DEF RatingDesk!Idle
    <2> QED BY <1>1, <2>1, <2>2, StarsOfNone, FS_EmptySet DEF SumsAgree
  <1> QED BY <1>2, <1>3, <1>4, <1>5 DEF RatingInv

\* A tap at t that neither has nor gets a rating to add disturbs nothing.
LEMMA RatingQuiet ==
  ASSUME RateableRides, RatingInv, UNCHANGED <<ratings, sum, count, rebuilt>>,
         tap' \in [RatingTaps -> Tap], paid \subseteq paid',
         \A t \in RatingTaps : tap'[t] = tap[t] \/ {tap[t].pc, tap'[t].pc} \subseteq {"idle", "create"},
         \A t \in RatingTaps : tap'[t] # tap[t] /\ tap'[t].pc # "idle" =>
                           tap'[t].ride \in RatingRides \cap paid /\ tap'[t].stars \in RatingStars
  PROVE  RatingInv'
  <1> USE DEF RatingInv
  <1>1. RatingTypes'
    BY DEF RatingTypes, RatingOf, RatingDesk!Rating
  <1>2. RatingDesk!OneRatingPerRide'
    BY DEF RatingDesk!OneRatingPerRide, RatingDesk!RatedRides
  <1>3. \A t \in RatingTaps : /\ Pending(t)' = Pending(t)
                              /\ Pending(t) => tap'[t] = tap[t] /\ RatingOf(t)' = RatingOf(t)
    <2> TAKE t \in RatingTaps
    <2>1. CASE tap'[t] = tap[t]
      BY <2>1 DEF Pending, RatingOf
    <2>2. CASE {tap[t].pc, tap'[t].pc} \subseteq {"idle", "create"}
      BY <2>2 DEF Pending
    <2> QED BY Zenon, <2>1, <2>2
  <1>4. TapsHaveRatings'
    BY <1>3 DEF TapsHaveRatings
  <1>5. Owing' = Owing
    BY <1>3 DEF Owing, Pending
  <1>6. Torn' = Torn
    BY <1>3 DEF Torn, Pending
  <1>7. SumsAgree'
    <2>1. ASSUME NEW t \in RatingTaps, tap'[t].pc = "set", ~rebuilt
          PROVE  \E R \in SUBSET ratings' : Covers(t, R)'
      <3>1. tap'[t] = tap[t]
        BY <1>3, <2>1 DEF Pending
      <3>2. PICK R \in SUBSET ratings : Covers(t, R)
        BY <2>1, <3>1 DEF SumsAgree
      <3>3. Covers(t, R)'
        BY <1>3, <3>1, <3>2 DEF Covers
      <3> QED BY <3>3
    <2> QED BY <1>5, <1>6, <2>1 DEF SumsAgree
  <1> QED BY <1>1, <1>2, <1>4, <1>7

\* Create stores the rating of a tap, or finds the ride rated.
LEMMA CreateKeeps ==
  ASSUME RateableRides, RatingInv, NEW t \in RatingTaps, RatingDesk!Create(t)
  PROVE  RatingInv'
  <1> DEFINE new == RatingOf(t)
  <1>1. CASE ~RatingDesk!Insertable(t)
    <2>1. /\ tap[t].pc = "create" /\ tap' = [tap EXCEPT ![t] = RatingDesk!Idle] /\
             tap \in [RatingTaps -> Tap]
          /\ UNCHANGED <<paid, ratings, sum, count, rebuilt>>
      BY <1>1 DEF RatingDesk!Create, RatingInv, RatingTypes
    <2>2. tap' \in [RatingTaps -> Tap] /\ tap'[t].pc = "idle" /\
          \A u \in RatingTaps \ {t} : tap'[u] = tap[u]
      BY <2>1 DEF RatingDesk!Idle, Tap
    <2>4. \A u \in RatingTaps : tap'[u] = tap[u] \/ {tap[u].pc, tap'[u].pc} \subseteq {"idle", "create"}
      BY <2>1, <2>2
    <2>5. \A u \in RatingTaps : ~(tap'[u] # tap[u] /\ tap'[u].pc # "idle")
      BY <2>2
    <2> QED BY <2>1, <2>2, <2>4, <2>5, RatingQuiet
  <1>2. CASE RatingDesk!Insertable(t)
    <2>1. /\ tap[t].pc = "create" /\ ratings' = ratings \cup {new}
          /\ tap' = [tap EXCEPT ![t].pc = "apply"] /\ UNCHANGED <<paid, sum, count, rebuilt>>
      BY <1>2 DEF RatingDesk!Create, RatingOf
    <2>2. /\ new \in RatingDesk!Rating /\ new.ride \in paid /\ new.stars = tap[t].stars /\
             new.ride = tap[t].ride
          /\ tap[t] \in Tap /\ tap \in [RatingTaps -> Tap]
      BY <2>1 DEF RatingInv, RatingTypes, RatingOf
    <2>3. \A r \in ratings : r.ride # new.ride
      BY <1>2, <2>2 DEF RatingDesk!Insertable, RatingDesk!RatedRides
    <2>4. \A u \in RatingTaps : /\ u # t => tap'[u] = tap[u]
                                /\ tap'[u].ride = tap[u].ride /\ tap'[u].stars = tap[u].stars
                                /\ tap'[u].sum = tap[u].sum /\ tap'[u].count = tap[u].count
                                /\ RatingOf(u)' = RatingOf(u)
      BY <2>1, <2>2 DEF RatingOf, Tap
    <2>5. tap'[t].pc = "apply" /\ tap' \in [RatingTaps -> Tap]
      BY <2>1, <2>2 DEF Tap
    <2> HIDE DEF new
    <2>6. RatingTypes'
      <3>1. IsFiniteSet(ratings')
        BY <2>1, FS_AddElement DEF RatingInv, RatingTypes
      <3>2. ASSUME NEW u \in RatingTaps, tap'[u].pc # "idle"
            PROVE  RatingOf(u)' \in RatingDesk!Rating /\ tap'[u].ride \in paid'
        BY <2>1, <2>4, <3>2 DEF RatingInv, RatingTypes
      <3> QED BY <2>1, <2>2, <2>5, <3>1, <3>2 DEF RatingInv, RatingTypes
    <2>7. RatingDesk!OneRatingPerRide'
      BY <2>1, <2>2, <2>3 DEF RatingInv, RatingDesk!OneRatingPerRide, RatingDesk!RatedRides
    <2>8. \A u \in RatingTaps : /\ u # t => Pending(u)' = Pending(u)
                                /\ u # t /\ Pending(u) => RatingOf(u) \in ratings /\ RatingOf(u) # new
                                /\ u # t /\ Pending(u) => tap[u].ride # tap[t].ride
      BY <2>2, <2>3, <2>4 DEF RatingInv, TapsHaveRatings, Pending, RatingOf
    <2>9. TapsHaveRatings'
      BY <2>1, <2>4, <2>5, <2>8 DEF RatingInv, TapsHaveRatings, new
    <2>10. SumsAgree'
      <3>1. Torn' = Torn
        BY <2>1, <2>4, <2>5 DEF Torn
      <3>2. Owing' = Owing \cup {new}
        BY <2>1, <2>4, <2>5 DEF Owing, new
      <3>3. ratings' \ Owing' = ratings \ Owing
        BY <2>1, <2>3, <3>2
      <3>4. ASSUME NEW u \in RatingTaps, tap'[u].pc = "set", ~rebuilt
            PROVE  \E R \in SUBSET ratings' : Covers(u, R)'
        <4>1. u # t /\ tap[u].pc = "set"
          BY <2>4, <2>5, <3>4
        <4>2. PICK R \in SUBSET ratings : Covers(u, R)
          BY <3>4, <4>1 DEF RatingInv, SumsAgree
        <4>3. \A v \in RatingTaps \ {u} : Pending(v)' => RatingOf(v)' \notin R
          BY <2>3, <2>4, <2>8, <4>2 DEF Covers, new
        <4>4. Covers(u, R)'
          BY <2>4, <4>2, <4>3 DEF Covers
        <4> QED BY <2>1, <4>4
      <3> QED BY <2>1, <3>1, <3>3, <3>4 DEF RatingInv, SumsAgree
    <2> QED BY <2>6, <2>7, <2>9, <2>10 DEF RatingInv
  <1> QED BY <1>1, <1>2

\* applyToDriver adds the stars of a rating that was owing, or leaves the sums to a rebuild.
LEMMA ApplyKeeps ==
  ASSUME RateableRides, RatingInv, NEW t \in RatingTaps, RatingDesk!ApplyToDriver(t)
  PROVE  RatingInv'
  <1> DEFINE new == RatingOf(t)
  <1>1. /\ tap[t].pc = "apply" /\ UNCHANGED <<ratings, paid, rebuilt>>
        /\ tap \in [RatingTaps -> Tap] /\ tap[t] \in Tap /\ sum \in Nat /\ count \in Nat
        /\ tap[t].stars \in Nat
    BY DEF RatingDesk!ApplyToDriver, RatingInv, RatingTypes, RatingDesk!Rating, RatingOf, RateableRides
  <1>2. new \in ratings /\ new.stars = tap[t].stars /\ Pending(t)
    BY <1>1 DEF RatingInv, TapsHaveRatings, Pending, RatingOf
  <1>3. RatingDesk!OneRatingPerRide'
    BY <1>1 DEF RatingInv, RatingDesk!OneRatingPerRide, RatingDesk!RatedRides
  <1>4. CASE sum' = sum + tap[t].stars /\ count' = count + 1 /\ tap' = [tap EXCEPT ![t] = RatingDesk!Idle]
    <2>1. tap' \in [RatingTaps -> Tap] /\ tap'[t].pc = "idle" /\
          \A u \in RatingTaps \ {t} : tap'[u] = tap[u]
      BY <1>1, <1>4 DEF RatingDesk!Idle, Tap
    <2>2. /\ ~Pending(t)'
          /\ \A u \in RatingTaps \ {t} : Pending(u)' = Pending(u) /\ RatingOf(u)' = RatingOf(u)
      BY <2>1 DEF Pending, RatingOf
    <2>3. RatingTypes'
      BY <1>1, <1>4, <2>1, <2>2 DEF RatingInv, RatingTypes
    <2>4. TapsHaveRatings'
      BY <1>1, <2>1, <2>2 DEF RatingInv, TapsHaveRatings
    <2>5. SumsAgree'
      <3>1. Torn' = Torn
        BY <1>1, <2>1 DEF Torn
      <3>2. Owing' = Owing \ {new} /\ new \in Owing
        <4>1. \A u \in RatingTaps \ {t} : Pending(u) => RatingOf(u) # new
          BY <1>2 DEF RatingInv, TapsHaveRatings, RatingOf
        <4>2. Owing' = {RatingOf(u) : u \in {v \in RatingTaps \ {t} : tap[v].pc = "apply"}}
          BY <2>1, <2>2 DEF Owing
        <4> HIDE DEF new
        <4>3. {RatingOf(u) : u \in {v \in RatingTaps \ {t} : tap[v].pc = "apply"}} = Owing \ {new}
          BY <1>1, <4>1 DEF Owing, Pending, new
        <4> QED BY <1>1, <4>2, <4>3 DEF Owing, new
      <3> HIDE DEF new
      <3>3. ratings' \ Owing' = (ratings \ Owing) \cup {new}
        BY <1>1, <1>2, <3>2
      <3>4. ASSUME ~rebuilt, ~Torn
            PROVE  sum' = RatingDesk!StarsOf(ratings' \ Owing') /\ count' = Cardinality(ratings' \ Owing')
        <4>1. sum = RatingDesk!StarsOf(ratings \ Owing) /\ count = Cardinality(ratings \ Owing)
          BY <3>4 DEF RatingInv, SumsAgree
        <4>2. IsFiniteSet(ratings \ Owing) /\ \A r \in ratings \ Owing : r.stars \in Nat
          BY StarsAreNumbers DEF RatingInv
        <4>3. RatingDesk!StarsOf((ratings \ Owing) \cup {new}) = RatingDesk!StarsOf(ratings \ Owing) + new.stars
          BY <1>1, <1>2, <3>2, <4>2, StarsOfOneMore
        <4>4. Cardinality((ratings \ Owing) \cup {new}) = Cardinality(ratings \ Owing) + 1
          BY <3>2, <4>2, FS_AddElement
        <4> QED BY <1>2, <1>4, <3>3, <4>1, <4>3, <4>4
      <3>5. ASSUME NEW u \in RatingTaps, tap'[u].pc = "set", ~rebuilt
            PROVE  \E R \in SUBSET ratings' : Covers(u, R)'
        <4>1. u # t /\ tap'[u] = tap[u]
          BY <2>1, <3>5
        <4>2. PICK R \in SUBSET ratings : Covers(u, R)
          BY <3>5, <4>1 DEF RatingInv, SumsAgree
        <4>3. Covers(u, R)'
          BY <2>2, <4>1, <4>2 DEF Covers
        <4> QED BY <1>1, <4>3
      <3> QED BY <1>1, <3>1, <3>4, <3>5 DEF SumsAgree
    <2> QED BY <1>3, <2>3, <2>4, <2>5 DEF RatingInv
  <1>5. CASE /\ tap' = [tap EXCEPT ![t].pc = "sum"]
             /\ UNCHANGED <<sum, count>> \/ (sum' = sum + tap[t].stars /\ count' = count + 1)
    <2>1. /\ tap' \in [RatingTaps -> Tap] /\ tap'[t].pc = "sum" /\
             \A u \in RatingTaps \ {t} : tap'[u] = tap[u]
          /\ \A u \in RatingTaps : /\ tap'[u].ride = tap[u].ride /\ tap'[u].stars = tap[u].stars
      BY <1>1, <1>5 DEF Tap
    <2>2. \A u \in RatingTaps : Pending(u)' = Pending(u) /\ RatingOf(u)' = RatingOf(u)
      BY <1>1, <2>1 DEF Pending, RatingOf
    <2>3. RatingTypes'
      <3>1. \A u \in RatingTaps : tap'[u].pc # "idle" => tap[u].pc # "idle"
        BY <1>1, <2>1
      <3> QED BY <1>1, <1>5, <2>1, <2>2, <3>1 DEF RatingInv, RatingTypes
    <2>4. TapsHaveRatings'
      BY <1>1, <2>1, <2>2 DEF RatingInv, TapsHaveRatings
    <2>5. Torn'
      BY <2>1 DEF Torn
    <2>6. SumsAgree'
      <3>1. ASSUME NEW u \in RatingTaps, tap'[u].pc = "set", ~rebuilt
            PROVE  \E R \in SUBSET ratings' : Covers(u, R)'
        <4>1. u # t /\ tap'[u] = tap[u]
          BY <2>1, <3>1
        <4>2. PICK R \in SUBSET ratings : Covers(u, R)
          BY <3>1, <4>1 DEF RatingInv, SumsAgree
        <4>3. Covers(u, R)'
          BY <2>2, <4>1, <4>2 DEF Covers
        <4> QED BY <1>1, <4>3
      <3> QED BY <1>1, <2>5, <3>1 DEF SumsAgree
    <2> QED BY <1>3, <2>3, <2>4, <2>6 DEF RatingInv
  <1> QED BY <1>4, <1>5 DEF RatingDesk!ApplyToDriver, RatingDesk!Added

\* A rebuild that no other tap is beside reads all that is owed.
LEMMA RebuildKeeps ==
  ASSUME RateableRides, RatingInv, NEW t \in RatingTaps, RatingDesk!Rebuild(t)
  PROVE  RatingInv'
  <1>1. /\ tap[t].pc = "sum" /\ UNCHANGED <<ratings, paid, sum, count>>
        /\ tap \in [RatingTaps -> Tap] /\ tap[t] \in Tap /\ rebuilt' \in BOOLEAN
    BY RatingsAreCounted DEF RatingDesk!Rebuild, RatingInv, RatingTypes
  <1>2. tap' = [tap EXCEPT ![t] = [tap[t] EXCEPT !.pc = "set", !.sum = RatingDesk!StarsOf(ratings),
                                                 !.count = Cardinality(ratings)]]
    BY RatingsAreCounted DEF RatingDesk!Rebuild
  <1>3. RatingDesk!StarsOf(ratings) \in Nat /\ Cardinality(ratings) \in Nat
    BY StarsAreNumbers DEF RatingInv
  <1>4. /\ tap' \in [RatingTaps -> Tap] /\ tap'[t].pc = "set" /\
           \A u \in RatingTaps \ {t} : tap'[u] = tap[u]
        /\ tap'[t].sum = RatingDesk!StarsOf(ratings) /\ tap'[t].count = Cardinality(ratings)
        /\ tap'[t].ride = tap[t].ride /\ tap'[t].stars = tap[t].stars
    BY <1>1, <1>2, <1>3 DEF Tap
  <1>5. \A u \in RatingTaps : Pending(u)' = Pending(u) /\ RatingOf(u)' = RatingOf(u)
    BY <1>1, <1>4 DEF Pending, RatingOf
  <1>6. RatingTypes'
    <2>1. \A u \in RatingTaps : tap'[u].pc # "idle" => tap[u].pc # "idle" /\ tap'[u].ride = tap[u].ride
      BY <1>1, <1>4
    <2> QED BY <1>1, <1>4, <1>5, <2>1 DEF RatingInv, RatingTypes
  <1>7. RatingDesk!OneRatingPerRide'
    BY <1>1 DEF RatingInv, RatingDesk!OneRatingPerRide, RatingDesk!RatedRides
  <1>8. TapsHaveRatings'
    <2>1. \A u \in RatingTaps : tap'[u].ride = tap[u].ride
      BY <1>4
    <2> QED BY <1>1, <1>5, <2>1 DEF RatingInv, TapsHaveRatings
  <1>9. SumsAgree'
    <2>1. SUFFICES ASSUME ~rebuilt'
                   PROVE  \A u \in RatingTaps : tap'[u].pc = "set" =>
                          \E R \in SUBSET ratings' : Covers(u, R)'
      BY <1>4 DEF SumsAgree, Torn
    <2>2. \A u \in RatingTaps \ {t} : ~Pending(u)
      BY <2>1, RatingsAreCounted DEF RatingDesk!Rebuild, Pending
    <2>3. Covers(t, ratings)'
      BY <1>1, <1>4, <1>5, <2>2 DEF Covers
    <2>4. \A u \in RatingTaps \ {t} : tap'[u].pc # "set"
      BY <1>4, <2>2 DEF Pending
    <2> QED BY <1>1, <2>3, <2>4
  <1> QED BY <1>6, <1>7, <1>8, <1>9 DEF RatingInv

\* A rebuild writes what it has read; unless it is marked, that is all there is.
LEMMA SetKeeps ==
  ASSUME RateableRides, RatingInv, NEW t \in RatingTaps, RatingDesk!SetRebuilt(t)
  PROVE  RatingInv'
  <1>1. /\ tap[t].pc = "set" /\ UNCHANGED <<ratings, paid>> /\ sum' = tap[t].sum /\ count' = tap[t].count
        /\ tap \in [RatingTaps -> Tap] /\ tap[t] \in Tap /\ rebuilt' \in BOOLEAN
        /\ tap' = [tap EXCEPT ![t] = RatingDesk!Idle]
        /\ ~rebuilt' => ~rebuilt /\ tap[t].count = Cardinality(ratings)
    BY RatingsAreCounted DEF RatingDesk!SetRebuilt, RatingInv, RatingTypes
  <1>2. tap' \in [RatingTaps -> Tap] /\ tap'[t].pc = "idle" /\ \A u \in RatingTaps \ {t} : tap'[u] = tap[u]
    BY <1>1 DEF RatingDesk!Idle, Tap
  <1>3. ~Pending(t)' /\ \A u \in RatingTaps \ {t} : Pending(u)' = Pending(u) /\ RatingOf(u)' = RatingOf(u)
    BY <1>2 DEF Pending, RatingOf
  <1>4. RatingTypes'
    <2>1. sum' \in Nat /\ count' \in Nat
      BY <1>1 DEF Tap
    <2> QED BY <1>1, <1>2, <1>3, <2>1 DEF RatingInv, RatingTypes
  <1>5. RatingDesk!OneRatingPerRide'
    BY <1>1 DEF RatingInv, RatingDesk!OneRatingPerRide, RatingDesk!RatedRides
  <1>6. TapsHaveRatings'
    BY <1>1, <1>2, <1>3 DEF RatingInv, TapsHaveRatings
  <1>7. SumsAgree'
    <2>1. SUFFICES ASSUME ~rebuilt'
                   PROVE  /\ sum' = RatingDesk!StarsOf(ratings' \ Owing') /\
                             count' = Cardinality(ratings' \ Owing')
                          /\ \A u \in RatingTaps : tap'[u].pc # "set"
      BY DEF SumsAgree
    <2>2. PICK R \in SUBSET ratings : Covers(t, R)
      BY <1>1, <2>1 DEF RatingInv, SumsAgree
    <2>3. R = ratings
      BY <1>1, <2>1, <2>2, FS_Subset DEF Covers, RatingInv, RatingTypes
    <2>4. \A u \in RatingTaps \ {t} : ~Pending(u)
      BY <2>2, <2>3 DEF Covers, RatingInv, TapsHaveRatings
    <2>5. \A u \in RatingTaps : ~Pending(u)'
      BY <1>3, <2>4
    <2>6. ratings' \ Owing' = ratings
      BY <1>1, <2>5 DEF Owing, Pending
    <2>7. \A u \in RatingTaps : tap'[u].pc # "set"
      BY <2>5 DEF Pending
    <2> QED BY <1>1, <2>2, <2>3, <2>6, <2>7 DEF Covers
  <1> QED BY <1>4, <1>5, <1>6, <1>7 DEF RatingInv

LEMMA RatingStep ==
  ASSUME RateableRides, RatingInv, [RatingDesk!RatingNext]_(RatingDesk!ratingVars)
  PROVE  RatingInv'
  <1>0. tap \in [RatingTaps -> Tap] /\ paid \subseteq paid
    BY DEF RatingInv, RatingTypes
  <1>1. ASSUME NEW r \in RatingRides, RatingDesk!Pays(r) \/ RatingDesk!Closes(r)
        PROVE  RatingInv'
    <2>1. UNCHANGED <<ratings, sum, count, rebuilt, tap>> /\ paid \subseteq paid'
      BY <1>1 DEF RatingDesk!Pays, RatingDesk!Closes
    <2>2. \A u \in RatingTaps : tap'[u] = tap[u]
      BY <2>1
    <2> QED BY <1>0, <2>1, <2>2, RatingQuiet
  <1>2. ASSUME NEW t \in RatingTaps, RatingDesk!Rate(t)
        PROVE  RatingInv'
    <2>1. PICK r \in RatingRides, n \in RatingStars :
            RatingDesk!Rateable(r) /\
            tap' = [tap EXCEPT ![t] = [RatingDesk!Idle EXCEPT !.pc = "create", !.ride = r, !.stars = n]]
      BY <1>2 DEF RatingDesk!Rate
    <2>2. UNCHANGED <<ratings, sum, count, rebuilt, paid>> /\ tap[t].pc = "idle" /\ r \in paid
      BY <1>2, <2>1 DEF RatingDesk!Rate, RatingDesk!Rateable
    <2>3. /\ tap' \in [RatingTaps -> Tap] /\ \A u \in RatingTaps \ {t} : tap'[u] = tap[u]
          /\ tap'[t].pc = "create" /\ tap'[t].ride = r /\ tap'[t].stars = n
      BY <1>0, <2>1 DEF RatingDesk!Idle, Tap
    <2>4. \A u \in RatingTaps : tap'[u] = tap[u] \/ {tap[u].pc, tap'[u].pc} \subseteq {"idle", "create"}
      BY <2>2, <2>3
    <2>5. \A u \in RatingTaps : tap'[u] # tap[u] /\ tap'[u].pc # "idle" =>
                            tap'[u].ride \in RatingRides \cap paid /\ tap'[u].stars \in RatingStars
      BY <2>2, <2>3
    <2> QED BY <2>2, <2>3, <2>4, <2>5, RatingQuiet
  <1>3. CASE UNCHANGED RatingDesk!ratingVars
    <2>1. \A u \in RatingTaps : tap'[u] = tap[u]
      BY <1>3 DEF RatingDesk!ratingVars
    <2> QED BY <1>0, <1>3, <2>1, RatingQuiet DEF RatingDesk!ratingVars
  <1> QED BY <1>1, <1>2, <1>3, CreateKeeps, ApplyKeeps, RebuildKeeps, SetKeeps DEF RatingDesk!RatingNext

LEMMA RatingShows == RateableRides /\ RatingInv => RatingDesk!OneRatingPerRide /\ RatingDesk!StarsAddUp
  <1> SUFFICES ASSUME RateableRides, RatingInv PROVE RatingDesk!OneRatingPerRide /\ RatingDesk!StarsAddUp
    OBVIOUS
  <1>1. ASSUME \A t \in RatingTaps : tap[t].pc \notin {"apply", "sum", "set"}
        PROVE  ~Torn /\ ratings \ Owing = ratings
    BY <1>1 DEF Torn, Owing
  <1> QED BY <1>1, RatingsAreCounted DEF RatingInv, SumsAgree, RatingDesk!StarsAddUp

ComplaintDesk == INSTANCE Feedback WITH
  Rides <- {}, Stars <- {}, Taps <- {}, MaxErrors <- 0, Filers <- ComplaintFilers,
    Admins <- ComplaintAdmins, MaxTickets <- ComplaintMaxTickets,
    MaxUpdates <- ComplaintMaxUpdates, errors <- feedbackErrors, tickets <- feedbackTickets,
    desk <- feedbackDesk, crossed <- feedbackCrossed

LEMMA TicketsAreCounted == ASSUME NEW S PROVE ComplaintDesk!Cardinality(S) = Cardinality(S)
  BY DEF ComplaintDesk!Cardinality, Cardinality

(* The tickets.                                                            *)

DeskWork == [pc : {"idle", "write"}, ticket : Nat, seen : ComplaintDesk!Statuses, to : ComplaintDesk!Statuses,
             resolution : {"none"} \cup ComplaintAdmins]

TicketTypes ==
  /\ feedbackTickets \in Seq(ComplaintDesk!SupportTicket) /\
     \A i \in DOMAIN feedbackTickets : feedbackTickets[i].history # <<>>
  /\ shown \in Seq(SUBSET ({"none"} \cup ComplaintAdmins)) /\ Len(shown) = Len(feedbackTickets)
  /\ feedbackDesk \in [ComplaintAdmins -> DeskWork]
  /\ filer \in [ComplaintFilers -> {"idle", "create"}]

\* What an admin is about to write was a legal update of the ticket that was read.
UpdatesAreJudged ==
  \A a \in ComplaintAdmins : feedbackDesk[a].pc = "write" =>
    /\ feedbackDesk[a].ticket \in DOMAIN feedbackTickets
    /\ feedbackDesk[a].to \in ComplaintDesk!COMPLAINT_TRANSITIONS[feedbackDesk[a].seen] \cup {feedbackDesk[a].seen}
    /\ feedbackDesk[a].to = feedbackDesk[a].seen => feedbackDesk[a].resolution # "none"
    /\ feedbackDesk[a].to = "RESOLVED" => feedbackDesk[a].resolution # "none" \/
       feedbackTickets[feedbackDesk[a].ticket].resolution # "none"

FreshTickets == {i \in ComplaintDesk!OpenTickets : ~ComplaintDesk!Reopened(i)}
Filing == {f \in ComplaintFilers : filer[f] = "create"}

\* As long as no two filings crossed: one fresh ticket, or one about to be made.
OneFresh ==
  ~feedbackCrossed =>
    /\ \A i, j \in FreshTickets : i = j
    /\ \A f, g \in Filing : f = g
    /\ Filing # {} => FreshTickets = {}

TicketInv ==
  TicketTypes /\ UpdatesAreJudged /\ ComplaintDesk!TimelineIsThePath /\
  ComplaintDesk!ResolvedIsExplained /\ OneFresh

LEMMA TicketBegins == ComplaintDesk!Init => TicketInv
  <1> SUFFICES ASSUME ComplaintDesk!Init PROVE TicketInv
    OBVIOUS
  <1>1. /\ feedbackTickets = <<>> /\ filer = [f \in ComplaintFilers |-> "idle"] /\
           feedbackDesk = [a \in ComplaintAdmins |-> ComplaintDesk!Away]
        /\ shown = <<>>
    BY DEF ComplaintDesk!Init
  <1>2. TicketTypes
    BY <1>1 DEF TicketTypes, DeskWork, ComplaintDesk!Away, ComplaintDesk!Statuses,
                ComplaintDesk!COMPLAINT_TRANSITIONS
  <1>3. UpdatesAreJudged
    BY <1>1 DEF UpdatesAreJudged, ComplaintDesk!Away
  <1>4. ComplaintDesk!TimelineIsThePath /\ ComplaintDesk!ResolvedIsExplained
    BY <1>1 DEF ComplaintDesk!TimelineIsThePath, ComplaintDesk!ResolvedIsExplained
  <1>5. OneFresh
    BY <1>1 DEF OneFresh, FreshTickets, ComplaintDesk!OpenTickets, Filing
  <1> QED BY <1>2, <1>3, <1>4, <1>5 DEF TicketInv

LEMMA FileKeeps ==
  ASSUME TicketInv, NEW f \in ComplaintFilers, ComplaintDesk!File(f)
  PROVE  TicketInv'
  <1>1. /\ UNCHANGED <<feedbackTickets, feedbackDesk, shown>> /\ ComplaintDesk!OpenTickets = {} /\
           filer[f] = "idle"
        /\ filer' = [filer EXCEPT ![f] = "create"] /\ filer \in [ComplaintFilers -> {"idle", "create"}]
        /\ ~feedbackCrossed' => Filing = {} /\ ~feedbackCrossed
    BY DEF ComplaintDesk!File, ComplaintDesk!Fileable, TicketInv, TicketTypes, Filing
  <1>2. TicketTypes'
    BY <1>1 DEF TicketInv, TicketTypes
  <1>3. UpdatesAreJudged' /\ ComplaintDesk!TimelineIsThePath' /\ ComplaintDesk!ResolvedIsExplained'
    BY <1>1 DEF TicketInv, UpdatesAreJudged, ComplaintDesk!TimelineIsThePath,
                ComplaintDesk!ResolvedIsExplained
  <1>4. FreshTickets' = {}
    BY <1>1 DEF FreshTickets, ComplaintDesk!OpenTickets
  <1>5. ~feedbackCrossed' => Filing' = {f}
    BY <1>1 DEF Filing
  <1>6. OneFresh'
    BY <1>4, <1>5 DEF OneFresh
  <1> QED BY <1>2, <1>3, <1>6 DEF TicketInv

LEMMA CreateTicketKeeps ==
  ASSUME TicketInv, NEW f \in ComplaintFilers, ComplaintDesk!CreateTicket(f)
  PROVE  TicketInv'
  <1> DEFINE new == [status |-> "OPEN", resolution |-> "none", assigned |-> "none",
                     history |-> <<"OPEN">>]
             n == Len(feedbackTickets) + 1
  <1>1. /\ filer[f] = "create" /\ filer' = [filer EXCEPT ![f] = "idle"] /\
           UNCHANGED <<feedbackDesk, feedbackCrossed>>
        /\ feedbackTickets' = Append(feedbackTickets, new) /\ shown' = Append(shown, {})
    BY DEF ComplaintDesk!CreateTicket
  <1>2. /\ feedbackTickets \in Seq(ComplaintDesk!SupportTicket) /\
           filer \in [ComplaintFilers -> {"idle", "create"}]
        /\ shown \in Seq(SUBSET ({"none"} \cup ComplaintAdmins)) /\ Len(shown) = Len(feedbackTickets)
    BY DEF TicketInv, TicketTypes
  <1>3. new \in ComplaintDesk!SupportTicket
    BY DEF ComplaintDesk!SupportTicket, ComplaintDesk!Statuses,
           ComplaintDesk!COMPLAINT_TRANSITIONS, ComplaintDesk!TicketHistoryEntry
  <1>h. new.history = <<"OPEN">> /\ new.status = "OPEN" /\ new.resolution = "none"
    OBVIOUS
  <1> HIDE DEF new
  <1>4. /\ feedbackTickets' \in Seq(ComplaintDesk!SupportTicket) /\ Len(feedbackTickets') = n /\
           feedbackTickets'[n] = new
        /\ \A i \in DOMAIN feedbackTickets : i \in DOMAIN feedbackTickets' /\
           feedbackTickets'[i] = feedbackTickets[i]
        /\ DOMAIN feedbackTickets' = DOMAIN feedbackTickets \cup {n}
    BY <1>1, <1>2, <1>3
  <1>5. TicketTypes'
    <2>1. shown' \in Seq(SUBSET ({"none"} \cup ComplaintAdmins)) /\ Len(shown') = n
      BY <1>1, <1>2
    <2>2. filer' \in [ComplaintFilers -> {"idle", "create"}] /\ UNCHANGED feedbackDesk
      BY <1>1, <1>2
    <2>3. new.history # <<>>
      BY <1>h
    <2>4. \A i \in DOMAIN feedbackTickets' : feedbackTickets'[i].history # <<>>
      BY <1>4, <2>3 DEF TicketInv, TicketTypes
    <2> QED BY <1>4, <2>1, <2>2, <2>4 DEF TicketInv, TicketTypes
  <1>6. UpdatesAreJudged'
    BY <1>1, <1>4 DEF TicketInv, UpdatesAreJudged
  <1>7. ComplaintDesk!TimelineIsThePath'
    <2>1. Len(<<"OPEN">>) = 1 /\ <<"OPEN">>[1] = "OPEN"
      OBVIOUS
    <2>2. /\ new.history[Len(new.history)] = new.status
          /\ \A m \in 1..(Len(new.history) - 1) :
               new.history[m + 1] \in ComplaintDesk!COMPLAINT_TRANSITIONS[new.history[m]]
      BY <1>h, <2>1
    <2> QED BY <1>4, <2>2 DEF TicketInv, ComplaintDesk!TimelineIsThePath
  <1>8. ComplaintDesk!ResolvedIsExplained'
    BY <1>4, <1>h DEF TicketInv, ComplaintDesk!ResolvedIsExplained
  <1>9. OneFresh'
    <2>1. ASSUME ~feedbackCrossed PROVE FreshTickets = {} /\ Filing = {f}
      BY <1>1, <2>1 DEF TicketInv, OneFresh, Filing
    <2>2. FreshTickets' \subseteq FreshTickets \cup {n}
      BY <1>4 DEF FreshTickets, ComplaintDesk!OpenTickets, ComplaintDesk!Reopened
    <2>3. ~feedbackCrossed => Filing' = {}
      BY <1>1, <1>2, <2>1 DEF Filing
    <2> QED BY <1>1, <2>1, <2>2, <2>3 DEF OneFresh
  <1> QED BY <1>5, <1>6, <1>7, <1>8, <1>9 DEF TicketInv

LEMMA ReadKeeps ==
  ASSUME TicketInv, NEW a \in ComplaintAdmins, ComplaintDesk!ReadTicket(a)
  PROVE  TicketInv'
  <1>1. PICK i \in DOMAIN feedbackTickets, resolution \in {"none", a} :
          \E to \in ComplaintDesk!COMPLAINT_TRANSITIONS[feedbackTickets[i].status] \cup {feedbackTickets[i].status} :
            /\ to = feedbackTickets[i].status => resolution # "none"
            /\ to = "RESOLVED" /\ to # feedbackTickets[i].status => ComplaintDesk!Resolvable(i, resolution)
            /\ feedbackDesk' = [feedbackDesk EXCEPT ![a] = [pc |-> "write", ticket |-> i, seen |-> feedbackTickets[i].status,
                                            to |-> to, resolution |-> resolution]]
    BY DEF ComplaintDesk!ReadTicket
  <1>2. PICK to \in ComplaintDesk!COMPLAINT_TRANSITIONS[feedbackTickets[i].status] \cup {feedbackTickets[i].status} :
            /\ to = feedbackTickets[i].status => resolution # "none"
            /\ to = "RESOLVED" /\ to # feedbackTickets[i].status => ComplaintDesk!Resolvable(i, resolution)
            /\ feedbackDesk' = [feedbackDesk EXCEPT ![a] = [pc |-> "write", ticket |-> i, seen |-> feedbackTickets[i].status,
                                            to |-> to, resolution |-> resolution]]
    BY <1>1
  <1>3. UNCHANGED <<feedbackTickets, filer, shown, feedbackCrossed>>
    BY DEF ComplaintDesk!ReadTicket
  <1>4. feedbackTickets[i].status \in ComplaintDesk!Statuses /\ i \in Nat /\
        feedbackDesk \in [ComplaintAdmins -> DeskWork]
    <2>1. feedbackTickets \in Seq(ComplaintDesk!SupportTicket) /\
          feedbackDesk \in [ComplaintAdmins -> DeskWork]
      BY DEF TicketInv, TicketTypes
    <2>2. feedbackTickets[i] \in ComplaintDesk!SupportTicket /\ i \in Nat
      BY <2>1
    <2> QED BY <2>1, <2>2 DEF ComplaintDesk!SupportTicket
  <1>5. to \in ComplaintDesk!Statuses
    BY <1>4 DEF ComplaintDesk!Statuses, ComplaintDesk!COMPLAINT_TRANSITIONS
  <1>6. TicketTypes'
    <2>1. feedbackDesk' \in [ComplaintAdmins -> DeskWork]
      BY <1>2, <1>4, <1>5 DEF DeskWork
    <2> QED BY <1>3, <2>1 DEF TicketInv, TicketTypes
  <1>7. UpdatesAreJudged'
    <2>1. \A b \in ComplaintAdmins \ {a} : feedbackDesk'[b] = feedbackDesk[b]
      BY <1>2, <1>4
    <2>2. feedbackDesk'[a] = [pc |-> "write", ticket |-> i, seen |-> feedbackTickets[i].status,
                      to |-> to, resolution |-> resolution]
      BY <1>2, <1>4
    <2>3. to = "RESOLVED" => resolution # "none" \/ feedbackTickets[i].resolution # "none"
      BY <1>2 DEF ComplaintDesk!Resolvable
    <2> QED BY <1>2, <1>3, <2>1, <2>2, <2>3 DEF TicketInv, UpdatesAreJudged
  <1>8. ComplaintDesk!TimelineIsThePath' /\ ComplaintDesk!ResolvedIsExplained' /\ OneFresh'
    BY <1>3 DEF TicketInv, ComplaintDesk!TimelineIsThePath, ComplaintDesk!ResolvedIsExplained,
                OneFresh, FreshTickets, ComplaintDesk!OpenTickets,
                ComplaintDesk!Reopened, Filing
  <1> QED BY <1>6, <1>7, <1>8 DEF TicketInv

LEMMA WriteKeeps ==
  ASSUME TicketInv, NEW a \in ComplaintAdmins, ComplaintDesk!WriteTicket(a)
  PROVE  TicketInv'
  <1> DEFINE d == feedbackDesk[a]
             k == d.ticket
             t == feedbackTickets[k]
             new == [status |-> d.to,
                     resolution |-> IF d.resolution = "none" THEN t.resolution ELSE d.resolution,
                     assigned |-> IF d.to = d.seen THEN t.assigned ELSE a,
                     history |-> IF d.to = d.seen THEN t.history ELSE Append(t.history, d.to)]
  <1>0. /\ d.pc = "write" /\ feedbackDesk' = [feedbackDesk EXCEPT ![a] = ComplaintDesk!Away] /\
           UNCHANGED <<filer, feedbackCrossed>>
        /\ feedbackDesk \in [ComplaintAdmins -> DeskWork] /\ d \in DeskWork
    BY DEF ComplaintDesk!WriteTicket, TicketInv, TicketTypes
  <1>1. /\ k \in DOMAIN feedbackTickets /\
           d.to \in ComplaintDesk!COMPLAINT_TRANSITIONS[d.seen] \cup {d.seen}
        /\ d.to = d.seen => d.resolution # "none"
        /\ d.to = "RESOLVED" => d.resolution # "none" \/ t.resolution # "none"
    BY <1>0 DEF TicketInv, UpdatesAreJudged
  <1>2. /\ feedbackTickets \in Seq(ComplaintDesk!SupportTicket) /\ t \in ComplaintDesk!SupportTicket /\
           t.history # <<>>
        /\ t.history \in Seq(ComplaintDesk!Statuses) /\ t.status \in ComplaintDesk!Statuses
        /\ \A i \in DOMAIN feedbackTickets : feedbackTickets[i].history \in Seq(ComplaintDesk!Statuses) /\
           feedbackTickets[i].history # <<>>
    <2>1. feedbackTickets \in Seq(ComplaintDesk!SupportTicket) /\
          \A i \in DOMAIN feedbackTickets : feedbackTickets[i].history # <<>>
      BY DEF TicketInv, TicketTypes
    <2>2. \A i \in DOMAIN feedbackTickets : feedbackTickets[i] \in ComplaintDesk!SupportTicket
      BY <2>1
    <2>3. \A i \in DOMAIN feedbackTickets : feedbackTickets[i].history \in Seq(ComplaintDesk!Statuses) /\
          feedbackTickets[i].status \in ComplaintDesk!Statuses
      BY <2>2 DEF ComplaintDesk!SupportTicket, ComplaintDesk!TicketHistoryEntry
    <2> QED BY <1>1, <2>1, <2>2, <2>3
  <1>3. /\ feedbackDesk' \in [ComplaintAdmins -> DeskWork] /\ feedbackDesk'[a].pc = "idle"
        /\ \A b \in ComplaintAdmins \ {a} : feedbackDesk'[b] = feedbackDesk[b]
    BY <1>0 DEF DeskWork, ComplaintDesk!Away, ComplaintDesk!Statuses,
                ComplaintDesk!COMPLAINT_TRANSITIONS
  <1>4. CASE UNCHANGED <<feedbackTickets, shown>>
    <2>1. TicketTypes' /\ UpdatesAreJudged'
      BY <1>0, <1>3, <1>4 DEF TicketInv, TicketTypes, UpdatesAreJudged
    <2>2. ComplaintDesk!TimelineIsThePath' /\ ComplaintDesk!ResolvedIsExplained' /\ OneFresh'
      BY <1>0, <1>4 DEF TicketInv, ComplaintDesk!TimelineIsThePath,
                        ComplaintDesk!ResolvedIsExplained, OneFresh, FreshTickets,
                        ComplaintDesk!OpenTickets, ComplaintDesk!Reopened, Filing
    <2> QED BY <2>1, <2>2 DEF TicketInv
  <1>5. CASE /\ t.status = d.seen /\ feedbackTickets' = [feedbackTickets EXCEPT ![k] = new]
             /\ shown' = shown \/ shown' = [shown EXCEPT ![k] = @ \cup {new.resolution}]
    <2>1. /\ new.status = d.to /\ new \in ComplaintDesk!SupportTicket
          /\ new.resolution = "none" => t.resolution = "none" /\ d.resolution = "none"
          /\ d.to = d.seen => new.history = t.history
          /\ d.to # d.seen => new.history = Append(t.history, d.to)
      BY <1>0, <1>2 DEF ComplaintDesk!SupportTicket, DeskWork, ComplaintDesk!TicketHistoryEntry
    <2>r. new.resolution \in {"none"} \cup ComplaintAdmins
      BY <2>1 DEF ComplaintDesk!SupportTicket
    <2>s. d.to \in ComplaintDesk!Statuses
      BY <1>0 DEF DeskWork
    <2> HIDE DEF new
    <2>2. /\ feedbackTickets' \in Seq(ComplaintDesk!SupportTicket) /\
             DOMAIN feedbackTickets' = DOMAIN feedbackTickets /\ feedbackTickets'[k] = new
          /\ Len(feedbackTickets') = Len(feedbackTickets) /\
             \A i \in DOMAIN feedbackTickets \ {k} : feedbackTickets'[i] = feedbackTickets[i]
      BY <1>1, <1>2, <1>5, <2>1
    <2> HIDE DEF d, k, t
    <2>3. TicketTypes'
      <3>1. new.history # <<>>
        BY <1>2, <2>1, <2>s
      <3>2. shown' \in Seq(SUBSET ({"none"} \cup ComplaintAdmins)) /\ Len(shown') = Len(shown)
        BY <1>1, <1>5, <2>r DEF TicketInv, TicketTypes
      <3> QED BY <1>0, <1>3, <2>2, <3>1, <3>2 DEF TicketInv, TicketTypes
    <2>4. UpdatesAreJudged'
      BY <1>3, <2>1, <2>2 DEF TicketInv, UpdatesAreJudged, t
    <2>5. ComplaintDesk!TimelineIsThePath'
      <3>1. t.history[Len(t.history)] = t.status
            /\ \A n \in 1..(Len(t.history) - 1) : t.history[n + 1] \in ComplaintDesk!COMPLAINT_TRANSITIONS[t.history[n]]
        BY <1>1 DEF TicketInv, ComplaintDesk!TimelineIsThePath, t
      <3>2. new.history[Len(new.history)] = new.status
            /\ \A n \in 1..(Len(new.history) - 1) :
                 new.history[n + 1] \in ComplaintDesk!COMPLAINT_TRANSITIONS[new.history[n]]
        <4>1. CASE d.to = d.seen
          BY <1>5, <2>1, <3>1, <4>1
        <4>2. CASE d.to # d.seen
          <5>1. d.to \in ComplaintDesk!COMPLAINT_TRANSITIONS[t.status]
            BY <1>1, <1>5, <4>2
          <5>2. /\ Len(new.history) = Len(t.history) + 1 /\ new.history[Len(t.history) + 1] = d.to
                /\ \A n \in 1..Len(t.history) : new.history[n] = t.history[n]
                /\ Len(t.history) \in Nat \ {0}
            BY <1>2, <2>1, <2>s, <4>2
          <5> SUFFICES ASSUME NEW n \in 1..(Len(new.history) - 1)
                       PROVE  new.history[n + 1] \in ComplaintDesk!COMPLAINT_TRANSITIONS[new.history[n]]
            BY <2>1, <5>2
          <5>3. CASE n = Len(t.history)
            BY <3>1, <5>1, <5>2, <5>3
          <5>4. CASE n # Len(t.history)
            <6>1. n \in 1..(Len(t.history) - 1) /\ n \in 1..Len(t.history) /\ n + 1 \in 1..Len(t.history)
              BY <5>2, <5>4
            <6> QED BY <3>1, <5>2, <6>1
          <5> QED BY <5>3, <5>4
        <4> QED BY <4>1, <4>2
      <3> QED BY <2>2, <3>2 DEF TicketInv, ComplaintDesk!TimelineIsThePath
    <2>6. ComplaintDesk!ResolvedIsExplained'
      BY <1>1, <2>1, <2>2 DEF TicketInv, ComplaintDesk!ResolvedIsExplained
    <2>7. OneFresh'
      <3>1. \A i \in DOMAIN feedbackTickets \ {k} : i \in FreshTickets' => i \in FreshTickets
        BY <2>2 DEF FreshTickets, ComplaintDesk!OpenTickets, ComplaintDesk!Reopened
      <3>2. k \in FreshTickets' => k \in FreshTickets
        <4> SUFFICES ASSUME k \in FreshTickets' PROVE k \in FreshTickets
          OBVIOUS
        <4>1. d.to \in ComplaintDesk!OPEN_COMPLAINT_STATUSES /\
              ~\E n \in DOMAIN new.history : new.history[n] = "RESOLVED"
          BY <2>1, <2>2 DEF FreshTickets, ComplaintDesk!OpenTickets, ComplaintDesk!Reopened
        <4>2. ~\E n \in DOMAIN t.history : t.history[n] = "RESOLVED"
          <5>1. /\ DOMAIN t.history \subseteq DOMAIN new.history
                /\ \A n \in DOMAIN t.history : new.history[n] = t.history[n]
            <6>1. CASE d.to = d.seen
              BY <2>1, <6>1
            <6>2. CASE d.to # d.seen
              BY <1>2, <2>1, <2>s, <6>2
            <6> QED BY <6>1, <6>2
          <5> QED BY <4>1, <5>1
        <4>3. t.status # "RESOLVED"
          <5>1. t.history[Len(t.history)] = t.status /\ Len(t.history) \in DOMAIN t.history
            BY <1>1, <1>2 DEF TicketInv, ComplaintDesk!TimelineIsThePath, t
          <5> QED BY <4>2, <5>1
        <4>4. t.status # "CLOSED"
          BY <1>1, <1>5, <4>1 DEF ComplaintDesk!COMPLAINT_TRANSITIONS,
                                  ComplaintDesk!OPEN_COMPLAINT_STATUSES
        <4> QED BY <1>1, <1>2, <4>2, <4>3, <4>4
                DEF FreshTickets, ComplaintDesk!OpenTickets, ComplaintDesk!Reopened,
                    ComplaintDesk!OPEN_COMPLAINT_STATUSES, ComplaintDesk!Statuses,
                    ComplaintDesk!COMPLAINT_TRANSITIONS, t
      <3>3. FreshTickets' \subseteq FreshTickets
        BY <2>2, <3>1, <3>2 DEF FreshTickets, ComplaintDesk!OpenTickets
      <3> QED BY <1>0, <3>3 DEF TicketInv, OneFresh, Filing
    <2> QED BY <2>3, <2>4, <2>5, <2>6, <2>7 DEF TicketInv
  <1> QED BY <1>4, <1>5 DEF ComplaintDesk!WriteTicket, ComplaintDesk!Unmoved

LEMMA TicketStep ==
  ASSUME TicketInv, [ComplaintDesk!ComplaintNext]_(ComplaintDesk!complaintVars)
  PROVE  TicketInv'
  <1>1. CASE UNCHANGED ComplaintDesk!complaintVars
    BY <1>1 DEF ComplaintDesk!complaintVars, TicketInv, TicketTypes, UpdatesAreJudged,
                ComplaintDesk!TimelineIsThePath,
                ComplaintDesk!ResolvedIsExplained, OneFresh, FreshTickets,
                ComplaintDesk!OpenTickets, ComplaintDesk!Reopened, Filing
  <1> QED BY <1>1, FileKeeps, CreateTicketKeeps, ReadKeeps, WriteKeeps DEF ComplaintDesk!ComplaintNext

LEMMA TicketShows == TicketInv => ComplaintDesk!TimelineIsThePath /\ ComplaintDesk!ResolvedIsExplained /\
      ComplaintDesk!OneOpenTicket
  <1> SUFFICES ASSUME TicketInv, ~feedbackCrossed
               PROVE  Cardinality(FreshTickets) <= 1
    BY TicketsAreCounted DEF TicketInv, ComplaintDesk!OneOpenTicket, FreshTickets
  <1>1. FreshTickets = {} \/ \E i : FreshTickets = {i}
    <2>1. \A i, j \in FreshTickets : i = j
      BY DEF TicketInv, OneFresh
    <2>2. ASSUME NEW i \in FreshTickets PROVE FreshTickets = {i}
      BY <2>1
    <2> QED BY <2>2
  <1>2. Cardinality(FreshTickets) = 0 \/ Cardinality(FreshTickets) = 1
    BY Zenon, <1>1, FS_EmptySet, FS_Singleton
  <1> QED BY <1>2

-----------------------------------------------------------------------------
(* SOS incidents.  An incident is closed once and for all, only the last one can be open, and who
   is sent an alert had not been reached before the round that sends it. *)

SosDesk == INSTANCE Sos WITH
  Presses <- SosPresses, Contacts <- SosContacts, SafetyTeam <- SosTeam,
    UpdateMax <- SosUpdateMax, MaxRecorded <- SosMaxRecorded, MaxIncidents <- SosMaxIncidents,
    MaxRounds <- SosMaxRounds, MaxCrashes <- SosMaxCrashes

\* The contacts are finitely many, and the log keeps a number of entries.
ContactsAreFew == IsFiniteSet(SosContacts) /\ SosMaxRecorded \in Nat

ASSUME SosIsBounded == ContactsAreFew

LEMMA SosCounts == ASSUME NEW S PROVE SosDesk!Cardinality(S) = Cardinality(S)
  BY DEF SosDesk!Cardinality, Cardinality

-----------------------------------------------------------------------------
SosStatuses == {"TRIGGERED", "ACKNOWLEDGED", "IN_PROGRESS", "RESOLVED", "CANCELLED"}
SosTarget == [to : SosContacts, kind : {"ALERT", "UPDATE"}]
SosLink == [id : Nat, incident : Nat, active : BOOLEAN, late : BOOLEAN]
SosJob == [incident : Nat, force : BOOLEAN]
SosRound ==
  [pc : {"idle", "link", "keep", "send", "log"}, targets : SUBSET SosTarget, link : Nat,
   entries : Seq(SosDesk!SosContactAlert)]
SosDeskWork == [pc : {"idle", "write", "revoke"}, incident : Nat, seen : SosStatuses, to : SosStatuses]

SosTypes ==
  /\ incidents \in Seq(SosDesk!SosEvent)
  /\ \A i \in DOMAIN incidents : Len(incidents[i].log) <= SosMaxRecorded
  /\ links \subseteq SosLink /\ IsFiniteSet(links) /\ \A l \in links : l.incident \in DOMAIN incidents
  /\ press \in [SosPresses -> {"idle", "create", "again"}]
  /\ desk \in [SosTeam -> SosDeskWork]
  /\ queue \in Seq(SosJob) /\ \A n \in DOMAIN queue : queue[n].incident \in DOMAIN incidents
  /\ round \in SosRound /\ (round.pc # "idle" => queue # <<>>)
  /\ confirmed \in [SosContacts -> Nat] /\ forgot \in Nat /\ crashes \in Nat

LEMMA TransitionsAreOfOpen ==
  /\ DOMAIN SosDesk!SOS_TRANSITIONS = SosStatuses
  /\ \A s \in SosStatuses : \A to \in SosDesk!SOS_TRANSITIONS[s] : s \in SosDesk!OPEN_SOS_STATUSES /\
     to \in SosStatuses
  BY DEF SosDesk!SOS_TRANSITIONS, SosStatuses, SosDesk!OPEN_SOS_STATUSES

\* A finite set can be listed, and its list has all of it.
LEMMA ListsAreComplete ==
  ASSUME NEW S, IsFiniteSet(S)
  PROVE  /\ SosDesk!SetToSeq(S) \in Seq(S)
         /\ \A x \in S : \E n \in DOMAIN SosDesk!SetToSeq(S) : SosDesk!SetToSeq(S)[n] = x
  <1> DEFINE n == Cardinality(S)
             f == SosDesk!SetToSeq(S)
  <1>1. n \in Nat /\ ExistsBijection(1..n, S)
    BY FS_CardinalityType
  <1>2. \E g \in [1..n -> S] : IsInjective(g)
    BY <1>1 DEF ExistsBijection, Bijection, Injection
  <1>3. f \in [1..n -> S] /\ IsInjective(f)
    <2>1. f = CHOOSE g \in [1..n -> S] : IsInjective(g)
      BY SosCounts DEF SosDesk!SetToSeq, SosDesk!IsInjective, IsInjective
    <2> HIDE DEF f
    <2> QED BY <1>2, <2>1
  <1> HIDE DEF f, n
  <1>4. f \in Injection(1..n, S)
    BY <1>3 DEF Injection
  <1>5. IsFiniteSet(1..n) /\ Cardinality(1..n) = n
    BY <1>1, FS_Interval
  <1>6. f \in Surjection(1..n, S)
    BY <1>4, <1>5, FS_Injection DEF n
  <1>7. \A x \in S : \E k \in 1..n : f[k] = x
    BY <1>6 DEF Surjection
  <1> QED BY <1>1, <1>3, <1>7 DEF f

\* What is sent to, and what is noted of it, is finite.
LEMMA TargetsAreFinite == ContactsAreFew => IsFiniteSet(SosTarget)
  <1> SUFFICES ASSUME ContactsAreFew PROVE IsFiniteSet(SosTarget)
    OBVIOUS
  <1>1. ASSUME NEW k \in {"ALERT", "UPDATE"} PROVE IsFiniteSet({[to |-> c, kind |-> k] : c \in SosContacts})
    <2> DEFINE f == [c \in SosContacts |-> [to |-> c, kind |-> k]]
               T == {[to |-> c, kind |-> k] : c \in SosContacts}
    <2>1. f \in Surjection(SosContacts, T)
      BY DEF Surjection
    <2> HIDE DEF f, T
    <2>2. IsFiniteSet(T)
      BY <2>1, FS_Surjection DEF ContactsAreFew
    <2> QED BY <2>2 DEF T
  <1>2. SosTarget = {[to |-> c, kind |-> "ALERT"] : c \in SosContacts} \cup {[to |-> c, kind |-> "UPDATE"] : c \in SosContacts}
    <2>1. \A t \in SosTarget : t.to \in SosContacts /\ t.kind \in {"ALERT", "UPDATE"} /\
          t = [to |-> t.to, kind |-> t.kind]
      BY DEF SosTarget
    <2>2. \A c \in SosContacts, k \in {"ALERT", "UPDATE"} : [to |-> c, kind |-> k] \in SosTarget
      BY DEF SosTarget
    <2>3. \A c \in SosContacts : [to |-> c, kind |-> "ALERT"] \in SosTarget /\
          [to |-> c, kind |-> "UPDATE"] \in SosTarget
      BY <2>2
    <2>4. \A t \in SosTarget : \E c \in SosContacts : t = [to |-> c, kind |-> "ALERT"] \/
          t = [to |-> c, kind |-> "UPDATE"]
      BY <2>1
    <2> QED BY <2>3, <2>4
  <1> QED BY <1>1, <1>2, FS_Union

Noted(targets, reached) == {[to |-> t.to, kind |-> t.kind, sent |-> t \in reached] : t \in targets}

LEMMA NotesAreWhole ==
  ASSUME ContactsAreFew, NEW targets \in SUBSET SosTarget, NEW reached \in SUBSET targets
  PROVE  /\ SosDesk!SetToSeq(Noted(targets, reached)) \in Seq(SosDesk!SosContactAlert)
         /\ \A c \in SosContacts : [to |-> c, kind |-> "ALERT"] \in reached =>
              \E n \in DOMAIN SosDesk!SetToSeq(Noted(targets, reached)) :
                SosDesk!SetToSeq(Noted(targets, reached))[n] = [to |-> c, kind |-> "ALERT", sent |-> TRUE]
  <1> DEFINE N == Noted(targets, reached)
             f == [t \in targets |-> [to |-> t.to, kind |-> t.kind, sent |-> t \in reached]]
  <1>1. IsFiniteSet(targets)
    BY TargetsAreFinite, FS_Subset
  <1>2. f \in Surjection(targets, N)
    BY DEF Surjection, Noted
  <1>3. N \subseteq SosDesk!SosContactAlert
    <2>1. \A t \in targets : t.to \in SosContacts /\ t.kind \in {"ALERT", "UPDATE"}
      BY DEF SosTarget
    <2>2. \A t \in targets : (t \in reached) \in BOOLEAN
      OBVIOUS
    <2>3. ASSUME NEW t \in targets, NEW b \in BOOLEAN
          PROVE  [to |-> t.to, kind |-> t.kind, sent |-> b] \in SosDesk!SosContactAlert
      BY <2>1 DEF SosDesk!SosContactAlert
    <2> QED BY <2>2, <2>3, Zenon DEF Noted
  <1>4. ASSUME NEW c \in SosContacts, [to |-> c, kind |-> "ALERT"] \in reached
        PROVE  [to |-> c, kind |-> "ALERT", sent |-> TRUE] \in N
    <2> DEFINE t == [to |-> c, kind |-> "ALERT"]
    <2>1. t \in targets /\ t.to = c /\ t.kind = "ALERT" /\ (t \in reached) = TRUE
      BY <1>4
    <2>2. [to |-> t.to, kind |-> t.kind, sent |-> t \in reached] \in N
      BY <2>1, Zenon DEF Noted
    <2> HIDE DEF t, N
    <2> QED BY <2>1, <2>2
  <1> HIDE DEF f, N
  <1>5. IsFiniteSet(N)
    BY <1>1, <1>2, FS_Surjection
  <1>6. SosDesk!SetToSeq(N) \in Seq(SosDesk!SosContactAlert)
    BY <1>3, <1>5, ListsAreComplete
  <1> QED BY <1>4, <1>5, <1>6, ListsAreComplete DEF N

LEMMA SosTypesBegin == ContactsAreFew /\ SosDesk!Init => SosTypes
  <1> SUFFICES ASSUME ContactsAreFew, SosDesk!Init PROVE SosTypes
    OBVIOUS
  <1>1. incidents = <<>> /\ queue = <<>> /\ DOMAIN incidents = {} /\ DOMAIN queue = {}
        /\ incidents \in Seq(SosDesk!SosEvent) /\ queue \in Seq(SosJob)
    BY DEF SosDesk!Init
  <1>2. SosDesk!NoRound \in SosRound /\ SosDesk!NoRound.pc = "idle"
    BY DEF SosDesk!NoRound, SosRound
  <1>3. SosDesk!Away \in SosDeskWork
    BY DEF SosDesk!Away, SosDesk!AtDesk, SosDeskWork, SosStatuses
  <1>4. IsFiniteSet({})
    BY FS_EmptySet
  <1> QED BY <1>1, <1>2, <1>3, <1>4 DEF SosDesk!Init, SosTypes

\* One incident is rewritten.
LEMMA OneIncident ==
  ASSUME incidents \in Seq(SosDesk!SosEvent), NEW i \in DOMAIN incidents, NEW e \in SosDesk!SosEvent,
         incidents' = [incidents EXCEPT ![i] = e]
  PROVE  /\ incidents' \in Seq(SosDesk!SosEvent) /\ Len(incidents') = Len(incidents)
         /\ DOMAIN incidents' = DOMAIN incidents
         /\ incidents'[i] = e /\ \A j \in DOMAIN incidents : j # i => incidents'[j] = incidents[j]
  OBVIOUS

\* The job at the head is about an incident, and so are the others.
LEMMA HeadIsAJob ==
  ASSUME SosTypes, queue # <<>>
  PROVE  /\ Head(queue) \in SosJob /\ Head(queue).incident \in DOMAIN incidents
         /\ Tail(queue) \in Seq(SosJob)
         /\ \A n \in DOMAIN Tail(queue) : Tail(queue)[n].incident \in DOMAIN incidents
  <1>1. queue \in Seq(SosJob) /\ 1 \in DOMAIN queue /\ Head(queue) = queue[1]
    BY DEF SosTypes
  <1>2. Tail(queue) \in Seq(SosJob) /\ \A n \in DOMAIN Tail(queue) : n + 1 \in DOMAIN queue /\
        Tail(queue)[n] = queue[n + 1]
    BY <1>1
  <1>3. \A n \in DOMAIN queue : queue[n].incident \in DOMAIN incidents
    BY DEF SosTypes
  <1> QED BY <1>1, <1>2, <1>3

\* A job more leaves the one at the head.
LEMMA JobsQueueUp ==
  ASSUME SosTypes, NEW i \in Nat, NEW force \in BOOLEAN, SosDesk!Dispatch(i, force)
  PROVE  /\ queue' \in Seq(SosJob) /\ queue' # <<>>
         /\ \A n \in DOMAIN queue' : queue'[n].incident = i \/ queue'[n].incident \in DOMAIN incidents
         /\ queue # <<>> => Head(queue') = Head(queue)
  <1> DEFINE job == [incident |-> i, force |-> force]
  <1>1. job \in SosJob /\ job.incident = i
    BY DEF SosJob
  <1>2. queue' = Append(queue, job) /\ queue \in Seq(SosJob) /\
        \A n \in DOMAIN queue : queue[n].incident \in DOMAIN incidents
    BY DEF SosDesk!Dispatch, SosTypes
  <1> HIDE DEF job
  <1> QED BY <1>1, <1>2

LEMMA IncidentsAreEvents ==
  ASSUME SosTypes, NEW i \in DOMAIN incidents
  PROVE  /\ i \in 1..Len(incidents) /\ i \in Nat /\ incidents[i] \in SosDesk!SosEvent /\
            incidents[i].status \in SosStatuses
         /\ incidents[i].log \in Seq(SosDesk!SosContactAlert) /\ incidents[i].token \in Nat
         /\ Len(incidents[i].log) <= SosMaxRecorded
  <1>1. i \in 1..Len(incidents) /\ incidents[i] \in SosDesk!SosEvent /\
        Len(incidents[i].log) <= SosMaxRecorded
    BY DEF SosTypes
  <1>2. incidents[i].status \in SosStatuses
    BY <1>1, TransitionsAreOfOpen DEF SosDesk!SosEvent
  <1> QED BY <1>1, <1>2 DEF SosDesk!SosEvent

\* A log is cut at its old end.
LEMMA LogsAreCut ==
  ASSUME ContactsAreFew, NEW all \in Seq(SosDesk!SosContactAlert)
  PROVE  LET cut == SubSeq(all, SosDesk!Over(all) + 1, Len(all)) IN
         /\ SosDesk!Over(all) \in Nat /\ SosDesk!Over(all) <= Len(all)
         /\ cut \in Seq(SosDesk!SosContactAlert) /\ Len(cut) <= SosMaxRecorded
         /\ \A n \in DOMAIN all : n > SosDesk!Over(all) => n - SosDesk!Over(all) \in DOMAIN cut /\
            cut[n - SosDesk!Over(all)] = all[n]
  <1> DEFINE k == SosDesk!Over(all)
             cut == SubSeq(all, k + 1, Len(all))
  <1>1. k \in Nat /\ k <= Len(all) /\ Len(all) - k <= SosMaxRecorded /\ Len(all) \in Nat
    BY DEF SosDesk!Over, ContactsAreFew
  <1> HIDE DEF k
  <1>2. cut \in Seq(SosDesk!SosContactAlert) /\ Len(cut) = Len(all) - k
    BY <1>1
  <1>3. \A n \in DOMAIN all : n > k => n - k \in DOMAIN cut /\ cut[n - k] = all[n]
    BY <1>1, <1>2
  <1> QED BY <1>1, <1>2, <1>3 DEF k

LEMMA RestIsARound == SosDesk!NoRound \in SosRound /\ SosDesk!NoRound.pc = "idle"
  BY DEF SosDesk!NoRound, SosRound

LEMMA SosTypesStep == ASSUME ContactsAreFew, SosTypes, [SosDesk!Next]_(SosDesk!sosVars) PROVE SosTypes'
  <1> USE ContactsAreFew
  <1>1. ASSUME NEW p \in SosPresses, SosDesk!Press(p) PROVE SosTypes'
    <2>1. UNCHANGED <<incidents, links, desk, round, recent, confirmed, forgot, revoked, crashes>>
          /\ press' \in [SosPresses -> {"idle", "create", "again"}]
      BY <1>1 DEF SosDesk!Press, SosTypes
    <2>2. CASE SosDesk!Open = {}
      BY <1>1, <2>1, <2>2 DEF SosDesk!Press, SosTypes
    <2>3. CASE SosDesk!Open # {}
      <3>1. PICK i \in SosDesk!Open : SosDesk!Dispatch(i, FALSE)
        BY <1>1, <2>3 DEF SosDesk!Press
      <3>2. i \in DOMAIN incidents /\ i \in Nat
        BY IncidentsAreEvents DEF SosDesk!Open
      <3>3. queue' \in Seq(SosJob) /\ queue' # <<>> /\
            \A n \in DOMAIN queue' : queue'[n].incident \in DOMAIN incidents
        BY <3>1, <3>2, JobsQueueUp
      <3> QED BY <2>1, <3>3 DEF SosTypes
    <2> QED BY <2>2, <2>3
  <1>2. ASSUME NEW p \in SosPresses, SosDesk!CreateSos(p) PROVE SosTypes'
    <2>1. UNCHANGED <<links, desk, round, revoked, crashes>> /\
          press' \in [SosPresses -> {"idle", "create", "again"}]
      BY <1>2 DEF SosDesk!CreateSos, SosTypes
    <2>2. CASE ~SosDesk!Creatable
      BY <1>2, <2>1, <2>2 DEF SosDesk!CreateSos, SosTypes
    <2>3. CASE SosDesk!Creatable
      <3> DEFINE e == [status |-> "TRIGGERED", log |-> <<>>, token |-> 0]
      <3>1. incidents' = Append(incidents, e) /\ SosDesk!Dispatch(Len(incidents) + 1, FALSE) /\ forgot' = 0
            /\ confirmed' = [c \in SosContacts |-> 0]
        BY <1>2, <2>3 DEF SosDesk!CreateSos
      <3>2. e \in SosDesk!SosEvent /\ Len(e.log) = 0
        BY TransitionsAreOfOpen DEF SosDesk!SosEvent, SosStatuses
      <3>3. incidents \in Seq(SosDesk!SosEvent) /\
            \A i \in DOMAIN incidents : Len(incidents[i].log) <= SosMaxRecorded
        BY DEF SosTypes
      <3> HIDE DEF e
      <3>4. /\ incidents' \in Seq(SosDesk!SosEvent) /\
               DOMAIN incidents' = DOMAIN incidents \cup {Len(incidents) + 1}
            /\ incidents'[Len(incidents) + 1] = e /\
               \A i \in DOMAIN incidents : incidents'[i] = incidents[i]
        BY <3>1, <3>2, <3>3
      <3>5. \A i \in DOMAIN incidents' : Len(incidents'[i].log) <= SosMaxRecorded
        BY <3>2, <3>3, <3>4 DEF ContactsAreFew
      <3>6. queue' \in Seq(SosJob) /\ queue' # <<>> /\
            \A n \in DOMAIN queue' : queue'[n].incident \in DOMAIN incidents'
        <4>1. Len(incidents) + 1 \in Nat
          BY <3>3
        <4>2. /\ queue' \in Seq(SosJob) /\ queue' # <<>>
              /\ \A n \in DOMAIN queue' :
                   queue'[n].incident = Len(incidents) + 1 \/ queue'[n].incident \in DOMAIN incidents
          BY <3>1, <4>1, JobsQueueUp
        <4>3. \A x : x = Len(incidents) + 1 \/ x \in DOMAIN incidents => x \in DOMAIN incidents'
          BY <3>4
        <4> QED BY <4>2, <4>3
      <3>7. confirmed' \in [SosContacts -> Nat] /\ forgot' \in Nat
        BY <3>1
      <3> QED BY <2>1, <3>4, <3>5, <3>6, <3>7 DEF SosTypes
    <2> QED BY <2>2, <2>3
  <1>3. ASSUME NEW a \in SosTeam, SosDesk!DeskRead(a) PROVE SosTypes'
    <2>1. PICK i \in DOMAIN incidents : \E to \in SosDesk!SOS_TRANSITIONS[incidents[i].status] :
            desk' = [desk EXCEPT ![a] = SosDesk!AtDesk("write", i, incidents[i].status, to)]
      BY <1>3 DEF SosDesk!DeskRead
    <2>2. PICK to \in SosDesk!SOS_TRANSITIONS[incidents[i].status] :
            desk' = [desk EXCEPT ![a] = SosDesk!AtDesk("write", i, incidents[i].status, to)]
      BY <2>1
    <2>3. SosDesk!AtDesk("write", i, incidents[i].status, to) \in SosDeskWork
      BY IncidentsAreEvents, TransitionsAreOfOpen DEF SosDesk!AtDesk, SosDeskWork
    <2>4. desk' \in [SosTeam -> SosDeskWork]
      BY <2>2, <2>3 DEF SosTypes
    <2> QED BY <1>3, <2>4 DEF SosDesk!DeskRead, SosTypes
  <1>4. ASSUME NEW a \in SosTeam, SosDesk!DeskWrite(a) PROVE SosTypes'
    <2>1. UNCHANGED <<links, press, queue, round, confirmed, forgot, crashes>>
      BY <1>4 DEF SosDesk!DeskWrite
    <2>2. desk[a] \in SosDeskWork /\ SosDesk!Away \in SosDeskWork /\
          [desk[a] EXCEPT !.pc = "revoke"] \in SosDeskWork
      BY DEF SosTypes, SosDeskWork, SosDesk!Away, SosDesk!AtDesk, SosStatuses
    <2>3. desk' \in [SosTeam -> SosDeskWork]
      BY <1>4, <2>2 DEF SosDesk!DeskWrite, SosTypes
    <2>4. CASE ~SosDesk!Unmoved(a)
      BY <1>4, <2>1, <2>3, <2>4 DEF SosDesk!DeskWrite, SosTypes
    <2>5. CASE SosDesk!Unmoved(a)
      <3> DEFINE i == desk[a].incident
                 e == [incidents[i] EXCEPT !.status = desk[a].to]
      <3>1. incidents' = [incidents EXCEPT ![i].status = desk[a].to]
        BY <1>4, <2>5 DEF SosDesk!DeskWrite
      <3>2. incidents \in Seq(SosDesk!SosEvent)
        BY DEF SosTypes
      <3>3. CASE i \notin DOMAIN incidents
        <4>1. incidents' = incidents
          BY <3>1, <3>2, <3>3
        <4> QED BY <2>1, <2>3, <4>1 DEF SosTypes
      <3>4. CASE i \in DOMAIN incidents
        <4>1. e \in SosDesk!SosEvent /\ e.log = incidents[i].log
          BY <2>2, <3>4, IncidentsAreEvents, TransitionsAreOfOpen DEF SosDesk!SosEvent, SosDeskWork
        <4>2. incidents' = [incidents EXCEPT ![i] = e]
          BY <3>1
        <4> HIDE DEF e, i
        <4>3. /\ incidents' \in Seq(SosDesk!SosEvent) /\ DOMAIN incidents' = DOMAIN incidents
              /\ incidents'[i] = e /\ \A j \in DOMAIN incidents : j # i => incidents'[j] = incidents[j]
          BY <3>2, <3>4, <4>1, <4>2, OneIncident
        <4>4. \A j \in DOMAIN incidents' : Len(incidents'[j].log) <= SosMaxRecorded
          BY <4>1, <4>3, <3>4 DEF SosTypes
        <4> QED BY <2>1, <2>3, <4>3, <4>4 DEF SosTypes
      <3> QED BY <3>3, <3>4
    <2> QED BY <2>4, <2>5
  <1>5. ASSUME NEW a \in SosTeam, SosDesk!DeskRevoke(a) PROVE SosTypes'
    <2>1. UNCHANGED <<incidents, press, queue, round, confirmed, forgot, crashes>>
      BY <1>5 DEF SosDesk!DeskRevoke
    <2>2. SosDesk!Away \in SosDeskWork
      BY DEF SosDeskWork, SosDesk!Away, SosDesk!AtDesk, SosStatuses
    <2>3. desk' \in [SosTeam -> SosDeskWork]
      BY <1>5, <2>2 DEF SosDesk!DeskRevoke, SosTypes
    <2> DEFINE R == SosDesk!RevokeForSos(desk[a].incident)
               D == {[l EXCEPT !.active = FALSE] : l \in R}
    <2>4. R \subseteq links /\ links' = (links \ R) \cup D
      BY <1>5 DEF SosDesk!DeskRevoke, SosDesk!RevokeForSos
    <2>5. \A l \in D : l \in SosLink /\ l.incident \in DOMAIN incidents
      <3>1. ASSUME NEW l \in links
            PROVE  [l EXCEPT !.active = FALSE] \in SosLink /\
                   [l EXCEPT !.active = FALSE].incident = l.incident
        BY DEF SosTypes, SosLink
      <3>2. \A l \in links : l.incident \in DOMAIN incidents
        BY DEF SosTypes
      <3> QED BY <2>4, <3>1, <3>2
    <2>6. IsFiniteSet(D)
      <3> DEFINE f == [l \in R |-> [l EXCEPT !.active = FALSE]]
      <3>1. f \in Surjection(R, D)
        BY DEF Surjection
      <3>2. IsFiniteSet(R)
        BY <2>4, FS_Subset DEF SosTypes
      <3> HIDE DEF f, R, D
      <3> QED BY <3>1, <3>2, FS_Surjection
    <2> HIDE DEF R, D
    <2>7. IsFiniteSet(links \ R)
      BY FS_Difference DEF SosTypes
    <2>8. IsFiniteSet(links')
      BY <2>4, <2>6, <2>7, FS_Union
    <2>9. links' \subseteq SosLink /\ \A l \in links' : l.incident \in DOMAIN incidents
      BY <2>4, <2>5 DEF SosTypes
    <2> QED BY <2>1, <2>3, <2>8, <2>9 DEF SosTypes
  <1>6. ASSUME NEW a \in SosTeam, SosDesk!ResendContactAlerts(a) PROVE SosTypes'
    <2>1. UNCHANGED <<incidents, links, press, desk, round, confirmed, forgot, crashes>>
      BY <1>6 DEF SosDesk!ResendContactAlerts
    <2>2. PICK i \in SosDesk!Open : SosDesk!Dispatch(i, TRUE)
      BY <1>6 DEF SosDesk!ResendContactAlerts
    <2>3. i \in DOMAIN incidents /\ i \in Nat
      BY IncidentsAreEvents DEF SosDesk!Open
    <2>4. queue' \in Seq(SosJob) /\ queue' # <<>> /\
          \A n \in DOMAIN queue' : queue'[n].incident \in DOMAIN incidents
      BY <2>2, <2>3, JobsQueueUp
    <2> QED BY <2>1, <2>4 DEF SosTypes
  <1>7. CASE SosDesk!RoundReads
    <2>1. UNCHANGED <<incidents, links, press, desk, confirmed, forgot, crashes>> /\ queue # <<>>
      BY <1>7 DEF SosDesk!RoundReads
    <2> DEFINE i == Head(queue).incident
               due == SosDesk!Targets(i, Head(queue).force)
               going == [SosDesk!NoRound EXCEPT !.pc = IF incidents[i].token = 0 THEN "link" ELSE "send",
                                        !.targets = due, !.link = incidents[i].token]
    <2>2. SosDesk!RoundOver \/ (round' = going /\ queue' = queue)
      BY <1>7 DEF SosDesk!RoundReads
    <2>3. CASE SosDesk!RoundOver
      BY <2>1, <2>3, HeadIsAJob, RestIsARound DEF SosDesk!RoundOver, SosTypes
    <2>4. CASE round' = going /\ queue' = queue
      <3>1. due \in SUBSET SosTarget
        BY DEF SosDesk!Targets, SosTarget
      <3>2. incidents[i].token \in Nat
        BY <2>1, HeadIsAJob, IncidentsAreEvents
      <3> HIDE DEF i, due
      <3>3. going \in SosRound
        BY <3>1, <3>2, RestIsARound DEF SosRound, SosDesk!NoRound
      <3> QED BY <2>1, <2>4, <3>3 DEF SosTypes
    <2> QED BY <2>2, <2>3, <2>4
  <1>8. CASE SosDesk!RoundLinks
    <2>1. UNCHANGED <<incidents, press, desk, queue, confirmed, forgot, crashes>> /\ round.pc = "link"
      BY <1>8 DEF SosDesk!RoundLinks
    <2> DEFINE i == Head(queue).incident
               id == Cardinality(links) + 1
               l == [id |-> id, incident |-> i, active |-> TRUE, late |-> ~SosDesk!IsOpen(i)]
    <2>2. links' = links \cup {l} /\ round' = [round EXCEPT !.pc = "keep", !.link = id]
      BY <1>8, SosCounts DEF SosDesk!RoundLinks
    <2>3. queue # <<>> /\ i \in DOMAIN incidents /\ i \in Nat
      BY <2>1, HeadIsAJob, IncidentsAreEvents DEF SosTypes
    <2>4. id \in Nat
      BY FS_CardinalityType DEF SosTypes
    <2>5. (~SosDesk!IsOpen(i)) \in BOOLEAN
      BY DEF SosDesk!IsOpen
    <2> HIDE DEF i, id
    <2>6. l \in SosLink /\ l.incident = i
      BY <2>3, <2>4, <2>5 DEF SosLink
    <2> HIDE DEF l
    <2>7. links' \subseteq SosLink /\ \A k \in links' : k.incident \in DOMAIN incidents
      BY <2>2, <2>3, <2>6 DEF SosTypes
    <2>8. IsFiniteSet(links')
      BY <2>2, FS_AddElement DEF SosTypes
    <2>9. round' \in SosRound
      BY <2>2, <2>4 DEF SosTypes, SosRound
    <2> QED BY <2>1, <2>3, <2>7, <2>8, <2>9 DEF SosTypes
  <1>9. CASE SosDesk!RoundKeeps
    <2>1. UNCHANGED <<links, press, desk, queue, confirmed, forgot, crashes>> /\ round.pc = "keep"
          /\ round' = [round EXCEPT !.pc = "send"]
      BY <1>9 DEF SosDesk!RoundKeeps
    <2> DEFINE i == Head(queue).incident
               e == [incidents[i] EXCEPT !.token = IF @ = 0 THEN round.link ELSE @]
    <2>2. queue # <<>> /\ i \in DOMAIN incidents /\ incidents \in Seq(SosDesk!SosEvent)
      BY <2>1, HeadIsAJob DEF SosTypes
    <2>3. e \in SosDesk!SosEvent /\ e.log = incidents[i].log
      BY <2>2, IncidentsAreEvents DEF SosDesk!SosEvent, SosTypes, SosRound
    <2>4. incidents' = [incidents EXCEPT ![i] = e]
      BY <1>9 DEF SosDesk!RoundKeeps
    <2>5. round' \in SosRound
      BY <2>1 DEF SosTypes, SosRound
    <2> HIDE DEF e, i
    <2>6. /\ incidents' \in Seq(SosDesk!SosEvent) /\ DOMAIN incidents' = DOMAIN incidents
          /\ incidents'[i] = e /\ \A j \in DOMAIN incidents : j # i => incidents'[j] = incidents[j]
      BY <2>2, <2>3, <2>4, OneIncident
    <2>7. \A j \in DOMAIN incidents' : Len(incidents'[j].log) <= SosMaxRecorded
      BY <2>2, <2>3, <2>6 DEF SosTypes
    <2> QED BY <2>1, <2>2, <2>5, <2>6, <2>7 DEF SosTypes
  <1>10. CASE SosDesk!RoundSends
    <2>1. UNCHANGED <<incidents, links, press, desk, queue, forgot, crashes>> /\ round.pc = "send"
      BY <1>10 DEF SosDesk!RoundSends
    <2>2. PICK reached \in SUBSET round.targets :
            /\ round' = [round EXCEPT !.pc = "log", !.entries = SosDesk!SetToSeq(Noted(round.targets, reached))]
            /\ confirmed' = IF Head(queue).incident # Len(incidents) THEN confirmed
                 ELSE [c \in SosContacts |-> confirmed[c] +
                         IF [to |-> c, kind |-> "ALERT"] \in reached THEN 1 ELSE 0]
      BY <1>10 DEF SosDesk!RoundSends, Noted
    <2>3. round.targets \in SUBSET SosTarget
      BY DEF SosTypes, SosRound
    <2>4. SosDesk!SetToSeq(Noted(round.targets, reached)) \in Seq(SosDesk!SosContactAlert)
      BY <2>3, NotesAreWhole
    <2>5. round' \in SosRound
      BY <2>2, <2>4 DEF SosTypes, SosRound
    <2>6. confirmed' \in [SosContacts -> Nat]
      BY <2>2 DEF SosTypes
    <2> QED BY <2>1, <2>5, <2>6 DEF SosTypes
  <1>11. CASE SosDesk!RoundRecords
    <2>1. UNCHANGED <<links, press, desk, confirmed, crashes>> /\ round.pc = "log" /\ SosDesk!RoundOver
      BY <1>11 DEF SosDesk!RoundRecords
    <2> DEFINE i == Head(queue).incident
               all == incidents[i].log \o round.entries
               cut == SubSeq(all, SosDesk!Over(all) + 1, Len(all))
               e == [incidents[i] EXCEPT !.log = cut]
    <2>2. queue # <<>> /\ i \in DOMAIN incidents /\ incidents \in Seq(SosDesk!SosEvent)
      BY <2>1, HeadIsAJob DEF SosTypes
    <2>3. incidents' = [incidents EXCEPT ![i] = e]
          /\ forgot' = forgot + Cardinality({n \in 1..SosDesk!Over(all) : all[n].sent /\ all[n].kind = "ALERT"})
      BY <1>11, SosCounts DEF SosDesk!RoundRecords
    <2>4. incidents[i].log \in Seq(SosDesk!SosContactAlert) /\
          round.entries \in Seq(SosDesk!SosContactAlert)
      BY <2>2, IncidentsAreEvents DEF SosTypes, SosRound
    <2>5. all \in Seq(SosDesk!SosContactAlert)
      BY <2>4
    <2>6. SosDesk!Over(all) \in Nat /\ cut \in Seq(SosDesk!SosContactAlert) /\ Len(cut) <= SosMaxRecorded
      BY <2>5, LogsAreCut
    <2> DEFINE lost == {n \in 1..SosDesk!Over(all) : all[n].sent /\ all[n].kind = "ALERT"}
    <2>7. Cardinality(lost) \in Nat
      <3> HIDE DEF all
      <3>1. IsFiniteSet(1..SosDesk!Over(all))
        BY <2>6, FS_Interval
      <3>2. lost \subseteq 1..SosDesk!Over(all)
        OBVIOUS
      <3> QED BY <3>1, <3>2, FS_Subset, FS_CardinalityType
    <2>0. forgot' = forgot + Cardinality(lost)
      BY <2>3
    <2> HIDE DEF i, cut, all, lost
    <2>8. forgot' \in Nat
      BY <2>0, <2>7 DEF SosTypes
    <2>9. e \in SosDesk!SosEvent /\ e.log = cut
      BY <2>2, <2>6, IncidentsAreEvents DEF SosDesk!SosEvent
    <2> HIDE DEF e
    <2>10. /\ incidents' \in Seq(SosDesk!SosEvent) /\ DOMAIN incidents' = DOMAIN incidents
           /\ incidents'[i] = e /\ \A j \in DOMAIN incidents : j # i => incidents'[j] = incidents[j]
      BY <2>2, <2>3, <2>9, OneIncident
    <2>11. \A j \in DOMAIN incidents' : Len(incidents'[j].log) <= SosMaxRecorded
      BY <2>2, <2>6, <2>9, <2>10 DEF SosTypes
    <2> QED BY <2>1, <2>2, <2>8, <2>10, <2>11, HeadIsAJob, RestIsARound DEF SosTypes, SosDesk!RoundOver
  <1>12. CASE SosDesk!TimePasses
    BY <1>12 DEF SosDesk!TimePasses, SosTypes
  <1>13. CASE SosDesk!Crash
    <2>1. UNCHANGED <<incidents, links, confirmed, forgot>> /\ crashes' = crashes + 1
          /\ press' = [p \in SosPresses |-> "idle"] /\ desk' = [a \in SosTeam |-> SosDesk!Away]
          /\ queue' = <<>> /\ round' = SosDesk!NoRound
      BY <1>13 DEF SosDesk!Crash
    <2>2. SosDesk!Away \in SosDeskWork
      BY DEF SosDeskWork, SosDesk!Away, SosDesk!AtDesk, SosStatuses
    <2>3. queue' \in Seq(SosJob) /\ DOMAIN queue' = {}
      BY <2>1
    <2> QED BY <2>1, <2>2, <2>3, RestIsARound DEF SosTypes
  <1>14. CASE UNCHANGED SosDesk!sosVars
    BY <1>14 DEF SosDesk!sosVars, SosTypes
  <1> QED BY <1>1, <1>2, <1>3, <1>4, <1>5, <1>6, <1>7, <1>8, <1>9, <1>10, <1>11, <1>12, <1>13, <1>14 DEF SosDesk!Next

-----------------------------------------------------------------------------
\* What the safety team has read allows what it writes, and it revokes after it has closed.
DeskJudged ==
  \A a \in SosTeam :
    /\ desk[a].pc = "write" => desk[a].incident \in DOMAIN incidents /\
       desk[a].to \in SosDesk!SOS_TRANSITIONS[desk[a].seen]
    /\ desk[a].pc = "revoke" => desk[a].incident \in DOMAIN incidents /\ ~SosDesk!IsOpen(desk[a].incident)

\* Only the last incident can be open.
OpenIsLast == \A i \in SosDesk!Open : i = Len(incidents)

RevokedAreClosed == \A i \in revoked : i \in DOMAIN incidents /\ ~SosDesk!IsOpen(i)

\* Whoever is due an alert has not been told yet, and this round is the one that tells.
TargetsAreDue ==
  round.pc \in {"link", "keep", "send"} =>
    \A c \in SosContacts :
      [to |-> c, kind |-> "ALERT"] \in round.targets =>
        SosDesk!Sent(Head(queue).incident, c, "ALERT") = {}

Alert(c) == [to |-> c, kind |-> "ALERT", sent |-> TRUE]
\* The log of the last incident, or the round about to write it, says that the alert was accepted.
Logged(c) == \E n \in DOMAIN incidents[Len(incidents)].log : incidents[Len(incidents)].log[n] = Alert(c)
ToLog(c) ==
  /\ round.pc = "log" /\ Head(queue).incident = Len(incidents)
  /\ \E n \in DOMAIN round.entries : round.entries[n] = Alert(c)
Told(c) == incidents # <<>> /\ (Logged(c) \/ ToLog(c))
AlertsAreRecorded ==
  \A c \in SosContacts : confirmed[c] <= forgot + crashes + (IF Told(c) THEN 1 ELSE 0)

SosInv ==
  /\ SosTypes /\ DeskJudged /\ OpenIsLast /\ RevokedAreClosed /\ SosDesk!ClosedLinksAreDead
  /\ TargetsAreDue /\ AlertsAreRecorded

\* Who changes an incident.
LEMMA IncidentsAreWritten ==
  ASSUME [SosDesk!Next]_(SosDesk!sosVars)
  PROVE  \/ incidents' = incidents
         \/ SosDesk!Creatable /\ \E p \in SosPresses : SosDesk!CreateSos(p)
         \/ \E a \in SosTeam : SosDesk!DeskWrite(a) /\ SosDesk!Unmoved(a)
         \/ SosDesk!RoundKeeps
         \/ SosDesk!RoundRecords
  <1>1. ASSUME NEW p \in SosPresses, SosDesk!Press(p) PROVE incidents' = incidents
    BY <1>1 DEF SosDesk!Press
  <1>2. ASSUME NEW p \in SosPresses, SosDesk!CreateSos(p), ~SosDesk!Creatable PROVE incidents' = incidents
    BY <1>2 DEF SosDesk!CreateSos
  <1>3. ASSUME NEW a \in SosTeam, SosDesk!DeskRead(a) \/ SosDesk!DeskRevoke(a) \/ SosDesk!ResendContactAlerts(a)
        PROVE  incidents' = incidents
    BY <1>3 DEF SosDesk!DeskRead, SosDesk!DeskRevoke, SosDesk!ResendContactAlerts
  <1>4. ASSUME NEW a \in SosTeam, SosDesk!DeskWrite(a), ~SosDesk!Unmoved(a) PROVE incidents' = incidents
    BY <1>4 DEF SosDesk!DeskWrite
  <1>5. SosDesk!RoundReads \/ SosDesk!RoundLinks \/ SosDesk!RoundSends => incidents' = incidents
    BY DEF SosDesk!RoundReads, SosDesk!RoundLinks, SosDesk!RoundSends
  <1>6. SosDesk!TimePasses \/ SosDesk!Crash \/ UNCHANGED SosDesk!sosVars => incidents' = incidents
    BY DEF SosDesk!TimePasses, SosDesk!Crash, SosDesk!sosVars
  <1> QED BY <1>1, <1>2, <1>3, <1>4, <1>5, <1>6 DEF SosDesk!Next

\* What becomes of an incident in a step.
LEMMA IncidentsStep ==
  ASSUME SosTypes, DeskJudged, [SosDesk!Next]_(SosDesk!sosVars)
  PROVE  /\ \/ Len(incidents') = Len(incidents)
            \/ SosDesk!Open = {} /\ (\E p \in SosPresses : SosDesk!CreateSos(p)) /\
               Len(incidents') = Len(incidents) + 1
         /\ \A i \in DOMAIN incidents :
              /\ i \in DOMAIN incidents'
              /\ \/ incidents'[i].status = incidents[i].status
                 \/ incidents'[i].status \in SosDesk!SOS_TRANSITIONS[incidents[i].status]
              /\ ~SosDesk!RoundRecords => incidents'[i].log = incidents[i].log
  <1> DEFINE Kept ==
               /\ Len(incidents') = Len(incidents)
               /\ \A i \in DOMAIN incidents :
                    /\ i \in DOMAIN incidents'
                    /\ \/ incidents'[i].status = incidents[i].status
                       \/ incidents'[i].status \in SosDesk!SOS_TRANSITIONS[incidents[i].status]
                    /\ ~SosDesk!RoundRecords => incidents'[i].log = incidents[i].log
  <1>0. incidents \in Seq(SosDesk!SosEvent)
    BY DEF SosTypes
  <1>1. CASE incidents' = incidents
    BY <1>1
  <1>2. ASSUME SosDesk!Creatable, NEW p \in SosPresses, SosDesk!CreateSos(p)
        PROVE  /\ SosDesk!Open = {} /\ Len(incidents') = Len(incidents) + 1
               /\ \A i \in DOMAIN incidents : i \in DOMAIN incidents' /\ incidents'[i] = incidents[i]
    <2> DEFINE e == [status |-> "TRIGGERED", log |-> <<>>, token |-> 0]
    <2>1. incidents' = Append(incidents, e)
      BY <1>2 DEF SosDesk!CreateSos
    <2>2. SosDesk!Open = {}
      BY <1>2 DEF SosDesk!Creatable
    <2> HIDE DEF e
    <2> QED BY <1>0, <2>1, <2>2
  <1>3. ASSUME NEW a \in SosTeam, SosDesk!DeskWrite(a), SosDesk!Unmoved(a) PROVE Kept
    <2> DEFINE i == desk[a].incident
    <2>1. /\ i \in DOMAIN incidents /\ desk[a].to \in SosDesk!SOS_TRANSITIONS[desk[a].seen]
          /\ desk[a].seen = incidents[i].status
      BY <1>3 DEF SosDesk!DeskWrite, DeskJudged, SosDesk!Unmoved
    <2>2. incidents' = [incidents EXCEPT ![i].status = desk[a].to]
      BY <1>3 DEF SosDesk!DeskWrite
    <2>3. incidents[i] \in SosDesk!SosEvent
      BY <2>1, IncidentsAreEvents
    <2> HIDE DEF i
    <2>4. incidents'[i] = [incidents[i] EXCEPT !.status = desk[a].to] /\ Len(incidents') = Len(incidents)
          /\ DOMAIN incidents' = DOMAIN incidents
          /\ \A j \in DOMAIN incidents : j # i => incidents'[j] = incidents[j]
      BY <1>0, <2>1, <2>2
    <2>5. incidents'[i].status = desk[a].to /\ incidents'[i].log = incidents[i].log
      BY <2>3, <2>4 DEF SosDesk!SosEvent
    <2> QED BY <2>1, <2>4, <2>5
  <1>4. CASE SosDesk!RoundKeeps
    <2> DEFINE i == Head(queue).incident
               e == [incidents[i] EXCEPT !.token = IF @ = 0 THEN round.link ELSE @]
    <2>1. i \in DOMAIN incidents /\ incidents[i] \in SosDesk!SosEvent
      BY <1>4, HeadIsAJob, IncidentsAreEvents DEF SosDesk!RoundKeeps, SosTypes
    <2>2. incidents' = [incidents EXCEPT ![i] = e]
      BY <1>4 DEF SosDesk!RoundKeeps
    <2>3. e.status = incidents[i].status /\ e.log = incidents[i].log
      BY <2>1 DEF SosDesk!SosEvent
    <2> HIDE DEF i, e
    <2>4. incidents'[i] = e /\ Len(incidents') = Len(incidents) /\ DOMAIN incidents' = DOMAIN incidents
          /\ \A j \in DOMAIN incidents : j # i => incidents'[j] = incidents[j]
      BY <1>0, <2>1, <2>2
    <2> QED BY <2>1, <2>3, <2>4
  <1>5. CASE SosDesk!RoundRecords
    <2> DEFINE i == Head(queue).incident
               all == incidents[i].log \o round.entries
               e == [incidents[i] EXCEPT !.log = SubSeq(all, SosDesk!Over(all) + 1, Len(all))]
    <2>1. i \in DOMAIN incidents /\ incidents[i] \in SosDesk!SosEvent
      BY <1>5, HeadIsAJob, IncidentsAreEvents DEF SosDesk!RoundRecords, SosTypes
    <2>2. incidents' = [incidents EXCEPT ![i] = e]
      BY <1>5 DEF SosDesk!RoundRecords
    <2>3. e.status = incidents[i].status
      BY <2>1 DEF SosDesk!SosEvent
    <2> HIDE DEF i, e, all
    <2>4. incidents'[i] = e /\ Len(incidents') = Len(incidents) /\ DOMAIN incidents' = DOMAIN incidents
          /\ \A j \in DOMAIN incidents : j # i => incidents'[j] = incidents[j]
      BY <1>0, <2>1, <2>2
    <2> QED BY <1>5, <2>1, <2>3, <2>4
  <1>6. \A p \in SosPresses : SosDesk!Creatable /\ SosDesk!CreateSos(p) =>
          /\ SosDesk!Open = {} /\ (\E q \in SosPresses : SosDesk!CreateSos(q)) /\
             Len(incidents') = Len(incidents) + 1
          /\ \A i \in DOMAIN incidents : i \in DOMAIN incidents' /\ incidents'[i] = incidents[i]
    BY <1>2
  <1> QED BY <1>1, <1>3, <1>4, <1>5, <1>6, IncidentsAreWritten

\* A closed incident stays closed.
LEMMA ClosedStaysClosed ==
  ASSUME SosTypes, DeskJudged, [SosDesk!Next]_(SosDesk!sosVars), NEW i \in DOMAIN incidents
  PROVE  i \in DOMAIN incidents' /\ (~SosDesk!IsOpen(i) => ~SosDesk!IsOpen(i)')
  <1>1. /\ i \in DOMAIN incidents'
        /\ \/ incidents'[i].status = incidents[i].status
           \/ incidents'[i].status \in SosDesk!SOS_TRANSITIONS[incidents[i].status]
    BY IncidentsStep
  <1>2. incidents[i].status \in SosStatuses
    BY IncidentsAreEvents
  <1>3. incidents'[i].status \in SosDesk!SOS_TRANSITIONS[incidents[i].status] =>
        incidents[i].status \in SosDesk!OPEN_SOS_STATUSES
    BY <1>2, TransitionsAreOfOpen
  <1> QED BY <1>1, <1>3 DEF SosDesk!IsOpen

LEMMA NeverBackwardHolds == SosTypes /\ DeskJudged /\ [SosDesk!Next]_(SosDesk!sosVars) =>
      SosDesk!NeverBackwardStep
  BY IncidentsStep DEF SosDesk!NeverBackwardStep

LEMMA OpenIsLastStep ==
  ASSUME ContactsAreFew, SosTypes, DeskJudged, OpenIsLast,
         [SosDesk!Next]_(SosDesk!sosVars) PROVE OpenIsLast'
  <1> SUFFICES ASSUME NEW i \in SosDesk!Open' PROVE i = Len(incidents')
    BY DEF OpenIsLast
  <1>1. i \in DOMAIN incidents' /\ SosDesk!IsOpen(i)'
    BY DEF SosDesk!Open
  <1>2. incidents \in Seq(SosDesk!SosEvent) /\ incidents' \in Seq(SosDesk!SosEvent)
    BY SosTypesStep DEF SosTypes
  <1>3. CASE i \in DOMAIN incidents
    <2>1. i \in SosDesk!Open
      BY <1>1, <1>3, ClosedStaysClosed DEF SosDesk!Open
    <2>2. Len(incidents') = Len(incidents)
      BY <2>1, IncidentsStep
    <2> QED BY <2>1, <2>2 DEF OpenIsLast
  <1>4. CASE i \notin DOMAIN incidents
    <2>1. Len(incidents') = Len(incidents) \/ Len(incidents') = Len(incidents) + 1
      BY IncidentsStep
    <2> QED BY <1>1, <1>2, <1>4, <2>1
  <1> QED BY <1>3, <1>4

LEMMA DeskJudgedStep ==
  ASSUME SosTypes, DeskJudged, [SosDesk!Next]_(SosDesk!sosVars) PROVE DeskJudged'
  <1>1. ASSUME NEW a \in SosTeam, desk'[a] = desk[a]
        PROVE  /\ desk'[a].pc = "write" =>
                    desk'[a].incident \in DOMAIN incidents' /\
                    desk'[a].to \in SosDesk!SOS_TRANSITIONS[desk'[a].seen]
               /\ desk'[a].pc = "revoke" => desk'[a].incident \in DOMAIN incidents' /\
                  ~SosDesk!IsOpen(desk[a].incident)'
    <2>1. CASE desk[a].pc = "write"
      BY <1>1, <2>1, IncidentsStep DEF DeskJudged
    <2>2. CASE desk[a].pc = "revoke"
      BY <1>1, <2>2, ClosedStaysClosed DEF DeskJudged
    <2> QED BY <1>1, <2>1, <2>2
  <1>2. CASE desk' = desk
    BY <1>1, <1>2 DEF DeskJudged
  <1>3. CASE desk' = [a \in SosTeam |-> SosDesk!Away]
    BY <1>3 DEF DeskJudged, SosDesk!Away, SosDesk!AtDesk
  <1>4. ASSUME NEW a \in SosTeam, SosDesk!DeskRead(a) \/ SosDesk!DeskWrite(a) \/ SosDesk!DeskRevoke(a)
        PROVE  DeskJudged'
    <2>1. \A b \in SosTeam : b # a => desk'[b] = desk[b]
      BY <1>4 DEF SosDesk!DeskRead, SosDesk!DeskWrite, SosDesk!DeskRevoke, SosTypes
    <2>2. desk \in [SosTeam -> SosDeskWork]
      BY DEF SosTypes
    <2>3. CASE desk' = [desk EXCEPT ![a] = SosDesk!Away]
      <3>1. desk'[a].pc = "idle"
        BY <2>2, <2>3 DEF SosDesk!Away, SosDesk!AtDesk
      <3> QED BY <1>1, <2>1, <3>1 DEF DeskJudged
    <2>4. CASE SosDesk!DeskRead(a)
      <3>1. PICK i \in DOMAIN incidents : \E to \in SosDesk!SOS_TRANSITIONS[incidents[i].status] :
              desk' = [desk EXCEPT ![a] = SosDesk!AtDesk("write", i, incidents[i].status, to)]
        BY <2>4 DEF SosDesk!DeskRead
      <3>2. PICK to \in SosDesk!SOS_TRANSITIONS[incidents[i].status] :
              desk' = [desk EXCEPT ![a] = SosDesk!AtDesk("write", i, incidents[i].status, to)]
        BY <3>1
      <3>3. desk'[a].pc = "write" /\ desk'[a].incident = i /\ desk'[a].to = to /\
            desk'[a].seen = incidents[i].status
        BY <2>2, <3>2 DEF SosDesk!AtDesk
      <3>4. incidents' = incidents
        BY <2>4 DEF SosDesk!DeskRead
      <3> QED BY <1>1, <2>1, <3>2, <3>3, <3>4 DEF DeskJudged
    <2>5. CASE SosDesk!DeskWrite(a) /\ SosDesk!Unmoved(a) /\ desk[a].to \notin SosDesk!OPEN_SOS_STATUSES
      <3>0. PICK i : i = desk[a].incident
        OBVIOUS
      <3>1. i \in DOMAIN incidents
        BY <2>5, <3>0 DEF SosDesk!DeskWrite, DeskJudged
      <3>2. incidents' = [incidents EXCEPT ![i].status = desk[a].to]
        BY <2>5, <3>0 DEF SosDesk!DeskWrite
      <3>3. incidents \in Seq(SosDesk!SosEvent) /\ incidents[i] \in SosDesk!SosEvent
        BY <3>1, IncidentsAreEvents DEF SosTypes
      <3>4. desk' = [desk EXCEPT ![a] = [desk[a] EXCEPT !.pc = "revoke"]]
        BY <2>5 DEF SosDesk!DeskWrite
      <3>5. desk'[a].pc = "revoke" /\ desk'[a].incident = i
        BY <2>2, <3>0, <3>4 DEF SosDeskWork
      <3>6. i \in DOMAIN incidents' /\ incidents'[i] = [incidents[i] EXCEPT !.status = desk[a].to]
        BY <3>1, <3>2, <3>3
      <3>7. incidents'[i].status = desk[a].to
        BY <3>3, <3>6 DEF SosDesk!SosEvent
      <3>8. ~SosDesk!IsOpen(i)'
        BY <2>5, <3>7 DEF SosDesk!IsOpen
      <3> QED BY <1>1, <2>1, <3>5, <3>6, <3>8 DEF DeskJudged
    <2>6. \/ desk' = [desk EXCEPT ![a] = SosDesk!Away] \/ SosDesk!DeskRead(a)
          \/ SosDesk!DeskWrite(a) /\ SosDesk!Unmoved(a) /\ desk[a].to \notin SosDesk!OPEN_SOS_STATUSES
      BY <1>4 DEF SosDesk!DeskWrite, SosDesk!DeskRevoke
    <2> QED BY <2>3, <2>4, <2>5, <2>6
  <1>5. ASSUME NEW p \in SosPresses, SosDesk!Press(p) \/ SosDesk!CreateSos(p) PROVE desk' = desk
    BY <1>5 DEF SosDesk!Press, SosDesk!CreateSos
  <1>6. ASSUME NEW a \in SosTeam, SosDesk!ResendContactAlerts(a) PROVE desk' = desk
    BY <1>6 DEF SosDesk!ResendContactAlerts
  <1>7. SosDesk!RoundReads \/ SosDesk!RoundLinks \/ SosDesk!RoundKeeps \/ SosDesk!RoundSends \/
        SosDesk!RoundRecords => desk' = desk
    BY DEF SosDesk!RoundReads, SosDesk!RoundLinks, SosDesk!RoundKeeps, SosDesk!RoundSends,
           SosDesk!RoundRecords
  <1>8. SosDesk!TimePasses \/ UNCHANGED SosDesk!sosVars => desk' = desk
    BY DEF SosDesk!TimePasses, SosDesk!sosVars
  <1>9. SosDesk!Crash => desk' = [a \in SosTeam |-> SosDesk!Away]
    BY DEF SosDesk!Crash
  <1> QED BY <1>2, <1>3, <1>4, <1>5, <1>6, <1>7, <1>8, <1>9 DEF SosDesk!Next

\* Only the safety team revokes, and what it revokes is closed.
LEMMA LinksStep ==
  ASSUME SosTypes, DeskJudged, RevokedAreClosed, SosDesk!ClosedLinksAreDead,
         [SosDesk!Next]_(SosDesk!sosVars)
  PROVE  RevokedAreClosed' /\ SosDesk!ClosedLinksAreDead'
  <1>1. CASE revoked' = revoked /\ links' = links
    <2>1. RevokedAreClosed'
      BY <1>1, ClosedStaysClosed DEF RevokedAreClosed
    <2> QED BY <1>1, <2>1 DEF SosDesk!ClosedLinksAreDead
  <1>2. ASSUME NEW a \in SosTeam, SosDesk!DeskRevoke(a)
        PROVE  RevokedAreClosed' /\ SosDesk!ClosedLinksAreDead'
    <2> DEFINE i == desk[a].incident
               R == SosDesk!RevokeForSos(i)
               D == {[l EXCEPT !.active = FALSE] : l \in R}
    <2>1. links' = (links \ R) \cup D /\ revoked' = revoked \cup {i} /\ incidents' = incidents
      BY <1>2 DEF SosDesk!DeskRevoke
    <2>2. i \in DOMAIN incidents /\ ~SosDesk!IsOpen(i)
      BY <1>2 DEF SosDesk!DeskRevoke, DeskJudged
    <2>3. \A l \in D : ~l.active
      <3>1. \A l \in R : l \in SosLink
        BY DEF SosDesk!RevokeForSos, SosTypes
      <3> QED BY <3>1 DEF SosLink
    <2>4. \A l \in links \ R : l.incident # i
      BY DEF SosDesk!RevokeForSos
    <2> HIDE DEF i, R, D
    <2>5. RevokedAreClosed'
      BY <2>1, <2>2 DEF RevokedAreClosed, SosDesk!IsOpen
    <2>6. SosDesk!ClosedLinksAreDead'
      BY <2>1, <2>3, <2>4 DEF SosDesk!ClosedLinksAreDead
    <2> QED BY <2>5, <2>6
  <1>3. CASE SosDesk!RoundLinks
    <2> DEFINE i == Head(queue).incident
               l == [id |-> Cardinality(links) + 1, incident |-> i, active |-> TRUE, late |-> ~SosDesk!IsOpen(i)]
    <2>1. links' = links \cup {l} /\ revoked' = revoked /\ incidents' = incidents
      BY <1>3, SosCounts DEF SosDesk!RoundLinks
    <2>2. l.incident = i /\ l.late = ~SosDesk!IsOpen(i)
      OBVIOUS
    <2> HIDE DEF i, l
    <2>3. i \in revoked => ~SosDesk!IsOpen(i)
      BY DEF RevokedAreClosed
    <2>4. RevokedAreClosed'
      BY <2>1 DEF RevokedAreClosed, SosDesk!IsOpen
    <2> QED BY <2>1, <2>2, <2>3, <2>4 DEF SosDesk!ClosedLinksAreDead
  <1>4. ASSUME NEW p \in SosPresses, SosDesk!Press(p) \/ SosDesk!CreateSos(p)
        PROVE  revoked' = revoked /\ links' = links
    BY <1>4 DEF SosDesk!Press, SosDesk!CreateSos
  <1>5. ASSUME NEW a \in SosTeam, SosDesk!DeskRead(a) \/ SosDesk!DeskWrite(a) \/
               SosDesk!ResendContactAlerts(a)
        PROVE  revoked' = revoked /\ links' = links
    BY <1>5 DEF SosDesk!DeskRead, SosDesk!DeskWrite, SosDesk!ResendContactAlerts
  <1>6. SosDesk!RoundReads \/ SosDesk!RoundKeeps \/ SosDesk!RoundSends \/ SosDesk!RoundRecords =>
        revoked' = revoked /\ links' = links
    BY DEF SosDesk!RoundReads, SosDesk!RoundKeeps, SosDesk!RoundSends, SosDesk!RoundRecords
  <1>7. SosDesk!TimePasses \/ SosDesk!Crash \/ UNCHANGED SosDesk!sosVars => revoked' = revoked /\
        links' = links
    BY DEF SosDesk!TimePasses, SosDesk!Crash, SosDesk!sosVars
  <1> QED BY <1>1, <1>2, <1>3, <1>4, <1>5, <1>6, <1>7 DEF SosDesk!Next

\* Until a round has been read to its log, the job at the head and what was logged stay.
LEMMA JobStays ==
  ASSUME SosTypes, [SosDesk!Next]_(SosDesk!sosVars), round.pc # "idle", round'.pc # "idle"
  PROVE  Head(queue') = Head(queue) /\ ~SosDesk!RoundRecords
  <1>0. queue # <<>>
    BY DEF SosTypes
  <1>1. ~SosDesk!RoundRecords /\ ~SosDesk!Crash /\ ~SosDesk!RoundReads
    BY RestIsARound DEF SosDesk!RoundRecords, SosDesk!RoundOver, SosDesk!Crash, SosDesk!RoundReads
  <1>2. ASSUME NEW i \in Nat, NEW force \in BOOLEAN, SosDesk!Dispatch(i, force)
        PROVE  Head(queue') = Head(queue)
    BY <1>0, <1>2, JobsQueueUp
  <1>3. ASSUME NEW p \in SosPresses, SosDesk!Press(p) PROVE Head(queue') = Head(queue)
    <2>1. queue' = queue \/ \E i \in SosDesk!Open : SosDesk!Dispatch(i, FALSE)
      BY <1>3 DEF SosDesk!Press
    <2>2. \A i \in SosDesk!Open : i \in Nat
      BY IncidentsAreEvents DEF SosDesk!Open
    <2> QED BY <1>2, <2>1, <2>2
  <1>4. ASSUME NEW p \in SosPresses, SosDesk!CreateSos(p) PROVE Head(queue') = Head(queue)
    <2>1. queue' = queue \/ SosDesk!Dispatch(Len(incidents) + 1, FALSE)
      BY <1>4 DEF SosDesk!CreateSos
    <2>2. Len(incidents) + 1 \in Nat
      BY DEF SosTypes
    <2> QED BY <1>2, <2>1, <2>2
  <1>5. ASSUME NEW a \in SosTeam, SosDesk!ResendContactAlerts(a) PROVE Head(queue') = Head(queue)
    <2>1. \E i \in SosDesk!Open : SosDesk!Dispatch(i, TRUE)
      BY <1>5 DEF SosDesk!ResendContactAlerts
    <2>2. \A i \in SosDesk!Open : i \in Nat
      BY IncidentsAreEvents DEF SosDesk!Open
    <2> QED BY <1>2, <2>1, <2>2
  <1>6. ASSUME NEW a \in SosTeam, SosDesk!DeskRead(a) \/ SosDesk!DeskWrite(a) \/ SosDesk!DeskRevoke(a)
        PROVE  queue' = queue
    BY <1>6 DEF SosDesk!DeskRead, SosDesk!DeskWrite, SosDesk!DeskRevoke
  <1>7. SosDesk!RoundLinks \/ SosDesk!RoundKeeps \/ SosDesk!RoundSends => queue' = queue
    BY DEF SosDesk!RoundLinks, SosDesk!RoundKeeps, SosDesk!RoundSends
  <1>8. SosDesk!TimePasses \/ UNCHANGED SosDesk!sosVars => queue' = queue
    BY DEF SosDesk!TimePasses, SosDesk!sosVars
  <1> QED BY <1>1, <1>3, <1>4, <1>5, <1>6, <1>7, <1>8 DEF SosDesk!Next

\* Who changes the running round.
LEMMA RoundsAreRun ==
  ASSUME [SosDesk!Next]_(SosDesk!sosVars)
  PROVE  \/ round' = round \/ round' = SosDesk!NoRound
         \/ SosDesk!RoundReads \/ SosDesk!RoundLinks \/ SosDesk!RoundKeeps \/ SosDesk!RoundSends
  <1>1. ASSUME NEW p \in SosPresses, SosDesk!Press(p) \/ SosDesk!CreateSos(p) PROVE round' = round
    BY <1>1 DEF SosDesk!Press, SosDesk!CreateSos
  <1>2. ASSUME NEW a \in SosTeam, SosDesk!DeskRead(a) \/ SosDesk!DeskWrite(a) \/ SosDesk!DeskRevoke(a) \/
               SosDesk!ResendContactAlerts(a)
        PROVE  round' = round
    BY <1>2 DEF SosDesk!DeskRead, SosDesk!DeskWrite, SosDesk!DeskRevoke, SosDesk!ResendContactAlerts
  <1>3. SosDesk!RoundRecords \/ SosDesk!Crash => round' = SosDesk!NoRound
    BY DEF SosDesk!RoundRecords, SosDesk!RoundOver, SosDesk!Crash
  <1>4. SosDesk!TimePasses \/ UNCHANGED SosDesk!sosVars => round' = round
    BY DEF SosDesk!TimePasses, SosDesk!sosVars
  <1> QED BY <1>1, <1>2, <1>3, <1>4 DEF SosDesk!Next

LEMMA TargetsAreDueStep ==
  ASSUME ContactsAreFew, SosTypes, DeskJudged, TargetsAreDue,
         [SosDesk!Next]_(SosDesk!sosVars) PROVE TargetsAreDue'
  <1> DEFINE ALERT(c) == [to |-> c, kind |-> "ALERT"]
  <1> SUFFICES ASSUME round'.pc \in {"link", "keep", "send"}, NEW c \in SosContacts, ALERT(c) \in round'.targets
               PROVE  SosDesk!Sent(Head(queue).incident, c, "ALERT")' = {}
    BY DEF TargetsAreDue
  <1>1. ASSUME round.pc \in {"link", "keep", "send"}, round'.targets = round.targets
        PROVE  SosDesk!Sent(Head(queue).incident, c, "ALERT")' = {}
    <2>1. Head(queue') = Head(queue) /\ ~SosDesk!RoundRecords
      BY <1>1, JobStays
    <2>2. Head(queue).incident \in DOMAIN incidents
      BY <1>1, HeadIsAJob DEF SosTypes
    <2>3. incidents'[Head(queue).incident].log = incidents[Head(queue).incident].log
      BY <2>1, <2>2, IncidentsStep
    <2>4. SosDesk!Sent(Head(queue).incident, c, "ALERT") = {}
      BY <1>1 DEF TargetsAreDue
    <2> QED BY <2>1, <2>3, <2>4 DEF SosDesk!Sent
  <1>2. CASE round' = round
    BY <1>1, <1>2
  <1>3. CASE round' = SosDesk!NoRound
    BY <1>3, RestIsARound
  <1>4. CASE SosDesk!RoundLinks \/ SosDesk!RoundKeeps
    <2>1. round.pc \in {"link", "keep"} /\ round'.targets = round.targets
      BY <1>4 DEF SosDesk!RoundLinks, SosDesk!RoundKeeps, SosTypes, SosRound
    <2> QED BY <1>1, <2>1
  <1>5. CASE SosDesk!RoundSends
    <2>1. round'.pc = "log"
      BY <1>5 DEF SosDesk!RoundSends, SosTypes, SosRound
    <2> QED BY <2>1
  <1>6. CASE SosDesk!RoundReads
    <2> DEFINE i == Head(queue).incident
               due == SosDesk!Targets(i, Head(queue).force)
    <2>1. ~SosDesk!RoundOver
      BY RestIsARound DEF SosDesk!RoundOver
    <2>2. queue' = queue /\ incidents' = incidents /\ round'.targets = due
      <3>1. round' = [SosDesk!NoRound EXCEPT !.pc = IF incidents[i].token = 0 THEN "link" ELSE "send",
                                     !.targets = due, !.link = incidents[i].token]
        BY <1>6, <2>1 DEF SosDesk!RoundReads
      <3>2. queue' = queue /\ incidents' = incidents
        BY <1>6, <2>1 DEF SosDesk!RoundReads
      <3> HIDE DEF i, due
      <3> QED BY <3>1, <3>2 DEF SosDesk!NoRound
    <2>3. ALERT(c) \in due
      BY <2>2
    <2>4. SosDesk!Sent(i, c, "ALERT") = {}
      BY <2>3 DEF SosDesk!Targets
    <2> QED BY <2>2, <2>4 DEF SosDesk!Sent
  <1> QED BY <1>2, <1>3, <1>4, <1>5, <1>6, RoundsAreRun

\* Nothing else makes the process forget that it has told a contact.
LEMMA ToldStays ==
  ASSUME SosTypes, DeskJudged, [SosDesk!Next]_(SosDesk!sosVars), NEW c \in SosContacts, Told(c),
         ~(SosDesk!Open = {} /\ \E p \in SosPresses : SosDesk!CreateSos(p)), ~SosDesk!RoundSends, ~SosDesk!RoundRecords, ~SosDesk!Crash
  PROVE  Told(c)'
  <1> DEFINE L == Len(incidents)
  <1>1. Len(incidents') = L
    BY IncidentsStep
  <1>2. incidents # <<>> /\ incidents \in Seq(SosDesk!SosEvent) /\ L \in DOMAIN incidents
    BY DEF Told, SosTypes
  <1>3. incidents'[L].log = incidents[L].log
    BY <1>2, IncidentsStep
  <1>4. incidents' # <<>>
    BY <1>1, <1>2
  <1>5. CASE Logged(c)
    BY <1>1, <1>3, <1>4, <1>5 DEF Told, Logged, Alert
  <1>6. CASE ToLog(c)
    <2>1. round.pc = "log"
      BY <1>6 DEF ToLog
    <2>2. ~SosDesk!RoundReads /\ ~SosDesk!RoundLinks /\ ~SosDesk!RoundKeeps
      BY <2>1 DEF SosDesk!RoundReads, SosDesk!RoundLinks, SosDesk!RoundKeeps
    <2>3. round' = round
      <3>1. ASSUME NEW p \in SosPresses, SosDesk!Press(p) \/ SosDesk!CreateSos(p) PROVE round' = round
        BY <3>1 DEF SosDesk!Press, SosDesk!CreateSos
      <3>2. ASSUME NEW a \in SosTeam, SosDesk!DeskRead(a) \/ SosDesk!DeskWrite(a) \/
                   SosDesk!DeskRevoke(a) \/ SosDesk!ResendContactAlerts(a)
            PROVE  round' = round
        BY <3>2 DEF SosDesk!DeskRead, SosDesk!DeskWrite, SosDesk!DeskRevoke, SosDesk!ResendContactAlerts
      <3>3. SosDesk!TimePasses \/ UNCHANGED SosDesk!sosVars => round' = round
        BY DEF SosDesk!TimePasses, SosDesk!sosVars
      <3> QED BY <2>2, <3>1, <3>2, <3>3 DEF SosDesk!Next
    <2>4. Head(queue') = Head(queue)
      BY <2>1, <2>3, JobStays
    <2> QED BY <1>1, <1>4, <1>6, <2>3, <2>4 DEF Told, ToLog, Alert
  <1> QED BY <1>5, <1>6 DEF Told

\* Who counts an alert.
LEMMA AlertsAreCounted ==
  ASSUME [SosDesk!Next]_(SosDesk!sosVars), ~(SosDesk!Open = {} /\ \E p \in SosPresses : SosDesk!CreateSos(p)), ~SosDesk!RoundSends, ~SosDesk!RoundRecords, ~SosDesk!Crash
  PROVE  UNCHANGED <<confirmed, forgot, crashes>>
  <1>1. ASSUME NEW p \in SosPresses, SosDesk!Press(p) PROVE UNCHANGED <<confirmed, forgot, crashes>>
    BY <1>1 DEF SosDesk!Press
  <1>2. ASSUME NEW p \in SosPresses, SosDesk!CreateSos(p) PROVE UNCHANGED <<confirmed, forgot, crashes>>
    BY <1>2 DEF SosDesk!CreateSos, SosDesk!Creatable
  <1>3. ASSUME NEW a \in SosTeam, SosDesk!DeskRead(a) \/ SosDesk!DeskWrite(a) \/ SosDesk!DeskRevoke(a) \/
               SosDesk!ResendContactAlerts(a)
        PROVE  UNCHANGED <<confirmed, forgot, crashes>>
    BY <1>3 DEF SosDesk!DeskRead, SosDesk!DeskWrite, SosDesk!DeskRevoke, SosDesk!ResendContactAlerts
  <1>4. SosDesk!RoundReads \/ SosDesk!RoundLinks \/ SosDesk!RoundKeeps =>
        UNCHANGED <<confirmed, forgot, crashes>>
    BY DEF SosDesk!RoundReads, SosDesk!RoundLinks, SosDesk!RoundKeeps
  <1>5. SosDesk!TimePasses \/ UNCHANGED SosDesk!sosVars => UNCHANGED <<confirmed, forgot, crashes>>
    BY DEF SosDesk!TimePasses, SosDesk!sosVars
  <1> QED BY <1>1, <1>2, <1>3, <1>4, <1>5 DEF SosDesk!Next

\* What was logged before the round, and what the round adds.
LEMMA LogsAreJoined ==
  ASSUME NEW S, NEW old \in Seq(S), NEW new \in Seq(S)
  PROVE  /\ DOMAIN (old \o new) = 1..Len(old \o new) /\ Len(old \o new) \in Nat
         /\ \A n \in DOMAIN old : n \in DOMAIN (old \o new) /\ (old \o new)[n] = old[n]
         /\ \A n \in DOMAIN new : Len(old) + n \in DOMAIN (old \o new) /\
            (old \o new)[Len(old) + n] = new[n]
  <1>1. Len(old) \in Nat /\ Len(new) \in Nat /\ Len(old \o new) = Len(old) + Len(new)
    OBVIOUS
  <1>2. DOMAIN old = 1..Len(old) /\ DOMAIN new = 1..Len(new) /\
        DOMAIN (old \o new) = 1..(Len(old) + Len(new))
    OBVIOUS
  <1>3. \A n \in 1..(Len(old) + Len(new)) :
          (old \o new)[n] = IF n <= Len(old) THEN old[n] ELSE new[n - Len(old)]
    OBVIOUS
  <1>4. ASSUME NEW n \in DOMAIN old PROVE n \in DOMAIN (old \o new) /\ (old \o new)[n] = old[n]
    BY <1>1, <1>2, <1>3
  <1>5. ASSUME NEW n \in DOMAIN new
        PROVE  Len(old) + n \in DOMAIN (old \o new) /\ (old \o new)[Len(old) + n] = new[n]
    <2>1. n \in 1..Len(new) /\ Len(old) + n \in 1..(Len(old) + Len(new)) /\ ~(Len(old) + n <= Len(old))
          /\ (Len(old) + n) - Len(old) = n
      BY <1>1, <1>2
    <2>2. (old \o new)[Len(old) + n] = new[(Len(old) + n) - Len(old)]
      BY <1>3, <2>1
    <2> QED BY <1>2, <2>1, <2>2
  <1> QED BY <1>1, <1>2, <1>4, <1>5

LEMMA AlertsAreRecordedStep ==
  ASSUME ContactsAreFew, SosTypes, DeskJudged, TargetsAreDue, AlertsAreRecorded,
         [SosDesk!Next]_(SosDesk!sosVars)
  PROVE  AlertsAreRecorded'
  <1> SUFFICES ASSUME NEW c \in SosContacts
               PROVE  confirmed'[c] <= forgot' + crashes' + (IF Told(c)' THEN 1 ELSE 0)
    BY DEF AlertsAreRecorded
  <1>0. /\ confirmed[c] \in Nat /\ forgot \in Nat /\ crashes \in Nat
        /\ confirmed[c] <= forgot + crashes + (IF Told(c) THEN 1 ELSE 0)
    BY DEF SosTypes, AlertsAreRecorded
  <1>1. CASE SosDesk!Open = {} /\ \E p \in SosPresses : SosDesk!CreateSos(p)
    <2>1. PICK p \in SosPresses : SosDesk!CreateSos(p)
      BY <1>1
    <2>2. confirmed' = [d \in SosContacts |-> 0] /\ forgot' = 0 /\ crashes' = crashes
      BY <1>1, <2>1 DEF SosDesk!CreateSos, SosDesk!Creatable
    <2>3. confirmed'[c] = 0
      BY <2>2
    <2> QED BY <1>0, <2>2, <2>3
  <1>2. CASE SosDesk!RoundSends
    <2> DEFINE ALERT == [to |-> c, kind |-> "ALERT"]
               i == Head(queue).incident
    <2>1. UNCHANGED <<incidents, queue, forgot, crashes>> /\ round.pc = "send"
      BY <1>2 DEF SosDesk!RoundSends
    <2>2. PICK reached \in SUBSET round.targets :
            /\ round' = [round EXCEPT !.pc = "log", !.entries = SosDesk!SetToSeq(Noted(round.targets, reached))]
            /\ confirmed' = IF i # Len(incidents) THEN confirmed
                 ELSE [d \in SosContacts |-> confirmed[d] +
                         IF [to |-> d, kind |-> "ALERT"] \in reached THEN 1 ELSE 0]
      BY <1>2 DEF SosDesk!RoundSends, Noted
    <2>3. Told(c) => Told(c)'
      <3>1. ~ToLog(c)
        BY <2>1 DEF ToLog
      <3> QED BY <2>1, <3>1 DEF Told, Logged, Alert
    <2>4. CASE i # Len(incidents) \/ ALERT \notin reached
      <3>1. confirmed'[c] = confirmed[c]
        BY <1>0, <2>2, <2>4
      <3> QED BY <1>0, <2>1, <2>3, <3>1
    <2>5. CASE i = Len(incidents) /\ ALERT \in reached
      <3>1. confirmed'[c] = confirmed[c] + 1
        BY <2>2, <2>5
      <3>2. queue # <<>> /\ i \in DOMAIN incidents
        BY <2>1, HeadIsAJob DEF SosTypes
      <3>3. ~Told(c)
        <4>1. SosDesk!Sent(i, c, "ALERT") = {}
          BY <2>1, <2>5 DEF TargetsAreDue
        <4>2. ~Logged(c)
          BY <2>5, <4>1 DEF SosDesk!Sent, Logged, Alert
        <4> QED BY <2>1, <4>2 DEF Told, ToLog
      <3>4. Told(c)'
        <4>1. round.targets \in SUBSET SosTarget
          BY DEF SosTypes, SosRound
        <4>2. \E n \in DOMAIN SosDesk!SetToSeq(Noted(round.targets, reached)) :
                SosDesk!SetToSeq(Noted(round.targets, reached))[n] = Alert(c)
          BY <2>5, <4>1, NotesAreWhole DEF Alert
        <4>3. round'.pc = "log" /\ round'.entries = SosDesk!SetToSeq(Noted(round.targets, reached))
          BY <2>2 DEF SosTypes, SosRound
        <4>4. ToLog(c)'
          BY <2>1, <2>5, <4>2, <4>3 DEF ToLog, Alert
        <4>5. incidents' # <<>>
          BY <2>1, <3>2 DEF SosTypes
        <4> QED BY <4>4, <4>5 DEF Told
      <3> QED BY <1>0, <2>1, <3>1, <3>3, <3>4
    <2> QED BY <2>4, <2>5
  <1>3. CASE SosDesk!RoundRecords
    <2> DEFINE i == Head(queue).incident
               L == Len(incidents)
               old == incidents[i].log
               all == old \o round.entries
               k == SosDesk!Over(all)
               cut == SubSeq(all, k + 1, Len(all))
               e == [incidents[i] EXCEPT !.log = cut]
               lost == {n \in 1..k : all[n].sent /\ all[n].kind = "ALERT"}
    <2>1. UNCHANGED <<confirmed, crashes>> /\ round.pc = "log" /\ incidents' = [incidents EXCEPT ![i] = e]
          /\ forgot' = forgot + Cardinality(lost)
      BY <1>3, SosCounts DEF SosDesk!RoundRecords
    <2>2. queue # <<>> /\ i \in DOMAIN incidents /\ incidents \in Seq(SosDesk!SosEvent)
      BY <2>1, HeadIsAJob DEF SosTypes
    <2>3. incidents[i].log \in Seq(SosDesk!SosContactAlert) /\
          round.entries \in Seq(SosDesk!SosContactAlert) /\ incidents[i] \in SosDesk!SosEvent
      BY <2>2, IncidentsAreEvents DEF SosTypes, SosRound
    <2>4. all \in Seq(SosDesk!SosContactAlert)
      BY <2>3
    <2>5. /\ k \in Nat /\ k <= Len(all)
          /\ \A n \in DOMAIN all : n > k => n - k \in DOMAIN cut /\ cut[n - k] = all[n]
      BY <2>4, LogsAreCut
    <2>6. e.log = cut
      BY <2>3 DEF SosDesk!SosEvent
    <2>7. /\ DOMAIN all = 1..Len(all) /\ Len(all) \in Nat
          /\ \A n \in DOMAIN old : n \in DOMAIN all /\ all[n] = old[n]
          /\ \A n \in DOMAIN round.entries : Len(old) + n \in DOMAIN all /\
             all[Len(old) + n] = round.entries[n]
      <3>1. old \in Seq(SosDesk!SosContactAlert) /\ round.entries \in Seq(SosDesk!SosContactAlert)
        BY <2>3
      <3> HIDE DEF old
      <3> QED BY <3>1, LogsAreJoined
    <2> HIDE DEF all, k, cut, e
    <2>9. IsFiniteSet(1..k)
      BY <2>5, FS_Interval
    <2>10. lost \subseteq 1..k
      OBVIOUS
    <2>11. IsFiniteSet(lost) /\ Cardinality(lost) \in Nat
      BY <2>9, <2>10, FS_Subset, FS_CardinalityType
    <2>12. \A n \in 1..k : all[n] = Alert(c) => n \in lost
      BY DEF Alert
    <2> HIDE DEF lost, i
    <2>13. /\ Len(incidents') = L /\ incidents' # <<>> /\ incidents'[i] = e
           /\ \A j \in DOMAIN incidents : j # i => incidents'[j] = incidents[j]
      BY <2>1, <2>2
    <2>14. L \in DOMAIN incidents /\ incidents # <<>>
      BY <2>2
    <2>15. CASE ~Told(c)
      BY <1>0, <2>1, <2>11, <2>15
    <2>16. CASE Told(c) /\ i # L
      <3>1. Logged(c)
        BY <2>16 DEF Told, ToLog, i
      <3>2. incidents'[L] = incidents[L]
        BY <2>13, <2>14, <2>16
      <3>3. Told(c)'
        BY <2>13, <3>1, <3>2 DEF Told, Logged, Alert
      <3> QED BY <1>0, <2>1, <2>11, <3>3
    <2>17. CASE Told(c) /\ i = L
      <3>1. \E n \in DOMAIN all : all[n] = Alert(c)
        BY <2>7, <2>17 DEF Told, Logged, ToLog
      <3>2. PICK n \in DOMAIN all : all[n] = Alert(c)
        BY <3>1
      <3>3. CASE n > k
        <4>1. n - k \in DOMAIN incidents'[L].log /\ incidents'[L].log[n - k] = Alert(c)
          BY <2>5, <2>6, <2>13, <2>17, <3>2, <3>3
        <4>2. Told(c)'
          BY <2>13, <4>1 DEF Told, Logged, Alert
        <4> QED BY <1>0, <2>1, <2>11, <4>2
      <3>4. CASE ~(n > k)
        <4>1. n \in lost
          BY <2>5, <2>7, <2>12, <3>2, <3>4
        <4>2. Cardinality(lost) # 0
          BY <2>11, <4>1, FS_EmptySet
        <4> QED BY <1>0, <2>1, <2>11, <4>2
      <3> QED BY <3>3, <3>4
    <2> QED BY <2>15, <2>16, <2>17
  <1>4. CASE SosDesk!Crash
    <2>1. confirmed' = confirmed /\ forgot' = forgot /\ crashes' = crashes + 1
      BY <1>4 DEF SosDesk!Crash
    <2> QED BY <1>0, <2>1
  <1>5. CASE ~(SosDesk!Open = {} /\ \E p \in SosPresses : SosDesk!CreateSos(p)) /\ ~SosDesk!RoundSends /\
             ~SosDesk!RoundRecords /\ ~SosDesk!Crash
    <2>1. UNCHANGED <<confirmed, forgot, crashes>>
      BY <1>5, AlertsAreCounted
    <2>2. Told(c) => Told(c)'
      BY <1>5, ToldStays
    <2> QED BY <1>0, <2>1, <2>2
  <1> QED BY <1>1, <1>2, <1>3, <1>4, <1>5

LEMMA SosInvBegins == ContactsAreFew /\ SosDesk!Init => SosInv
  <1> SUFFICES ASSUME ContactsAreFew, SosDesk!Init PROVE SosInv
    OBVIOUS
  <1>1. SosTypes
    BY SosTypesBegin
  <1>2. DOMAIN incidents = {} /\ revoked = {} /\ links = {} /\ round.pc = "idle" /\
        \A a \in SosTeam : desk[a].pc = "idle"
    BY DEF SosDesk!Init, SosDesk!NoRound, SosDesk!Away, SosDesk!AtDesk
  <1>3. SosDesk!Open = {}
    BY <1>2 DEF SosDesk!Open
  <1>4. \A c \in SosContacts : confirmed[c] = 0 /\ ~Told(c) /\ forgot = 0 /\ crashes = 0
    BY DEF SosDesk!Init, Told
  <1> QED BY <1>1, <1>2, <1>3, <1>4
        DEF SosInv, DeskJudged, OpenIsLast, RevokedAreClosed, SosDesk!ClosedLinksAreDead,
            TargetsAreDue, AlertsAreRecorded

LEMMA SosInvStep == ContactsAreFew /\ SosInv /\ [SosDesk!Next]_(SosDesk!sosVars) => SosInv'
  BY SosTypesStep, DeskJudgedStep, OpenIsLastStep, LinksStep, TargetsAreDueStep, AlertsAreRecordedStep DEF SosInv

LEMMA SosInvHolds == ContactsAreFew /\ SosInv => SosDesk!TypeOK /\ SosDesk!OneOpenIncident /\
      SosDesk!AlertedOnce /\ SosDesk!ClosedLinksAreDead
  <1> SUFFICES ASSUME ContactsAreFew, SosInv
               PROVE  SosDesk!TypeOK /\ SosDesk!OneOpenIncident /\ SosDesk!AlertedOnce
    BY DEF SosInv
  <1>0. SosTypes
    BY DEF SosInv
  <1>1. SosDesk!TypeOK
    <2>1. \A i \in DOMAIN incidents : incidents[i] \in SosDesk!SosEvent /\
          Len(incidents[i].log) <= SosMaxRecorded
      BY <1>0, IncidentsAreEvents
    <2>2. \A l \in links : l.incident \in DOMAIN incidents /\ l.active \in BOOLEAN
      BY <1>0 DEF SosTypes, SosLink
    <2>3. \A a \in SosTeam : desk[a].pc \in {"idle", "write", "revoke"}
      BY <1>0 DEF SosTypes, SosDeskWork
    <2> QED BY <1>0, <2>1, <2>2, <2>3 DEF SosDesk!TypeOK, SosTypes
  <1>2. SosDesk!OneOpenIncident
    <2>1. SosDesk!Open \subseteq {Len(incidents)}
      BY DEF SosInv, OpenIsLast
    <2>2. SosDesk!Open = {} \/ SosDesk!Open = {Len(incidents)}
      BY <2>1
    <2>3. Cardinality(SosDesk!Open) = 0 \/ Cardinality(SosDesk!Open) = 1
      BY Zenon, <2>2, FS_EmptySet, FS_Singleton
    <2> QED BY <2>3, SosCounts DEF SosDesk!OneOpenIncident
  <1>3. SosDesk!AlertedOnce
    <2> SUFFICES ASSUME NEW c \in SosContacts PROVE confirmed[c] <= 1 + crashes + forgot
      BY DEF SosDesk!AlertedOnce
    <2>1. confirmed[c] \in Nat /\ crashes \in Nat /\ forgot \in Nat
      BY <1>0 DEF SosTypes
    <2>2. confirmed[c] <= forgot + crashes + (IF Told(c) THEN 1 ELSE 0)
      BY DEF SosInv, AlertsAreRecorded
    <2> QED BY <2>1, <2>2
  <1> QED BY <1>1, <1>2, <1>3

-----------------------------------------------------------------------------
(* Emergency contacts.  What a request that works alone has made of the primary contact before
   each of its steps, and the room it has counted for the contact it is to make. *)

ContactBook == INSTANCE EmergencyContacts WITH
  Requests <- BookRequests, Phones <- BookPhones, MaxContacts <- BookMax, MaxMade <- BookMaxMade,
    request <- contactRequest

\* Requests are finitely many, a contact has a number, and the limits are numbers.
ContactBounds ==
  IsFiniteSet(BookRequests) /\ BookPhones # {} /\ BookMax \in Nat /\ BookMaxMade \in Nat

ASSUME BookIsBounded == ContactBounds

LEMMA BookCounts == ASSUME NEW S PROVE ContactBook!Cardinality(S) = Cardinality(S)
  BY DEF ContactBook!Cardinality, Cardinality

-----------------------------------------------------------------------------
BookRequest ==
  [pc : {"idle", "demote", "insert", "save", "next", "demote others", "promote"}, id : Nat, phone : BookPhones,
   primary : BOOLEAN, tries : Nat]

ContactTypes ==
  /\ contacts \subseteq ContactBook!EmergencyContact /\ IsFiniteSet(contacts)
  /\ made \in 0..BookMaxMade
  /\ contactRequest \in [BookRequests -> BookRequest]
  /\ overlapped \in BOOLEAN /\ failed \in BOOLEAN

\* Every contact has an id of its own.
IdsDiffer ==
  /\ \A c, d \in contacts : c.id = d.id => c = d
  /\ \A c \in contacts : c.id <= made

\* The contacts there are and those being made: a request alone has counted both.
InMaking == {r \in BookRequests : contactRequest[r].pc \in {"demote", "insert"}}
Slack == IF overlapped THEN Cardinality(BookRequests) - 1 ELSE 0
LimitIsKept == Cardinality(contacts) + Cardinality(InMaking) <= BookMax + Slack

OneAtWork ==
  \A p, q \in BookRequests :
    contactRequest[p].pc # "idle" /\ contactRequest[q].pc # "idle" => p = q

HasOne == \E c \in contacts : c.primary /\ \A d \in contacts : d.primary => d = c
NoPrimary == \A c \in contacts : ~c.primary
\* What a request that works alone has made of the primary contact, before its next step.
Prepared(q) ==
  /\ q.pc = "idle" => contacts = {} \/ HasOne
  /\ q.pc = "demote" => q.primary
  /\ q.pc = "insert" => IF q.primary THEN NoPrimary ELSE HasOne
  /\ q.pc = "save" => HasOne
  /\ q.pc = "next" => NoPrimary
  /\ q.pc \in {"demote others", "promote"} => \E c \in contacts : c.id = q.id
  /\ q.pc = "promote" => \A c \in contacts : c.primary => c.id = q.id

PrimaryIsPrepared ==
  ~overlapped =>
    /\ OneAtWork
    /\ ~failed => /\ ContactBook!Quiet => contacts = {} \/ HasOne
                  /\ \A r \in BookRequests :
                       contactRequest[r].pc # "idle" => Prepared(contactRequest[r])

ContactInv == ContactTypes /\ IdsDiffer /\ LimitIsKept /\ PrimaryIsPrepared

\* The step of one request: what it has to show.
LEMMA OneRequestSteps ==
  ASSUME ContactBounds, ContactInv, NEW r \in BookRequests, NEW q \in BookRequest,
         contactRequest' = [contactRequest EXCEPT ![r] = q],
         \/ contactRequest[r].pc = "idle" /\ ContactBook!Overlap
         \/ contactRequest[r].pc # "idle" /\ overlapped' = overlapped,
         failed => failed',
         ~overlapped' /\ ~failed' => Prepared(q)'
  PROVE  PrimaryIsPrepared'
  <1>1. contactRequest \in [BookRequests -> BookRequest] /\ contactRequest'[r] = q /\
        \A p \in BookRequests : p # r => contactRequest'[p] = contactRequest[p]
    BY DEF ContactInv, ContactTypes
  <1> SUFFICES ASSUME ~overlapped'
               PROVE  OneAtWork' /\ (~failed' => (ContactBook!Quiet' => contacts' = {} \/ HasOne')
                                      /\ \A p \in BookRequests : contactRequest'[p].pc # "idle" =>
                                         Prepared(contactRequest[p])')
    BY DEF PrimaryIsPrepared
  <1>2. ~overlapped /\ \A p \in BookRequests : p # r => contactRequest[p].pc = "idle"
    <2>1. CASE contactRequest[r].pc = "idle" /\ ContactBook!Overlap
      BY <2>1 DEF ContactBook!Overlap, ContactBook!Quiet
    <2>2. CASE contactRequest[r].pc # "idle" /\ overlapped' = overlapped
      BY <2>2 DEF ContactInv, PrimaryIsPrepared, OneAtWork
    <2> QED BY <2>1, <2>2
  <1>3. \A p \in BookRequests : p # r => contactRequest'[p].pc = "idle"
    BY <1>1, <1>2
  <1>4. OneAtWork'
    BY <1>3 DEF OneAtWork
  <1>5. ASSUME ~failed', NEW p \in BookRequests, contactRequest'[p].pc # "idle"
        PROVE  Prepared(contactRequest[p])'
    <2>1. p = r /\ contactRequest'[p] = q
      BY <1>1, <1>3, <1>5
    <2>2. Prepared(q)'
      BY <1>5
    <2> QED BY <2>1, <2>2 DEF Prepared
  <1>6. ASSUME ~failed', ContactBook!Quiet' PROVE contacts' = {} \/ HasOne'
    <2>1. q.pc = "idle"
      BY <1>1, <1>6 DEF ContactBook!Quiet
    <2> QED BY <1>6, <2>1 DEF Prepared
  <1> QED BY <1>4, <1>5, <1>6

\* What a request alone may count on when it begins or goes on.
LEMMA AloneIsPrepared ==
  ASSUME ContactInv, NEW r \in BookRequests, ~overlapped', ~failed',
         failed => failed',
         \/ contactRequest[r].pc = "idle" /\ ContactBook!Overlap
         \/ contactRequest[r].pc # "idle" /\ overlapped' = overlapped
  PROVE  Prepared(contactRequest[r])
  <1>1. CASE contactRequest[r].pc = "idle" /\ ContactBook!Overlap
    <2>1. ~overlapped /\ ContactBook!Quiet
      BY <1>1 DEF ContactBook!Overlap
    <2>2. contacts = {} \/ HasOne
      BY <2>1 DEF ContactInv, PrimaryIsPrepared
    <2> QED BY <1>1, <2>2 DEF Prepared
  <1>2. CASE contactRequest[r].pc # "idle" /\ overlapped' = overlapped
    BY <1>2 DEF ContactInv, PrimaryIsPrepared
  <1> QED BY <1>1, <1>2

LEMMA MakingCounts ==
  ASSUME ContactBounds, ContactInv, NEW r \in BookRequests, NEW q \in BookRequest,
         contactRequest' = [contactRequest EXCEPT ![r] = q]
  PROVE  /\ Cardinality(InMaking) \in Nat /\ Cardinality(InMaking') \in Nat /\
            Cardinality(InMaking') <= Cardinality(BookRequests)
         /\ Cardinality(BookRequests) \in Nat /\ Cardinality(BookRequests) >= 1
         /\ r \in InMaking /\ q.pc \in {"demote", "insert"} =>
            Cardinality(InMaking') = Cardinality(InMaking)
         /\ r \notin InMaking /\ q.pc \notin {"demote", "insert"} =>
            Cardinality(InMaking') = Cardinality(InMaking)
         /\ r \notin InMaking /\ q.pc \in {"demote", "insert"} =>
            Cardinality(InMaking') = Cardinality(InMaking) + 1
         /\ r \in InMaking /\ q.pc \notin {"demote", "insert"} =>
            Cardinality(InMaking) = Cardinality(InMaking') + 1
  <1>1. contactRequest'[r] = q /\ \A p \in BookRequests : p # r => contactRequest'[p] = contactRequest[p]
    BY DEF ContactInv, ContactTypes
  <1>2. InMaking \subseteq BookRequests /\ InMaking' \subseteq BookRequests /\ IsFiniteSet(BookRequests)
    BY DEF InMaking, ContactBounds
  <1>3. IsFiniteSet(InMaking) /\ IsFiniteSet(InMaking')
    BY <1>2, FS_Subset
  <1>4. Cardinality(InMaking) \in Nat /\ Cardinality(InMaking') \in Nat /\ Cardinality(BookRequests) \in Nat
    BY <1>2, <1>3, FS_CardinalityType
  <1>5. Cardinality(InMaking') <= Cardinality(BookRequests)
    BY <1>2, FS_Subset
  <1>6. Cardinality(BookRequests) # 0
    BY <1>2, FS_EmptySet
  <1>7. q.pc \in {"demote", "insert"} => InMaking' = InMaking \cup {r}
    BY <1>1 DEF InMaking
  <1>8. q.pc \notin {"demote", "insert"} => InMaking' = InMaking \ {r}
    BY <1>1 DEF InMaking
  <1>9. r \in InMaking => InMaking \cup {r} = InMaking
    OBVIOUS
  <1>10. r \notin InMaking => InMaking \ {r} = InMaking
    OBVIOUS
  <1>11. r \notin InMaking => Cardinality(InMaking \cup {r}) = Cardinality(InMaking) + 1
    BY <1>3, FS_AddElement
  <1>12. r \in InMaking => Cardinality(InMaking \ {r}) = Cardinality(InMaking) - 1
    BY <1>3, FS_RemoveElement
  <1>13. CASE r \in InMaking
    <2>1. q.pc \in {"demote", "insert"} => Cardinality(InMaking') = Cardinality(InMaking)
      BY <1>7, <1>9, <1>13
    <2>2. q.pc \notin {"demote", "insert"} => Cardinality(InMaking') = Cardinality(InMaking) - 1
      BY <1>8, <1>12, <1>13
    <2> QED BY <1>4, <1>5, <1>6, <1>13, <2>1, <2>2
  <1>14. CASE r \notin InMaking
    <2>1. q.pc \in {"demote", "insert"} => Cardinality(InMaking') = Cardinality(InMaking) + 1
      BY <1>7, <1>11, <1>14
    <2>2. q.pc \notin {"demote", "insert"} => Cardinality(InMaking') = Cardinality(InMaking)
      BY <1>8, <1>10, <1>14
    <2> QED BY <1>4, <1>5, <1>6, <1>14, <2>1, <2>2
  <1> QED BY <1>13, <1>14

\* A rewritten list of contacts is no longer than it was.
LEMMA RewritingAddsNone ==
  ASSUME NEW S, IsFiniteSet(S), NEW f
  PROVE  IsFiniteSet({f[c] : c \in S}) /\ Cardinality({f[c] : c \in S}) <= Cardinality(S)
  <1> DEFINE T == {f[c] : c \in S}
             g == [c \in S |-> f[c]]
  <1>1. g \in Surjection(S, T)
    BY DEF Surjection
  <1> HIDE DEF T, g
  <1>2. IsFiniteSet(T) /\ Cardinality(T) <= Cardinality(S)
    BY <1>1, FS_Surjection
  <1> QED BY <1>2 DEF T

\* The contacts are rewritten, each under its id: types, ids and the number of them are kept.
LEMMA ContactsAreRewritten ==
  ASSUME ContactBounds, ContactInv, NEW f, contacts' = {f[c] : c \in contacts},
         \A c \in contacts : f[c] \in ContactBook!EmergencyContact /\ f[c].id = c.id,
         made' = made
  PROVE  /\ contacts' \subseteq ContactBook!EmergencyContact /\ IsFiniteSet(contacts') /\ IdsDiffer'
         /\ Cardinality(contacts') \in Nat /\ Cardinality(contacts) \in Nat
         /\ Cardinality(contacts') <= Cardinality(contacts)
  <1>1. IsFiniteSet(contacts)
    BY DEF ContactInv, ContactTypes
  <1>2. IsFiniteSet(contacts') /\ Cardinality(contacts') <= Cardinality(contacts)
    BY <1>1, RewritingAddsNone
  <1>3. Cardinality(contacts') \in Nat /\ Cardinality(contacts) \in Nat
    BY <1>1, <1>2, FS_CardinalityType
  <1>4. IdsDiffer'
    BY DEF ContactInv, IdsDiffer
  <1> QED BY <1>2, <1>3, <1>4

\* The limit, by what a step does to the contacts and to those being made.
LEMMA LimitStep ==
  ASSUME ContactBounds, ContactInv, NEW r \in BookRequests, NEW q \in BookRequest,
         contactRequest' = [contactRequest EXCEPT ![r] = q],
         \/ contactRequest[r].pc = "idle" /\ ContactBook!Overlap
         \/ contactRequest[r].pc # "idle" /\ overlapped' = overlapped,
         IsFiniteSet(contacts'),
         \/ /\ Cardinality(contacts') <= Cardinality(contacts)
            /\ q.pc \in {"demote", "insert"} => r \in InMaking \/
               (ContactBook!HasRoom /\ contacts' = contacts)
         \/ /\ Cardinality(contacts') <= Cardinality(contacts) + 1
            /\ r \in InMaking /\ q.pc \notin {"demote", "insert"}
  PROVE  LimitIsKept'
  <1> DEFINE n == Cardinality(contacts)
             m == Cardinality(contacts')
             j == Cardinality(InMaking)
             k == Cardinality(InMaking')
             R == Cardinality(BookRequests)
  <1>1. n \in Nat /\ m \in Nat
    BY FS_CardinalityType DEF ContactInv, ContactTypes
  <1>2. /\ j \in Nat /\ k \in Nat /\ k <= R /\ R \in Nat /\ R >= 1
        /\ r \in InMaking /\ q.pc \in {"demote", "insert"} => k = j
        /\ r \notin InMaking /\ q.pc \notin {"demote", "insert"} => k = j
        /\ r \notin InMaking /\ q.pc \in {"demote", "insert"} => k = j + 1
        /\ r \in InMaking /\ q.pc \notin {"demote", "insert"} => j = k + 1
    BY MakingCounts
  <1>3. overlapped \in BOOLEAN /\ BookMax \in Nat /\ n + j <= BookMax + Slack
    BY DEF ContactInv, ContactTypes, ContactBounds, LimitIsKept
  <1>4. Slack' = (IF overlapped' THEN R - 1 ELSE 0) /\ Slack = (IF overlapped THEN R - 1 ELSE 0)
    BY DEF Slack
  <1>5. overlapped => overlapped'
    BY DEF ContactBook!Overlap
  <1>6. Slack \in Nat /\ Slack' \in Nat /\ Slack <= Slack'
    BY <1>2, <1>4, <1>5
  <1>7. ASSUME ContactBook!HasRoom, r \notin InMaking, contacts' = contacts, q.pc \in {"demote", "insert"}
        PROVE  m + k <= BookMax + Slack'
    <2>1. m = n /\ n + 1 <= BookMax
      BY <1>1, <1>3, <1>7, BookCounts DEF ContactBook!HasRoom
    <2>2. CASE overlapped'
      BY <1>1, <1>2, <1>3, <1>4, <2>1, <2>2
    <2>3. CASE ~overlapped'
      <3>1. InMaking = {}
        <4>1. CASE contactRequest[r].pc = "idle" /\ ContactBook!Overlap
          BY <2>3, <4>1 DEF ContactBook!Overlap, ContactBook!Quiet, InMaking
        <4>2. CASE contactRequest[r].pc # "idle" /\ overlapped' = overlapped
          BY <1>7, <2>3, <4>2 DEF ContactInv, PrimaryIsPrepared, OneAtWork, InMaking
        <4> QED BY <4>1, <4>2
      <3>2. j = 0
        BY <3>1, FS_EmptySet
      <3> QED BY <1>1, <1>2, <1>3, <1>4, <1>7, <2>1, <2>3, <3>2
    <2> QED BY <2>2, <2>3
  <1>8. CASE /\ m <= n /\ (q.pc \in {"demote", "insert"} => r \in InMaking)
    <2>1. k <= j
      BY <1>2, <1>8
    <2> QED BY <1>1, <1>2, <1>3, <1>6, <1>8, <2>1 DEF LimitIsKept
  <1>9. CASE m <= n + 1 /\ r \in InMaking /\ q.pc \notin {"demote", "insert"}
    <2>1. j = k + 1
      BY <1>2, <1>9
    <2> QED BY <1>1, <1>2, <1>3, <1>6, <1>9, <2>1 DEF LimitIsKept
  <1> QED BY <1>7, <1>8, <1>9 DEF LimitIsKept

\* A request takes its next step: what is left to show of each action.
LEMMA ContactRequestStep ==
  ASSUME ContactBounds, ContactInv, NEW r \in BookRequests, NEW q \in BookRequest,
         contactRequest' = [contactRequest EXCEPT ![r] = q],
         \/ contactRequest[r].pc = "idle" /\ ContactBook!Overlap
         \/ contactRequest[r].pc # "idle" /\ overlapped' = overlapped,
         failed => failed', failed' \in BOOLEAN, made' \in 0..BookMaxMade,
         contacts' \subseteq ContactBook!EmergencyContact, IsFiniteSet(contacts'), IdsDiffer',
         \/ /\ Cardinality(contacts') <= Cardinality(contacts)
            /\ q.pc \in {"demote", "insert"} => r \in InMaking \/
               (ContactBook!HasRoom /\ contacts' = contacts)
         \/ /\ Cardinality(contacts') <= Cardinality(contacts) + 1
            /\ r \in InMaking /\ q.pc \notin {"demote", "insert"},
         ~overlapped' /\ ~failed' /\ Prepared(contactRequest[r]) => Prepared(q)'
  PROVE  ContactInv'
  <1>1. LimitIsKept'
    BY LimitStep
  <1>2. ~overlapped' /\ ~failed' => Prepared(q)'
    BY AloneIsPrepared
  <1>3. PrimaryIsPrepared'
    BY <1>2, OneRequestSteps
  <1>4. ContactTypes'
    <2>1. overlapped' \in BOOLEAN
      BY DEF ContactBook!Overlap, ContactInv, ContactTypes
    <2>2. contactRequest' \in [BookRequests -> BookRequest]
      BY DEF ContactInv, ContactTypes
    <2> QED BY <2>1, <2>2 DEF ContactTypes
  <1> QED BY <1>1, <1>3, <1>4 DEF ContactInv

\* A step that leaves the contacts alone.
LEMMA QuietStep ==
  ASSUME ContactBounds, ContactInv, NEW r \in BookRequests, NEW q \in BookRequest,
         contactRequest' = [contactRequest EXCEPT ![r] = q],
         \/ contactRequest[r].pc = "idle" /\ ContactBook!Overlap
         \/ contactRequest[r].pc # "idle" /\ overlapped' = overlapped,
         failed => failed', failed' \in BOOLEAN, UNCHANGED <<contacts, made>>,
         q.pc \in {"demote", "insert"} => r \in InMaking \/ ContactBook!HasRoom,
         ~overlapped' /\ ~failed' /\ Prepared(contactRequest[r]) => Prepared(q)'
  PROVE  ContactInv'
  <1>1. /\ contacts' \subseteq ContactBook!EmergencyContact /\ IsFiniteSet(contacts') /\
           made' \in 0..BookMaxMade /\ IdsDiffer'
        /\ contacts' = contacts
    BY DEF ContactInv, ContactTypes, IdsDiffer
  <1>2. Cardinality(contacts) \in Nat
    BY FS_CardinalityType DEF ContactInv, ContactTypes
  <1>3. Cardinality(contacts') <= Cardinality(contacts)
    BY <1>1, <1>2
  <1> QED BY <1>1, <1>3, ContactRequestStep

LEMMA ContactInvBegins == ContactBounds /\ ContactBook!Init => ContactInv
  <1> SUFFICES ASSUME ContactBounds, ContactBook!Init PROVE ContactInv
    OBVIOUS
  <1>1. ContactBook!Idle \in BookRequest /\ ContactBook!Idle.pc = "idle"
    <2>1. (CHOOSE p \in BookPhones : TRUE) \in BookPhones
      BY DEF ContactBounds
    <2> QED BY <2>1 DEF ContactBook!Idle, BookRequest
  <1>2. contacts = {} /\ IsFiniteSet({}) /\ Cardinality({}) = 0
    BY FS_EmptySet DEF ContactBook!Init
  <1>3. ContactTypes
    <2>1. contactRequest \in [BookRequests -> BookRequest]
      BY <1>1 DEF ContactBook!Init
    <2>2. made = 0 /\ overlapped = FALSE /\ failed = FALSE
      BY DEF ContactBook!Init
    <2>4. 0 \in 0..BookMaxMade
      BY DEF ContactBounds
    <2>3. contacts \subseteq ContactBook!EmergencyContact /\ IsFiniteSet(contacts)
      BY <1>2
    <2> QED BY <2>1, <2>2, <2>3, <2>4 DEF ContactTypes
  <1>4. \A r \in BookRequests : contactRequest[r].pc = "idle"
    BY <1>1 DEF ContactBook!Init
  <1>5. InMaking = {}
    BY <1>4 DEF InMaking
  <1>6. Cardinality(InMaking) = 0 /\ Cardinality(contacts) = 0
    BY <1>2, <1>5
  <1>7. ~overlapped
    BY DEF ContactBook!Init
  <1>8. LimitIsKept
    BY <1>6, <1>7 DEF LimitIsKept, Slack, ContactBounds
  <1>9. PrimaryIsPrepared /\ IdsDiffer
    BY <1>2, <1>4 DEF PrimaryIsPrepared, OneAtWork, IdsDiffer
  <1> QED BY <1>3, <1>8, <1>9 DEF ContactInv

LEMMA IdleIsARequest == ContactBounds => ContactBook!Idle \in BookRequest /\
      ContactBook!Idle.pc = "idle" /\ ContactBook!Idle.id = 0 /\ ContactBook!Idle.tries = 0
  <1>1. ContactBounds => (CHOOSE p \in BookPhones : TRUE) \in BookPhones
    BY DEF ContactBounds
  <1> QED BY <1>1 DEF ContactBook!Idle, BookRequest

LEMMA ContactsAreTyped ==
  ASSUME ContactInv, NEW c \in contacts
  PROVE  c \in ContactBook!EmergencyContact /\ c.id \in 1..BookMaxMade /\ c.phone \in BookPhones /\
         c.primary \in BOOLEAN
  BY DEF ContactInv, ContactTypes, ContactBook!EmergencyContact

LEMMA ContactInvStep == ASSUME ContactBounds, ContactInv, [ContactBook!Next]_(ContactBook!contactVars)
                        PROVE  ContactInv'
  <1>0. ContactTypes
    BY DEF ContactInv
  <1>1. ASSUME NEW r \in BookRequests, ContactBook!Create(r) PROVE ContactInv'
    <2>1. PICK phone \in BookPhones, primary \in BOOLEAN :
            LET makePrimary == primary \/ contacts = {} IN
            ContactBook!Goes(r, [ContactBook!Idle EXCEPT !.pc = IF makePrimary THEN "demote" ELSE "insert",
                                 !.phone = phone, !.primary = makePrimary])
      BY <1>1 DEF ContactBook!Create
    <2> DEFINE make == primary \/ contacts = {}
    <2>0. PICK q : q = [ContactBook!Idle EXCEPT !.pc = IF make THEN "demote" ELSE "insert", !.phone = phone, !.primary = make]
      OBVIOUS
    <2>2. contactRequest' = [contactRequest EXCEPT ![r] = q]
      BY <2>0, <2>1 DEF ContactBook!Goes
    <2>3. contactRequest[r].pc = "idle" /\ ContactBook!Overlap /\ ContactBook!HasRoom /\
          UNCHANGED <<contacts, made, failed>>
      BY <1>1 DEF ContactBook!Create
    <2>4. make \in BOOLEAN
      OBVIOUS
    <2>5. q \in BookRequest /\ q.pc = (IF make THEN "demote" ELSE "insert") /\ q.primary = make
      <3> HIDE DEF make
      <3> QED BY <2>0, <2>4, IdleIsARequest DEF BookRequest
    <2>6. Prepared(contactRequest[r]) => Prepared(q)'
      <3>1. ASSUME Prepared(contactRequest[r]), ~make PROVE HasOne
        BY <2>3, <3>1 DEF Prepared
      <3>2. CASE make
        BY <2>5, <3>2 DEF Prepared
      <3>3. CASE ~make
        <4>1. ASSUME Prepared(contactRequest[r]) PROVE HasOne'
          BY <2>3, <3>1, <3>3, <4>1 DEF HasOne
        <4> QED BY <2>5, <3>3, <4>1 DEF Prepared
      <3> QED BY <3>2, <3>3
    <2>7. failed' \in BOOLEAN /\ (failed => failed')
      BY <1>0, <2>3 DEF ContactTypes
    <2>8. q.pc \in {"demote", "insert"} => r \in InMaking \/ ContactBook!HasRoom
      BY <2>3
    <2> HIDE DEF make
    <2> QED BY <2>2, <2>3, <2>5, <2>6, <2>7, <2>8, QuietStep
  <1>2. ASSUME NEW r \in BookRequests, ContactBook!CreateDemotes(r) PROVE ContactInv'
    <2>0. PICK q : q = [contactRequest[r] EXCEPT !.pc = "insert"]
      OBVIOUS
    <2> DEFINE f == [c \in contacts |-> IF c.id = 0 THEN c ELSE [c EXCEPT !.primary = FALSE]]
    <2>1. contactRequest' = [contactRequest EXCEPT ![r] = q] /\ contactRequest[r].pc = "demote" /\
          UNCHANGED <<made, overlapped, failed>>
      BY <1>2, <2>0 DEF ContactBook!CreateDemotes, ContactBook!Goes
    <2>2. q \in BookRequest /\ q.pc = "insert" /\ q.primary = contactRequest[r].primary
      BY <1>0, <2>0 DEF ContactTypes, BookRequest
    <2>3. contacts' = {f[c] : c \in contacts}
      BY <1>2 DEF ContactBook!CreateDemotes, ContactBook!Demoted
    <2>4. ASSUME NEW c \in contacts
          PROVE  f[c] \in ContactBook!EmergencyContact /\ f[c].id = c.id /\ ~f[c].primary
      <3>1. f[c] = [c EXCEPT !.primary = FALSE]
        BY ContactsAreTyped
      <3> QED BY <3>1, ContactsAreTyped DEF ContactBook!EmergencyContact
    <2> HIDE DEF f
    <2>5. /\ contacts' \subseteq ContactBook!EmergencyContact /\ IsFiniteSet(contacts') /\ IdsDiffer'
          /\ Cardinality(contacts') <= Cardinality(contacts)
      BY <2>1, <2>3, <2>4, ContactsAreRewritten
    <2>6. \A c \in contacts' : ~c.primary
      BY <2>3, <2>4
    <2>7. Prepared(contactRequest[r]) => Prepared(q)'
      BY <2>1, <2>2, <2>6 DEF Prepared, NoPrimary
    <2>8. r \in InMaking
      BY <2>1 DEF InMaking
    <2>9. made' \in 0..BookMaxMade /\ failed' \in BOOLEAN /\ (failed => failed') /\ overlapped' = overlapped
      BY <1>0, <2>1 DEF ContactTypes
    <2> QED BY <2>1, <2>2, <2>5, <2>7, <2>8, <2>9, ContactRequestStep
  <1>3. ASSUME NEW r \in BookRequests, ContactBook!CreateInserts(r) PROVE ContactInv'
    <2> DEFINE new == [id |-> made + 1, phone |-> contactRequest[r].phone, primary |-> contactRequest[r].primary]
               taken == (\E c \in contacts : c.phone = contactRequest[r].phone) \/
               (contactRequest[r].primary /\ ContactBook!Primaries # {})
    <2>1. contactRequest' = [contactRequest EXCEPT ![r] = ContactBook!Idle] /\
          contactRequest[r].pc = "insert" /\ overlapped' = overlapped /\ made < BookMaxMade
      BY <1>3 DEF ContactBook!CreateInserts, ContactBook!Done
    <2>2. ContactBook!Idle \in BookRequest /\ ContactBook!Idle.pc = "idle"
      BY IdleIsARequest
    <2>3. CASE taken
      <3>1. contacts' = contacts /\ made' = made /\ failed' = (failed \/ contactRequest[r].primary)
        BY <1>3, <2>3 DEF ContactBook!CreateInserts
      <3>2. contactRequest[r].primary \in BOOLEAN /\ failed \in BOOLEAN
        BY <1>0 DEF ContactTypes, BookRequest
      <3>3. failed' \in BOOLEAN /\ (failed => failed')
        BY <3>1, <3>2
      <3>4. ~failed' /\ Prepared(contactRequest[r]) => Prepared(ContactBook!Idle)'
        BY <2>1, <2>2, <3>1 DEF Prepared, HasOne
      <3> QED BY <2>1, <2>2, <3>1, <3>3, <3>4, QuietStep
    <2>4. CASE ~taken
      <3>1. contacts' = contacts \cup {new} /\ made' = made + 1 /\ failed' = failed
        BY <1>3, <2>4 DEF ContactBook!CreateInserts
      <3>2. contactRequest[r].phone \in BookPhones /\ contactRequest[r].primary \in BOOLEAN /\
            made \in 0..BookMaxMade /\ BookMaxMade \in Nat
        BY <1>0 DEF ContactTypes, BookRequest, ContactBounds
      <3>3. made + 1 \in 1..BookMaxMade
        BY <2>1, <3>2
      <3>4. new \in ContactBook!EmergencyContact /\ new.id = made + 1 /\
            new.primary = contactRequest[r].primary
        BY <3>2, <3>3 DEF ContactBook!EmergencyContact
      <3> HIDE DEF new
      <3>5. contacts' \subseteq ContactBook!EmergencyContact
        BY <1>0, <3>1, <3>4 DEF ContactTypes
      <3>6. IsFiniteSet(contacts') /\ Cardinality(contacts') <= Cardinality(contacts) + 1
        <4>1. new \notin contacts
          BY <3>2, <3>4 DEF ContactInv, IdsDiffer
        <4>2. IsFiniteSet(contacts)
          BY <1>0 DEF ContactTypes
        <4>3. Cardinality(contacts) \in Nat
          BY <4>2, FS_CardinalityType
        <4>4. IsFiniteSet(contacts \cup {new}) /\
              Cardinality(contacts \cup {new}) = Cardinality(contacts) + 1
          BY <4>1, <4>2, FS_AddElement
        <4> QED BY <3>1, <4>3, <4>4
      <3>7. IdsDiffer'
        <4>1. \A c \in contacts : c.id \in Nat /\ c.id <= made
          BY ContactsAreTyped DEF ContactInv, IdsDiffer
        <4>2. \A c, d \in contacts : c.id = d.id => c = d
          BY DEF ContactInv, IdsDiffer
        <4> QED BY <3>1, <3>2, <3>4, <4>1, <4>2 DEF IdsDiffer
      <3>8. Prepared(contactRequest[r]) => Prepared(ContactBook!Idle)'
        <4>1. ASSUME Prepared(contactRequest[r]) PROVE HasOne'
          <5>1. CASE contactRequest[r].primary
            <6>1. NoPrimary
              BY <2>1, <4>1, <5>1 DEF Prepared
            <6> QED BY <3>1, <3>4, <5>1, <6>1 DEF HasOne, NoPrimary
          <5>2. CASE ~contactRequest[r].primary
            <6>1. HasOne
              BY <2>1, <4>1, <5>2 DEF Prepared
            <6> QED BY <3>1, <3>4, <5>2, <6>1 DEF HasOne
          <5> QED BY <5>1, <5>2
        <4> QED BY <2>2, <4>1 DEF Prepared
      <3>9. r \in InMaking /\ made' \in 0..BookMaxMade /\ failed' \in BOOLEAN /\ (failed => failed')
        BY <1>0, <2>1, <3>1, <3>2, <3>3 DEF InMaking, ContactTypes
      <3> QED BY <2>1, <2>2, <3>5, <3>6, <3>7, <3>8, <3>9, ContactRequestStep
    <2> QED BY <2>3, <2>4
  <1>4. ASSUME NEW r \in BookRequests, ContactBook!Update(r) PROVE ContactInv'
    <2>1. PICK c \in contacts, phone \in BookPhones, primary \in BOOLEAN :
            ContactBook!Goes(r, [pc |-> "save", id |-> c.id, phone |-> phone, primary |-> primary /\ ~c.primary, tries |-> 0])
      BY <1>4 DEF ContactBook!Update
    <2> DEFINE makes == primary /\ ~c.primary
    <2>0. PICK q : q = [pc |-> "save", id |-> c.id, phone |-> phone, primary |-> makes, tries |-> 0]
      OBVIOUS
    <2>2. contactRequest' = [contactRequest EXCEPT ![r] = q]
      BY <2>0, <2>1 DEF ContactBook!Goes
    <2>3. contactRequest[r].pc = "idle" /\ ContactBook!Overlap /\ UNCHANGED <<contacts, made, failed>>
      BY <1>4 DEF ContactBook!Update
    <2>4. makes \in BOOLEAN /\ c.id \in Nat
      BY ContactsAreTyped
    <2>5. q \in BookRequest /\ q.pc = "save"
      <3> HIDE DEF makes
      <3> QED BY <2>0, <2>4 DEF BookRequest
    <2> HIDE DEF makes
    <2>6. Prepared(contactRequest[r]) => Prepared(q)'
      BY <2>3, <2>5 DEF Prepared, HasOne
    <2>7. failed' \in BOOLEAN /\ (failed => failed')
      BY <1>0, <2>3 DEF ContactTypes
    <2> QED BY <2>2, <2>3, <2>5, <2>6, <2>7, QuietStep
  <1>5. ASSUME NEW r \in BookRequests, ContactBook!UpdateSaves(r) PROVE ContactInv'
    <2> DEFINE mine == {c \in contacts : c.id = contactRequest[r].id}
               moved == {[c EXCEPT !.phone = contactRequest[r].phone] : c \in mine}
               rejected == mine = {} \/ \E c \in contacts \ mine : c.phone = contactRequest[r].phone
    <2>1. contactRequest[r].pc = "save" /\ UNCHANGED <<made, overlapped, failed>>
      BY <1>5 DEF ContactBook!UpdateSaves
    <2>2. failed' \in BOOLEAN /\ (failed => failed') /\ made' \in 0..BookMaxMade
      BY <1>0, <2>1 DEF ContactTypes
    <2>3. CASE rejected
      <3>1. contactRequest' = [contactRequest EXCEPT ![r] = ContactBook!Idle] /\ contacts' = contacts
        BY <1>5, <2>3 DEF ContactBook!UpdateSaves, ContactBook!Done
      <3>2. Prepared(contactRequest[r]) => Prepared(ContactBook!Idle)'
        BY <2>1, <3>1, IdleIsARequest DEF Prepared, HasOne
      <3> QED BY <2>1, <2>2, <3>1, <3>2, QuietStep, IdleIsARequest
    <2>4. CASE ~rejected
      <3>0. PICK q : q = (IF contactRequest[r].primary THEN [contactRequest[r] EXCEPT !.pc = "demote others"] ELSE ContactBook!Idle)
        OBVIOUS
      <3>1. contactRequest' = [contactRequest EXCEPT ![r] = q] /\ contacts' = (contacts \ mine) \cup moved
        BY <1>5, <2>4, <3>0 DEF ContactBook!UpdateSaves, ContactBook!Goes, ContactBook!Done
      <3>2. contactRequest[r] \in BookRequest
        BY <1>0 DEF ContactTypes
      <3>3. q \in BookRequest /\ (q.pc = "idle" \/ (q.pc = "demote others" /\ q.id = contactRequest[r].id))
        BY <3>0, <3>2, IdleIsARequest DEF BookRequest
      <3> DEFINE f == [c \in contacts |-> IF c.id = contactRequest[r].id THEN [c EXCEPT !.phone = contactRequest[r].phone] ELSE c]
      <3>4. contacts' = {f[c] : c \in contacts}
        <4>1. moved = {f[c] : c \in mine} /\ contacts \ mine = {f[c] : c \in contacts \ mine}
          OBVIOUS
        <4>2. contacts = mine \cup (contacts \ mine)
          OBVIOUS
        <4> HIDE DEF f, moved, mine
        <4> QED BY <3>1, <4>1, <4>2
      <3>5. ASSUME NEW c \in contacts
            PROVE  f[c] \in ContactBook!EmergencyContact /\ f[c].id = c.id /\ f[c].primary = c.primary
        BY <3>2, ContactsAreTyped DEF ContactBook!EmergencyContact, BookRequest
      <3>6. \E c \in contacts : c.id = contactRequest[r].id
        BY <2>4
      <3> HIDE DEF f, mine, moved, rejected
      <3>7. /\ contacts' \subseteq ContactBook!EmergencyContact /\ IsFiniteSet(contacts') /\ IdsDiffer'
            /\ Cardinality(contacts') <= Cardinality(contacts)
        BY <2>1, <3>4, <3>5, ContactsAreRewritten
      <3>8. HasOne => HasOne'
        BY <3>4, <3>5 DEF HasOne
      <3>9. \E c \in contacts' : c.id = contactRequest[r].id
        BY <3>4, <3>5, <3>6
      <3>10. Prepared(contactRequest[r]) => Prepared(q)'
        BY <2>1, <3>3, <3>8, <3>9 DEF Prepared
      <3>11. q.pc \notin {"demote", "insert"}
        BY <3>3
      <3> QED BY <2>1, <2>2, <3>1, <3>3, <3>7, <3>10, <3>11, ContactRequestStep
    <2> QED BY <2>3, <2>4
  <1>6. ASSUME NEW r \in BookRequests, ContactBook!Remove(r) PROVE ContactInv'
    <2>1. PICK c \in contacts :
            /\ contacts' = contacts \ {c}
            /\ IF ContactBook!Promotes(c) THEN ContactBook!Goes(r, [ContactBook!Idle EXCEPT !.pc = "next"]) ELSE ContactBook!Done(r)
      BY <1>6 DEF ContactBook!Remove
    <2>2. contactRequest[r].pc = "idle" /\ ContactBook!Overlap /\ UNCHANGED <<made, failed>>
      BY <1>6 DEF ContactBook!Remove
    <2>3. failed' \in BOOLEAN /\ (failed => failed') /\ made' \in 0..BookMaxMade
      BY <1>0, <2>2 DEF ContactTypes
    <2>0. PICK q : q = (IF c.primary THEN [ContactBook!Idle EXCEPT !.pc = "next"] ELSE ContactBook!Idle)
      OBVIOUS
    <2>4. contactRequest' = [contactRequest EXCEPT ![r] = q]
      BY <2>0, <2>1 DEF ContactBook!Goes, ContactBook!Done, ContactBook!Promotes
    <2>5. q \in BookRequest /\ q.pc = (IF c.primary THEN "next" ELSE "idle")
      BY <2>0, IdleIsARequest DEF BookRequest
    <2>6. contacts' \subseteq ContactBook!EmergencyContact /\ IdsDiffer'
      BY <1>0, <2>1, <2>2 DEF ContactTypes, ContactInv, IdsDiffer
    <2>7. IsFiniteSet(contacts') /\ Cardinality(contacts') <= Cardinality(contacts)
      <3>1. IsFiniteSet(contacts) /\ contacts' \subseteq contacts
        BY <1>0, <2>1 DEF ContactTypes
      <3> QED BY <3>1, FS_Subset
    <2>8. Prepared(contactRequest[r]) => Prepared(q)'
      <3>1. ASSUME Prepared(contactRequest[r]) PROVE HasOne
        BY <2>1, <2>2, <3>1 DEF Prepared
      <3>2. CASE c.primary
        <4>1. ASSUME HasOne PROVE NoPrimary'
          BY <2>1, <3>2, <4>1 DEF HasOne, NoPrimary
        <4> QED BY <2>5, <3>1, <3>2, <4>1 DEF Prepared
      <3>3. CASE ~c.primary
        <4>1. ASSUME HasOne PROVE HasOne'
          BY <2>1, <3>3, <4>1 DEF HasOne
        <4> QED BY <2>5, <3>1, <3>3, <4>1 DEF Prepared
      <3> QED BY <3>2, <3>3
    <2>9. q.pc \notin {"demote", "insert"}
      BY <2>5
    <2> QED BY <2>2, <2>3, <2>4, <2>5, <2>6, <2>7, <2>8, <2>9, ContactRequestStep
  <1>7. ASSUME NEW r \in BookRequests, ContactBook!RemoveFindsNext(r) PROVE ContactInv'
    <2>1. contactRequest[r].pc = "next" /\ UNCHANGED <<contacts, made, overlapped, failed>>
      BY <1>7 DEF ContactBook!RemoveFindsNext
    <2>2. failed' \in BOOLEAN /\ (failed => failed')
      BY <1>0, <2>1 DEF ContactTypes
    <2>3. CASE contacts = {}
      <3>1. contactRequest' = [contactRequest EXCEPT ![r] = ContactBook!Idle]
        BY <1>7, <2>3 DEF ContactBook!RemoveFindsNext, ContactBook!Done
      <3>2. Prepared(ContactBook!Idle)'
        BY <2>1, <2>3, IdleIsARequest DEF Prepared
      <3> QED BY <2>1, <2>2, <3>1, <3>2, QuietStep, IdleIsARequest
    <2>4. CASE contacts # {}
      <3> DEFINE ids == {c.id : c \in contacts}
      <3>0. PICK q : q = [ContactBook!Idle EXCEPT !.pc = "demote others", !.id = ContactBook!Min(ids)]
        OBVIOUS
      <3>1. contactRequest' = [contactRequest EXCEPT ![r] = q]
        BY <1>7, <2>4, <3>0 DEF ContactBook!RemoveFindsNext, ContactBook!Goes
      <3>2. ids \subseteq Nat /\ ids # {}
        BY <2>4, ContactsAreTyped
      <3>3. ContactBook!Min(ids) \in ids
        <4> HIDE DEF ids
        <4>1. \E x \in ids : \A y \in ids : x <= y
          BY <3>2, Least
        <4> QED BY <4>1 DEF ContactBook!Min
      <3>4. q \in BookRequest /\ q.pc = "demote others" /\ q.id = ContactBook!Min(ids)
        <4> HIDE DEF ids
        <4> QED BY <3>0, <3>2, <3>3, IdleIsARequest DEF BookRequest
      <3>5. \E c \in contacts : c.id = q.id
        BY <3>3, <3>4
      <3>6. Prepared(q)'
        BY <2>1, <3>4, <3>5 DEF Prepared
      <3> QED BY <2>1, <2>2, <3>1, <3>4, <3>6, QuietStep
    <2> QED BY <2>3, <2>4
  <1>8. ASSUME NEW r \in BookRequests, ContactBook!SetPrimaryDemotes(r) PROVE ContactInv'
    <2>0. PICK q : q = [contactRequest[r] EXCEPT !.pc = "promote"]
      OBVIOUS
    <2> DEFINE f == [c \in contacts |-> IF c.id = contactRequest[r].id THEN c ELSE [c EXCEPT !.primary = FALSE]]
    <2>1. contactRequest' = [contactRequest EXCEPT ![r] = q] /\ contactRequest[r].pc = "demote others" /\
          UNCHANGED <<made, overlapped, failed>>
      BY <1>8, <2>0 DEF ContactBook!SetPrimaryDemotes, ContactBook!Goes
    <2>2. q \in BookRequest /\ q.pc = "promote" /\ q.id = contactRequest[r].id
      BY <1>0, <2>0 DEF ContactTypes, BookRequest
    <2>3. contacts' = {f[c] : c \in contacts}
      BY <1>8 DEF ContactBook!SetPrimaryDemotes, ContactBook!Demoted
    <2>4. ASSUME NEW c \in contacts
          PROVE  f[c] \in ContactBook!EmergencyContact /\ f[c].id = c.id /\
                 (f[c].primary => c.id = contactRequest[r].id)
      BY ContactsAreTyped DEF ContactBook!EmergencyContact
    <2> HIDE DEF f
    <2>5. /\ contacts' \subseteq ContactBook!EmergencyContact /\ IsFiniteSet(contacts') /\ IdsDiffer'
          /\ Cardinality(contacts') <= Cardinality(contacts)
      BY <2>1, <2>3, <2>4, ContactsAreRewritten
    <2>6. \A c \in contacts' : c.primary => c.id = q.id
      BY <2>2, <2>3, <2>4
    <2>7. ASSUME Prepared(contactRequest[r]) PROVE \E c \in contacts' : c.id = q.id
      <3>1. PICK c \in contacts : c.id = contactRequest[r].id
        BY <2>1, <2>7 DEF Prepared
      <3>2. f[c] \in contacts' /\ f[c].id = q.id
        BY <2>2, <2>3, <2>4, <3>1
      <3> QED BY <3>2
    <2>8. Prepared(contactRequest[r]) => Prepared(q)'
      BY <2>2, <2>6, <2>7 DEF Prepared
    <2>9. made' \in 0..BookMaxMade /\ failed' \in BOOLEAN /\ (failed => failed') /\
          q.pc \notin {"demote", "insert"}
      BY <1>0, <2>1, <2>2 DEF ContactTypes
    <2> QED BY <2>1, <2>2, <2>5, <2>8, <2>9, ContactRequestStep
  <1>9. ASSUME NEW r \in BookRequests, ContactBook!SetPrimaryPromotes(r) PROVE ContactInv'
    <2> DEFINE mine == {c \in contacts : c.id = contactRequest[r].id}
               raised == {[c EXCEPT !.primary = TRUE] : c \in mine}
               rejected == mine # {} /\ ContactBook!Primaries \ mine # {}
    <2>1. contactRequest[r].pc = "promote" /\ UNCHANGED <<made, overlapped, failed>>
      BY <1>9 DEF ContactBook!SetPrimaryPromotes
    <2>2. failed' \in BOOLEAN /\ (failed => failed') /\ made' \in 0..BookMaxMade /\ overlapped' = overlapped
      BY <1>0, <2>1 DEF ContactTypes
    <2>10. contactRequest[r] \in BookRequest
      BY <1>0 DEF ContactTypes
    <2>3. CASE rejected
      <3>0. PICK q : q = IF contactRequest[r].tries < 2 THEN [contactRequest[r] EXCEPT !.pc = "demote others", !.tries = @ + 1] ELSE ContactBook!Idle
        OBVIOUS
      <3>1. contactRequest' = [contactRequest EXCEPT ![r] = q] /\ contacts' = contacts
        BY <1>9, <2>3, <3>0 DEF ContactBook!SetPrimaryPromotes, ContactBook!Goes, ContactBook!Done
      <3>2. q \in BookRequest /\ q.pc \notin {"demote", "insert"}
        <4>0. contactRequest[r].tries \in Nat
          BY <2>10 DEF BookRequest
        <4>1. contactRequest[r].tries + 1 \in Nat
          BY <4>0
        <4> QED BY <2>10, <3>0, <4>1, IdleIsARequest DEF BookRequest
      <3>3. ~Prepared(contactRequest[r])
        BY <2>1, <2>3 DEF Prepared, ContactBook!Primaries
      <3> QED BY <2>1, <2>2, <3>1, <3>2, <3>3, QuietStep
    <2>4. CASE ~rejected
      <3>1. contactRequest' = [contactRequest EXCEPT ![r] = ContactBook!Idle] /\
            contacts' = (contacts \ mine) \cup raised
        BY <1>9, <2>4 DEF ContactBook!SetPrimaryPromotes, ContactBook!Done
      <3> DEFINE f == [c \in contacts |-> IF c.id = contactRequest[r].id THEN [c EXCEPT !.primary = TRUE] ELSE c]
      <3>4. contacts' = {f[c] : c \in contacts}
        <4>1. raised = {f[c] : c \in mine} /\ contacts \ mine = {f[c] : c \in contacts \ mine}
          OBVIOUS
        <4>2. contacts = mine \cup (contacts \ mine)
          OBVIOUS
        <4> HIDE DEF f, raised, mine
        <4> QED BY <3>1, <4>1, <4>2
      <3>5. ASSUME NEW c \in contacts
            PROVE  /\ f[c] \in ContactBook!EmergencyContact /\ f[c].id = c.id
                   /\ f[c].primary => c.primary \/ c.id = contactRequest[r].id
                   /\ c.id = contactRequest[r].id => f[c].primary
        BY ContactsAreTyped DEF ContactBook!EmergencyContact
      <3> HIDE DEF f, raised
      <3>7. /\ contacts' \subseteq ContactBook!EmergencyContact /\ IsFiniteSet(contacts') /\ IdsDiffer'
            /\ Cardinality(contacts') <= Cardinality(contacts)
        BY <2>1, <3>4, <3>5, ContactsAreRewritten
      <3>8. ASSUME Prepared(contactRequest[r]) PROVE HasOne'
        <4>1. PICK c \in contacts : c.id = contactRequest[r].id
          BY <2>1, <3>8 DEF Prepared
        <4>2. \A d \in contacts : d.primary \/ d.id = contactRequest[r].id => d = c
          BY <2>1, <3>8, <4>1 DEF Prepared, ContactInv, IdsDiffer
        <4>3. f[c] \in contacts' /\ f[c].primary
          BY <3>4, <3>5, <4>1
        <4>4. ASSUME NEW d \in contacts', d.primary PROVE d = f[c]
          <5>1. PICK e \in contacts : d = f[e]
            BY <3>4
          <5>2. e.primary \/ e.id = contactRequest[r].id
            BY <3>5, <4>4, <5>1
          <5> QED BY <4>2, <5>1, <5>2
        <4> QED BY <4>3, <4>4 DEF HasOne
      <3>9. Prepared(contactRequest[r]) => Prepared(ContactBook!Idle)'
        BY <3>8, IdleIsARequest DEF Prepared
      <3> QED BY <2>1, <2>2, <3>1, <3>7, <3>9, ContactRequestStep, IdleIsARequest
    <2> QED BY <2>3, <2>4
  <1>10. CASE UNCHANGED ContactBook!contactVars
    <2>1. UNCHANGED <<contacts, made, contactRequest, overlapped, failed>>
      BY <1>10 DEF ContactBook!contactVars
    <2>2. ContactTypes' /\ IdsDiffer'
      BY <2>1 DEF ContactInv, ContactTypes, IdsDiffer
    <2>3. LimitIsKept'
      BY <2>1 DEF ContactInv, LimitIsKept, InMaking, Slack
    <2>4. PrimaryIsPrepared'
      BY <2>1 DEF ContactInv, PrimaryIsPrepared, OneAtWork, ContactBook!Quiet, HasOne, Prepared,
                  NoPrimary
    <2> QED BY <2>2, <2>3, <2>4 DEF ContactInv
  <1> QED BY <1>1, <1>2, <1>3, <1>4, <1>5, <1>6, <1>7, <1>8, <1>9, <1>10 DEF ContactBook!Next

LEMMA ContactInvHolds ==
  ContactBounds /\ ContactInv => ContactBook!TypeOK /\ ContactBook!OnePrimaryUnlessRefused /\
  ContactBook!LimitSlipsByTheRace
  <1> SUFFICES ASSUME ContactBounds, ContactInv
               PROVE  ContactBook!TypeOK /\ ContactBook!OnePrimaryUnlessRefused /\
                      ContactBook!LimitSlipsByTheRace
    OBVIOUS
  <1>1. ContactBook!TypeOK
    BY DEF ContactInv, ContactTypes, ContactBook!TypeOK
  <1>2. ContactBook!OnePrimaryUnlessRefused
    <2> SUFFICES ASSUME ~overlapped, ~failed, ContactBook!Quiet, contacts # {}
                 PROVE  Cardinality(ContactBook!Primaries) = 1
      BY BookCounts DEF ContactBook!OnePrimaryUnlessRefused, ContactBook!ExactlyOnePrimary
    <2>1. HasOne
      BY DEF ContactInv, PrimaryIsPrepared
    <2>2. PICK c \in contacts : c.primary /\ \A d \in contacts : d.primary => d = c
      BY <2>1 DEF HasOne
    <2>3. ContactBook!Primaries = {c}
      BY <2>2 DEF ContactBook!Primaries
    <2> QED BY <2>3, FS_Singleton
  <1>3. ContactBook!LimitSlipsByTheRace
    <2>1. IsFiniteSet(InMaking)
      BY FS_Subset DEF InMaking, ContactBounds
    <2>2. Cardinality(InMaking) \in Nat /\ Cardinality(contacts) \in Nat /\
          Cardinality(BookRequests) \in Nat
      BY <2>1, FS_CardinalityType DEF ContactInv, ContactTypes, ContactBounds
    <2>3. Cardinality(contacts) + Cardinality(InMaking) <= BookMax + Slack
      BY DEF ContactInv, LimitIsKept
    <2> QED BY <2>2, <2>3, BookCounts DEF ContactBook!LimitSlipsByTheRace, Slack, ContactBounds
  <1> QED BY <1>1, <1>2, <1>3

-----------------------------------------------------------------------------
Off == "off"   \* the state of the services this behaviour is not of

\* Of two requests that differ by name only and both rest, the first begins: renaming the
\* requests from there on gives the behaviours in which the second does.
InTurn(of, a, b) == of[a].pc = "idle" /\ of[b].pc = "idle" => of'[b].pc = "idle"
\* A bound, of parts a theorem covers: the second request is followed only for as long as
\* the first is under way.
Beside(of, a, b) == of[a].pc = "idle" => of[b].pc = "idle"

FormRole == [f \in {"f1", "f2", "f3"} |-> IF f = "f2" THEN "CUSTOMER" ELSE "DRIVER"]

\* The third message, of a second window, overlaps no other request.
ThirdSendAlone == sends = 3 /\ windows = 2 => call["p2"].pc = "idle"

\* At most two of the presses, the safety team and the alert round are at work together, and the
\* second incident meets no crash.
FewActors ==
  /\ Cardinality({p \in {"p1", "p2"} : press[p] # "idle"})
       + Cardinality({a \in {"s1", "s2"} : desk[a].pc # "idle"})
       + (IF round.pc = "idle" THEN 0 ELSE 1) <= 2
  /\ Len(incidents) = 2 => crashes = 0 /\ rounds <= 2

\* Two handlers whose drafts overlap.
TwoBatches == [h1 |-> <<"n1", "n2">>, h2 |-> <<"n2">>]
PhoneOfToken == [t \in {"t1", "t2", "t3"} |-> IF t = "t3" THEN "p2" ELSE "p1"]

\* No more contacts are asked for than can be made; beside three, requests do not overlap.
RoomToInsert ==
  /\ made + Cardinality({r \in {"r1", "r2"} : contactRequest[r].pc \in {"demote", "insert"}}) <= 3
  /\ made = 3 => \E r \in {"r1", "r2"} : contactRequest[r].pc = "idle"

\* Beside a third session, one ticket is enough.
FewTickets == session[3] # "none" => tickets <= 1

\* One token dies, and after a push has been read; then the registrations before it are over.
OneDead ==
  /\ Cardinality(dead) <= 1
  /\ phoneCount.deliveries = 1 =>
       \A q \in {"q1", "q2"} : phoneRequest[q].pc \in {"idle", "replace"}
  /\ dead # {} => phoneCount.deliveries = 1

\* A photo that is just square enough, and one that is a byte too large.
PhotosTried ==
  [ok |-> [bytes |-> 5, width |-> 128, height |-> 64, image |-> TRUE],
   large |-> [bytes |-> 6, width |-> 128, height |-> 128, image |-> TRUE]]
PhotoLimits == [maxBytes |-> 5, minSide |-> 64, maxSide |-> 4096, minAspect |-> 50, maxAspect |-> 200]
\* Of two uploads, the migration and the erasure, two are under way together.
TwoAtWork ==
  Cardinality({p \in {"p1", "p2"} : fileCall[p].pc # "idle"})
    + (IF mover["g1"].pc \in {"idle", "done"} THEN 0 ELSE 1)
    + (IF erasure.pc \in {"idle", "done"} THEN 0 ELSE 1) <= 2

Deletion == INSTANCE AccountDeletion WITH
  Instances <- {"i1", "i2"}, Roles <- {"CUSTOMER", "DRIVER"}, MaxStarts <- 2, MaxEnds <- 1,
    MaxBlocks <- 1, status <- delStatus, admin <- delAdmin, blocks <- delBlocks

Changes == INSTANCE DriverChanges WITH
  Drivers <- {"p1"}, Admins <- {"a1", "a2"}, MaxFiles <- 4, MaxErrors <- 1, call <- changeCall

Kyc == INSTANCE Onboarding WITH
  Calls <- {"p1", "p2"}, Vehicles <- {1, 2}, MaxUploads <- 2, MaxMoves <- 4, stored <- kycStored,
    call <- kycCall

Photos == INSTANCE StoredFiles WITH
  Requests <- {"p1", "p2"}, Movers <- {"g1"}, Rows <- <<>>, Pictures <- PhotosTried,
    Rule <- PhotoLimits, Old <- "old", HasPhoto <- TRUE, Erasable <- TRUE, MaxFiles <- 3,
    MaxFailures <- 1, stored <- fileStored, content <- fileContent, files <- fileCount,
    photo <- photoRow, shown <- photoShown, row <- fileRow, latest <- latestFile, call <- fileCall,
    erase <- erasure, raced <- photoRaced, leaked <- fileLeaked, unsure <- fileUnsure,
    failures <- fileFailures

Moved == INSTANCE StoredFiles WITH
  Requests <- {"p1"}, Movers <- {"g1", "g2"}, Rows <- <<"document", "request">>,
    Pictures <- PhotosTried, Rule <- PhotoLimits, Old <- "old", HasPhoto <- FALSE,
    Erasable <- FALSE, MaxFiles <- 3, MaxFailures <- 0, stored <- fileStored,
    content <- fileContent, files <- fileCount, photo <- photoRow, shown <- photoShown,
    row <- fileRow, latest <- latestFile, call <- fileCall, erase <- erasure, raced <- photoRaced,
    leaked <- fileLeaked, unsure <- fileUnsure, failures <- fileFailures

otpSendsVars == <<quota, windowOver, cooled, otp, otpExpired, call, sends, windows, docs,
  delivered, guesses, wins>>
signUpVars == <<pending, pendingOver, code, fresh, user, profile, sessions, step, codes,
  signUpDocs, begun>>
signInVars == <<status, session, proof, ticket, request, admin, tickets, resets, blocks, redeemed>>
deletionVars == <<role, delStatus, erased, ride, owed, online, start, deletion, rechecked, restore,
  delAdmin, cache, lookup, starts, ends, delBlocks>>
sosVars == <<incidents, links, press, desk, queue, round, recent, confirmed, forgot, revoked,
  rounds, crashes>>
changeVars == <<requests, live, stored, files, changeCall, applied, unsure, raced, undeleted,
  refused, errors>>
onboardingVars == <<driverStatus, documents, vehicles, kycStored, kycCall, torn, crossed, denied,
  uploads, moves>>
ratingVars == <<paid, over, ratings, sum, count, tap, rebuilt, feedbackErrors, feedbackTickets,
  filer, feedbackDesk, shown, feedbackCrossed, updates>>
contactVars == <<contacts, made, contactRequest, overlapped, failed>>
bulkVars == <<broadcast, edit, sender, noted, blocked, past>>
phonesVars == <<token, phoneRequest, delivery, dead, phoneCount>>
noticesVars == <<noticeRide, events, heard, notes, record, batch, deliver, active, pushed, counts,
  app, tally>>
photosVars == <<fileStored, fileContent, fileCount, photoRow, photoShown, fileRow, latestFile,
  fileCall, mover, erasure, photoRaced, fileLeaked, fileUnsure, fileFailures>>

OtpSendsOff == quota = Off /\ windowOver = Off /\ cooled = Off /\ otp = Off /\ otpExpired = Off /\
  call = Off /\ sends = Off /\ windows = Off /\ docs = Off /\ delivered = Off /\ guesses = Off /\
  wins = Off
SignUpOff == pending = Off /\ pendingOver = Off /\ code = Off /\ fresh = Off /\ user = Off /\
  profile = Off /\ sessions = Off /\ step = Off /\ codes = Off /\ signUpDocs = Off /\ begun = Off
SignInOff == status = Off /\ session = Off /\ proof = Off /\ ticket = Off /\ request = Off /\
  admin = Off /\ tickets = Off /\ resets = Off /\ blocks = Off /\ redeemed = Off
DeletionOff == role = Off /\ delStatus = Off /\ erased = Off /\ ride = Off /\ owed = Off /\
  online = Off /\ start = Off /\ deletion = Off /\ rechecked = Off /\ restore = Off /\
  delAdmin = Off /\ cache = Off /\ lookup = Off /\ starts = Off /\ ends = Off /\ delBlocks = Off
SosOff == incidents = Off /\ links = Off /\ press = Off /\ desk = Off /\ queue = Off /\
  round = Off /\ recent = Off /\ confirmed = Off /\ forgot = Off /\ revoked = Off /\
  rounds = Off /\ crashes = Off
ChangeOff == requests = Off /\ live = Off /\ stored = Off /\ files = Off /\ changeCall = Off /\
  applied = Off /\ unsure = Off /\ raced = Off /\ undeleted = Off /\ refused = Off /\
  errors = Off
OnboardingOff == driverStatus = Off /\ documents = Off /\ vehicles = Off /\ kycStored = Off /\
  kycCall = Off /\ torn = Off /\ crossed = Off /\ denied = Off /\ uploads = Off /\
  moves = Off
RatingOff == paid = Off /\ over = Off /\ ratings = Off /\ sum = Off /\ count = Off /\ tap = Off /\
  rebuilt = Off /\ feedbackErrors = Off /\ feedbackTickets = Off /\ filer = Off /\
  feedbackDesk = Off /\ shown = Off /\ feedbackCrossed = Off /\ updates = Off
ContactOff == contacts = Off /\ made = Off /\ contactRequest = Off /\ overlapped = Off /\
  failed = Off
BulkOff == broadcast = Off /\ edit = Off /\ sender = Off /\ noted = Off /\ blocked = Off /\
  past = Off
PhonesOff == token = Off /\ phoneRequest = Off /\ delivery = Off /\ dead = Off /\ phoneCount = Off
NoticesOff == noticeRide = Off /\ events = Off /\ heard = Off /\ notes = Off /\ record = Off /\
  batch = Off /\ deliver = Off /\ active = Off /\ pushed = Off /\ counts = Off /\ app = Off /\
  tally = Off
PhotosOff == fileStored = Off /\ fileContent = Off /\ fileCount = Off /\ photoRow = Off /\
  photoShown = Off /\ fileRow = Off /\ latestFile = Off /\ fileCall = Off /\ mover = Off /\
  erasure = Off /\ photoRaced = Off /\ fileLeaked = Off /\ fileUnsure = Off /\ fileFailures = Off

Init ==
  \/ part = "otpSends" /\ OtpSends!Init /\ SignUpOff /\ SignInOff /\ DeletionOff /\ SosOff /\
    ChangeOff /\ OnboardingOff /\ RatingOff /\ ContactOff /\ BulkOff /\ PhonesOff /\ NoticesOff /\
    PhotosOff
  \/ part = "otpChecks" /\ OtpChecks!Init /\ SignUpOff /\ SignInOff /\ DeletionOff /\ SosOff /\
    ChangeOff /\ OnboardingOff /\ RatingOff /\ ContactOff /\ BulkOff /\ PhonesOff /\ NoticesOff /\
    PhotosOff
  \/ part = "signUp" /\ SignUps!Init /\ OtpSendsOff /\ SignInOff /\ DeletionOff /\ SosOff /\
    ChangeOff /\ OnboardingOff /\ RatingOff /\ ContactOff /\ BulkOff /\ PhonesOff /\ NoticesOff /\
    PhotosOff
  \/ part = "signIn" /\ SignIns!Init /\ OtpSendsOff /\ SignUpOff /\ DeletionOff /\ SosOff /\
    ChangeOff /\ OnboardingOff /\ RatingOff /\ ContactOff /\ BulkOff /\ PhonesOff /\ NoticesOff /\
    PhotosOff
  \/ part = "deletion" /\ Deletion!Init /\ OtpSendsOff /\ SignUpOff /\ SignInOff /\ SosOff /\
    ChangeOff /\ OnboardingOff /\ RatingOff /\ ContactOff /\ BulkOff /\ PhonesOff /\ NoticesOff /\
    PhotosOff
  \/ part = "sos" /\ SosDesk!Init /\ OtpSendsOff /\ SignUpOff /\ SignInOff /\ DeletionOff /\
    ChangeOff /\ OnboardingOff /\ RatingOff /\ ContactOff /\ BulkOff /\ PhonesOff /\ NoticesOff /\
    PhotosOff
  \/ part = "change" /\ Changes!Init /\ OtpSendsOff /\ SignUpOff /\ SignInOff /\ DeletionOff /\
    SosOff /\ OnboardingOff /\ RatingOff /\ ContactOff /\ BulkOff /\ PhonesOff /\ NoticesOff /\
    PhotosOff
  \/ part = "onboarding" /\ Kyc!Init /\ OtpSendsOff /\ SignUpOff /\ SignInOff /\ DeletionOff /\
    SosOff /\ ChangeOff /\ RatingOff /\ ContactOff /\ BulkOff /\ PhonesOff /\ NoticesOff /\
    PhotosOff
  \/ part = "rating" /\ RatingDesk!Init /\ OtpSendsOff /\ SignUpOff /\ SignInOff /\ DeletionOff /\
    SosOff /\ ChangeOff /\ OnboardingOff /\ ContactOff /\ BulkOff /\ PhonesOff /\ NoticesOff /\
    PhotosOff
  \/ part = "complaint" /\ ComplaintDesk!Init /\ OtpSendsOff /\ SignUpOff /\ SignInOff /\
    DeletionOff /\ SosOff /\ ChangeOff /\ OnboardingOff /\ ContactOff /\ BulkOff /\ PhonesOff /\
    NoticesOff /\ PhotosOff
  \/ part = "contact" /\ ContactBook!Init /\ OtpSendsOff /\ SignUpOff /\ SignInOff /\
    DeletionOff /\ SosOff /\ ChangeOff /\ OnboardingOff /\ RatingOff /\ BulkOff /\ PhonesOff /\
    NoticesOff /\ PhotosOff
  \/ part = "bulk" /\ Bulk!Init /\ OtpSendsOff /\ SignUpOff /\ SignInOff /\ DeletionOff /\
    SosOff /\ ChangeOff /\ OnboardingOff /\ RatingOff /\ ContactOff /\ PhonesOff /\ NoticesOff /\
    PhotosOff
  \/ part = "phones" /\ TokenDesk!Init /\ OtpSendsOff /\ SignUpOff /\ SignInOff /\ DeletionOff /\
    SosOff /\ ChangeOff /\ OnboardingOff /\ RatingOff /\ ContactOff /\ BulkOff /\ NoticesOff /\
    PhotosOff
  \/ part = "notices" /\ Notices!Init /\ OtpSendsOff /\ SignUpOff /\ SignInOff /\ DeletionOff /\
    SosOff /\ ChangeOff /\ OnboardingOff /\ RatingOff /\ ContactOff /\ BulkOff /\ PhonesOff /\
    PhotosOff
  \/ part = "centre" /\ Centre!Init /\ OtpSendsOff /\ SignUpOff /\ SignInOff /\ DeletionOff /\
    SosOff /\ ChangeOff /\ OnboardingOff /\ RatingOff /\ ContactOff /\ BulkOff /\ PhonesOff /\
    PhotosOff
  \/ part = "pushes" /\ Pushes!Init /\ OtpSendsOff /\ SignUpOff /\ SignInOff /\ DeletionOff /\
    SosOff /\ ChangeOff /\ OnboardingOff /\ RatingOff /\ ContactOff /\ BulkOff /\ PhonesOff /\
    PhotosOff
  \/ part = "photos" /\ Photos!Init /\ OtpSendsOff /\ SignUpOff /\ SignInOff /\ DeletionOff /\
    SosOff /\ ChangeOff /\ OnboardingOff /\ RatingOff /\ ContactOff /\ BulkOff /\ PhonesOff /\
    NoticesOff
  \/ part = "moved" /\ Moved!Init /\ OtpSendsOff /\ SignUpOff /\ SignInOff /\ DeletionOff /\
    SosOff /\ ChangeOff /\ OnboardingOff /\ RatingOff /\ ContactOff /\ BulkOff /\ PhonesOff /\
    NoticesOff

Next ==
  \/ /\ part = "otpSends" /\ OtpSends!Next
     /\ UNCHANGED <<part, signUpVars, signInVars, deletionVars, sosVars, changeVars,
       onboardingVars, ratingVars, contactVars, bulkVars, phonesVars, noticesVars, photosVars>>
  \/ /\ part = "otpChecks" /\ OtpChecks!Next
     /\ UNCHANGED <<part, signUpVars, signInVars, deletionVars, sosVars, changeVars,
       onboardingVars, ratingVars, contactVars, bulkVars, phonesVars, noticesVars, photosVars>>
  \/ /\ part = "signUp" /\ SignUps!Next
     /\ UNCHANGED <<part, otpSendsVars, signInVars, deletionVars, sosVars, changeVars,
       onboardingVars, ratingVars, contactVars, bulkVars, phonesVars, noticesVars, photosVars>>
  \/ /\ part = "signIn" /\ SignIns!Next
     /\ UNCHANGED <<part, otpSendsVars, signUpVars, deletionVars, sosVars, changeVars,
       onboardingVars, ratingVars, contactVars, bulkVars, phonesVars, noticesVars, photosVars>>
  \/ /\ part = "deletion" /\ Deletion!Next
     /\ UNCHANGED <<part, otpSendsVars, signUpVars, signInVars, sosVars, changeVars,
       onboardingVars, ratingVars, contactVars, bulkVars, phonesVars, noticesVars, photosVars>>
  \/ /\ part = "sos" /\ SosDesk!Next
     /\ UNCHANGED <<part, otpSendsVars, signUpVars, signInVars, deletionVars, changeVars,
       onboardingVars, ratingVars, contactVars, bulkVars, phonesVars, noticesVars, photosVars>>
  \/ /\ part = "change" /\ Changes!Next
     /\ UNCHANGED <<part, otpSendsVars, signUpVars, signInVars, deletionVars, sosVars,
       onboardingVars, ratingVars, contactVars, bulkVars, phonesVars, noticesVars, photosVars>>
  \/ /\ part = "onboarding" /\ Kyc!Next
     /\ UNCHANGED <<part, otpSendsVars, signUpVars, signInVars, deletionVars, sosVars, changeVars,
       ratingVars, contactVars, bulkVars, phonesVars, noticesVars, photosVars>>
  \/ /\ part = "rating" /\ RatingDesk!Next
     /\ UNCHANGED <<part, otpSendsVars, signUpVars, signInVars, deletionVars, sosVars, changeVars,
       onboardingVars, contactVars, bulkVars, phonesVars, noticesVars, photosVars>>
  \/ /\ part = "complaint" /\ ComplaintDesk!Next
     /\ UNCHANGED <<part, otpSendsVars, signUpVars, signInVars, deletionVars, sosVars, changeVars,
       onboardingVars, contactVars, bulkVars, phonesVars, noticesVars, photosVars>>
  \/ /\ part = "contact" /\ ContactBook!Next
     /\ UNCHANGED <<part, otpSendsVars, signUpVars, signInVars, deletionVars, sosVars, changeVars,
       onboardingVars, ratingVars, bulkVars, phonesVars, noticesVars, photosVars>>
  \/ /\ part = "bulk" /\ Bulk!Next
     /\ UNCHANGED <<part, otpSendsVars, signUpVars, signInVars, deletionVars, sosVars, changeVars,
       onboardingVars, ratingVars, contactVars, phonesVars, noticesVars, photosVars>>
  \/ /\ part = "phones" /\ TokenDesk!Next
     /\ UNCHANGED <<part, otpSendsVars, signUpVars, signInVars, deletionVars, sosVars, changeVars,
       onboardingVars, ratingVars, contactVars, bulkVars, noticesVars, photosVars>>
  \/ /\ part = "notices" /\ Notices!Next
     /\ UNCHANGED <<part, otpSendsVars, signUpVars, signInVars, deletionVars, sosVars, changeVars,
       onboardingVars, ratingVars, contactVars, bulkVars, phonesVars, photosVars>>
  \/ /\ part = "centre" /\ Centre!Next
     /\ UNCHANGED <<part, otpSendsVars, signUpVars, signInVars, deletionVars, sosVars, changeVars,
       onboardingVars, ratingVars, contactVars, bulkVars, phonesVars, photosVars>>
  \/ /\ part = "pushes" /\ Pushes!Next
     /\ UNCHANGED <<part, otpSendsVars, signUpVars, signInVars, deletionVars, sosVars, changeVars,
       onboardingVars, ratingVars, contactVars, bulkVars, phonesVars, photosVars>>
  \/ /\ part = "photos" /\ Photos!Next
     /\ UNCHANGED <<part, otpSendsVars, signUpVars, signInVars, deletionVars, sosVars, changeVars,
       onboardingVars, ratingVars, contactVars, bulkVars, phonesVars, noticesVars>>
  \/ /\ part = "moved" /\ Moved!Next
     /\ UNCHANGED <<part, otpSendsVars, signUpVars, signInVars, deletionVars, sosVars, changeVars,
       onboardingVars, ratingVars, contactVars, bulkVars, phonesVars, noticesVars>>

vars == <<part, otpSendsVars, signUpVars, signInVars, deletionVars, sosVars, changeVars,
  onboardingVars, ratingVars, contactVars, bulkVars, phonesVars, noticesVars, photosVars>>

Spec == Init /\ [][Next]_vars

FairSpec ==
  /\ Spec
  /\ \A i \in {"i1", "i2"} : WF_deletionVars(part = "deletion" /\ Deletion!CacheExpires(i))
  /\ \A i \in {"i1", "i2"} : WF_deletionVars(part = "deletion" /\ Deletion!Answer(i))
  /\ WF_deletionVars(part = "deletion" /\ Deletion!Delete)

\* What bounds the instances beyond their constants: behaviours that leave these states are cut.
Bounds ==
  /\ part = "otpSends" => Beside(call, "p1", "p2") /\ ThirdSendAlone
  /\ part = "otpChecks" => Beside(call, "v1", "v2")
  /\ part = "signIn" => FewTickets /\ Beside(request, "p1", "p2")
  /\ part = "sos" => FewActors /\ Beside(desk, "s1", "s2")
  /\ part = "rating" => Beside(tap, "t1", "t2")
  /\ part = "complaint" => Beside(feedbackDesk, "a1", "a2")
  /\ part = "contact" => RoomToInsert /\ Beside(contactRequest, "r1", "r2")
  /\ part = "bulk" => Beside(sender, "s1", "s2")
  /\ part = "phones" => OneDead /\ Beside(phoneRequest, "q1", "q2")
  /\ part = "photos" => TwoAtWork

\* Who begins, of two requests alike: no behaviour is lost but for its names.
Turns ==
  /\ part = "change" => InTurn(changeCall, "a1", "a2")
  /\ part = "onboarding" => InTurn(kycCall, "p1", "p2")
  /\ part = "photos" => InTurn(fileCall, "p1", "p2")
  /\ part = "moved" => InTurn(mover, "g1", "g2")

\* However requests overlap and fail, and across a window's end, no window delivers
\* more messages than OTP_MAX_SENDS_PER_WINDOW (reserveSend, releaseSend).
\* "Attempts are counted atomically before the comparison, so parallel guesses cannot
\* exceed OTP_MAX_ATTEMPTS" (otp.service.ts:58).
\* "Exactly one request can win a correct code" (otp.service.ts:256).
\* A resend overwrites the hash, so a code verifies nothing once a newer one is
\* written, however far its verification had come (otp.service.ts:55).
OneTimeCodesHold ==
  /\ [](part = "otpSends" =>
       OtpSends!TypeOK /\ OtpSends!WindowsKeepTheCap)
  /\ [](part = "otpChecks" =>
       OtpChecks!TypeOK /\ OtpChecks!GuessesFit /\ OtpChecks!OneWinner)
  /\ [][part = "otpChecks" => OtpChecks!ReplacedCodesLoseStep]_vars

\* A stranger who submits a form for the number "cannot slip their own password under
\* the owner's code" (pending-signup.schema.ts:10): the account is the owner's form.
\* "No half-made driver accounts" (signup.service.ts:285): a driver's account without a
\* profile is still in the hands of the handler that makes it or takes it back.
\* Whoever was signed in at the end of a sign-up has the account: of two forms of the
\* owner verified together, the one that lost the number gets no session.
SignUpHolds ==
  /\ part = "signUp" =>
    SignUps!TypeOK /\ SignUps!AccountIsTheOwners /\ SignUps!NoHalfMadeDriver /\
      SignUps!SessionsHaveTheAccount

\* "The token is claimed atomically, so it works exactly once even when two requests
\* race" (password-reset.service.ts:111).
\* A request that has met only a blocked account opens no session, by any of the ways
\* to sign in, to refresh or to reset (auth.service.ts:90, 113).
SessionsHold ==
  /\ [](part = "signIn" =>
       SignIns!TypeOK /\ SignIns!TicketsWorkOnce)
  /\ [][part = "signIn" => SignIns!BlockedOpenNothingStep]_vars

\* "A ride booked between the check above and the claim is caught here"
\* (account-deletion.service.ts:153): data is erased only if every ride begun before
\* the second check was over by then.
\* "From here on every guard (access token check, ride booking, going online) sees a
\* DELETED user" (account-deletion.service.ts:136): while the claim stands, no booking
\* and no goOnline passes its guard.
\* An admin's block is never turned into a deletion by a request that checked before.
\* The photo a row refers to exists and is the picture its version, the key clients cache it by,
\* names; uploads, removals and runs of the migration may overlap in any order.
\* When nothing is under way every file is one that a row refers to, unless a write or a delete
\* failed, an instance stopped, or a file was replaced by one that its remover had not seen.
\* When nothing is under way the person's path names the photo's version, unless two changes
\* overlapped or one was cut short.
DeletionHolds ==
  /\ [](part = "deletion" =>
       Deletion!TypeOK /\ Deletion!EarlyRidesAreCaught)
  /\ [][part = "deletion" => Deletion!GuardsSeeTheClaimStep]_vars
  /\ [][part = "deletion" => Deletion!BlockedIsNotDeletedStep]_vars
  /\ [](part = "photos" =>
       Photos!TypeOK /\ Photos!PhotoIsWhatItSays /\ Photos!NothingIsLeftBehind /\
         Photos!ShownIsTheirs)

\* In every instance, an account that is no longer ACTIVE is let in by a cached answer
\* for at most that answer's life, also when a lookup raced the invalidation.
LockIsFelt ==
  \A i \in {"i1", "i2"} : (part = "deletion" /\ Deletion!Locked(i)) ~> (part = "deletion" /\ ~Deletion!Locked(i))

\* However often SOS is pressed, and by however many requests at once, one incident is open
\* (sos-event.schema.ts:217 "Repeated presses while an alert is open update it").
\* A contact WhatsApp has reached is not alerted again ("a re-press must not
\* double-message", sos-contact-alert.service.ts:77), unless the process died before
\* recording it or the log was cut.
\* Once the closing of an incident has revoked its links, the only one that still opens is
\* one a round made after the incident was closed (sos.service.ts:430 "the contacts' live
\* link stops working").
\* Two admins at once never move an incident backward nor re-open it
\* (sos-lifecycle.ts:18 "never backward, and a closed incident stays closed").
\* It is lost in no other way than by a refused request or by requests that overlap.
\* Only requests that overlap pass the limit, by at most one contact for each of them but one.
SafetyHolds ==
  /\ [](part = "sos" =>
       SosDesk!TypeOK /\ SosDesk!OneOpenIncident /\ SosDesk!AlertedOnce /\
         SosDesk!ClosedLinksAreDead)
  /\ [][part = "sos" => SosDesk!NeverBackwardStep]_vars
  /\ [](part = "contact" =>
       ContactBook!TypeOK /\ ContactBook!OnePrimaryUnlessRefused /\
         ContactBook!LimitSlipsByTheRace)


\* A ride is rated once, also by taps that race, and only when it was paid for.
\* "Concurrent ratings for the same driver can never lose each other's stars"
\* (ratings.service.ts:320), nor count them twice, unless a rebuild crosses another rating.
\* The timeline the user sees is a path of the workflow that ends in the present status,
\* however many admins act on the ticket together.
\* A resolved ticket tells the user why: whichever admin's update came last.
\* A ride has one open ticket of a category, but for filings that raced and tickets reopened.
FeedbackHolds ==
  /\ part = "rating" =>
    RatingDesk!TypeOK /\ RatingDesk!OneRatingPerRide /\ RatingDesk!StarsAddUp
  /\ part = "complaint" =>
    ComplaintDesk!TypeOK /\ ComplaintDesk!TimelineIsThePath /\
      ComplaintDesk!ResolvedIsExplained /\ ComplaintDesk!OneOpenTicket

\* Everybody who hears of a broadcast hears the wording it was claimed with, once, although edits
\* that were read before the claim are written after it and several senders may overlap.
\* A broadcast that is cancelled reached nobody (cancel against sendNow and runDue).
\* A broadcast that is SENT reached every account that is not blocked by then: a sender that resumes
\* from another's cursor, or from one a slow sender moved back, leaves nobody out.  Only a record
\* that failed can be missing.
\* The count agrees with the cursor it is stored with, so it is the number of recipients once the
\* broadcast is SENT, whichever sender wrote last (deliver).
\* When no registration is in flight a phone has one active token at most, so after an account
\* switch or a token refresh nobody else's pushes reach it, although two registrations of one
\* phone may each retire the other's token (register).
\* Nor does an account then hold more active tokens than the limit, although each registration
\* trims what it read some time ago (enforceLimit).
\* Whoever ends a ride is not told of it (the plan's rule), also when the ride had moved between
\* drivers before.
\* Once every event is handled, the others who are on an ended ride have heard how it ended, in
\* whatever order the events were handled.
\* Every state a ride was committed in is told apart: a driver offered the ride twice is asked
\* twice, and a payment that fails again is told again (the version in the key).
\* The badge settles on the number of unread notifications: every record and every reading is
\* followed by a number counted after it, unless a failure ate it or the last number sent had
\* been counted before a write whose own number overtook it (publishUnreadCount and deliver do
\* not wait for each other).
\* A record is the last thing lost: whatever was announced or pushed is in the centre.
\* A person is told of an event once, on each phone, however many handlers replay it and whatever
\* fails in between (the unique dedupe key; nothing pushes a record again).
\* What is stored of a push is what happened to it: SENT, PARTIAL and FAILED count the phones it
\* reached, SKIPPED and NO_DEVICES reached none, and a push that reached a phone is PENDING only
\* if its delivery was cut short.
MessagesHold ==
  /\ part = "bulk" =>
    Bulk!TypeOK /\ Bulk!OneWording /\ Bulk!CancelledReachesNobody /\
      Bulk!SentReachesEveryone /\ Bulk!CountIsOfTheCursor
  /\ part = "phones" =>
    TokenDesk!TypeOK /\ TokenDesk!OneTokenPerPhone /\ TokenDesk!LimitHolds
  /\ part = "notices" =>
    Notices!TypeOK /\ Notices!CauserIsNotTold /\ Notices!EndIsHeard /\ Notices!EveryOfferIsHeard
  /\ part = "centre" =>
    Centre!TypeOK /\ Centre!BadgeSettles /\ Centre!RecordComesFirst
  /\ part = "pushes" =>
    Pushes!TypeOK /\ Pushes!PushedOnce /\ Pushes!StatusIsTrue

-----------------------------------------------------------------------------
(* Proofs about the composition, for any number of actors, any bounds, and the behaviours that
   Bounds cuts off too. *)

SignUpPart == part = "signUp" => SignUpInv
SignInPart == part = "signIn" => SignInInv
OtpPart ==
  /\ part = "otpSends" => OtpSends!OtpInv
  /\ part = "otpChecks" => OtpChecks!OtpInv
\* A desk has no business of the other's.
FeedbackPart ==
  /\ part = "rating" => RatingInv /\ feedbackTickets = <<>> /\ shown = <<>>
  /\ part = "complaint" => TicketInv /\ ratings = {} /\ sum = 0 /\ count = 0

MessagesPart ==
  /\ part = "bulk" => BroadcastInv
  /\ part = "phones" => TokenInv
  /\ part = "notices" => Notices!NoticesInv
  /\ part = "centre" => Centre!NoticesInv
  /\ part = "pushes" => Pushes!NoticesInv

SosPart == part = "sos" => SosInv
ContactPart == part = "contact" => ContactInv

\* A behaviour stays with its service, whose steps it takes.
LEMMA PartStays ==
  Next => /\ part' = part
          /\ part = "signUp" => SignUps!Next
          /\ part = "signIn" => SignIns!Next
          /\ part = "otpSends" => OtpSends!Next
          /\ part = "otpChecks" => OtpChecks!Next
          /\ part = "rating" => RatingDesk!Next
          /\ part = "complaint" => ComplaintDesk!Next
          /\ part = "bulk" => Bulk!Next
          /\ part = "phones" => TokenDesk!Next
          /\ part = "notices" => Notices!Next
          /\ part = "centre" => Centre!Next
          /\ part = "pushes" => Pushes!Next
          /\ part = "sos" => SosDesk!Next
          /\ part = "contact" => ContactBook!Next
  BY DEF Next

LEMMA SignUpPartHolds == Spec => []SignUpPart
  <1>1. Init => SignUpPart
    BY FormsAreForms, SignUpBegins DEF Init, SignUpPart
  <1>2. SignUpPart /\ [Next]_vars => SignUpPart'
    <2>1. SignUpPart /\ Next => SignUpPart'
      BY PartStays, FormsAreForms, SignUpStep DEF SignUpPart
    <2>2. SignUpPart /\ UNCHANGED vars => SignUpPart'
      BY FormsAreForms, SignUpStep DEF SignUpPart, vars, signUpVars, SignUps!signUpVars,
         SignUps!accountVars, SignUps!pendingVars, SignUps!codeVars
    <2> QED BY <2>1, <2>2
  <1> QED BY <1>1, <1>2, PTL DEF Spec

\* Every sign-up keeps what SignupService promises: the account is the owner's, no driver's account
\* is left half made, and only its form is signed in.
THEOREM SignUpsAreSafe == Spec => []SignUpHolds
  <1>1. SignUpPart => SignUpHolds
    BY SignUpShows DEF SignUpPart, SignUpHolds
  <1> QED BY <1>1, SignUpPartHolds, PTL

LEMMA SignInPartHolds == Spec => []SignInPart
  <1>1. Init => SignInPart
    BY SignInBounds, SignInBegins DEF Init, SignInPart
  <1>2. SignInPart /\ [Next]_vars => SignInPart'
    <2>1. SignInPart /\ Next => SignInPart'
      BY SignInBounds, PartStays, SignInStep DEF SignInPart
    <2>2. SignInPart /\ UNCHANGED vars => SignInPart'
      BY SignInBounds, SignInStep DEF SignInPart, vars, signInVars, SignIns!sessionVars,
         SignIns!reqVars
    <2> QED BY <2>1, <2>2
  <1> QED BY <1>1, <1>2, PTL DEF Spec

\* Whatever signs in, resets, refreshes and blocks at the same time, a reset ticket works once and
\* a request that met only a blocked account opens no session (PasswordResetService, AuthService).
THEOREM SignInsAreSafe == Spec => SessionsHold
  <1>1. SignInPart => (part = "signIn" => SignIns!TypeOK /\ SignIns!TicketsWorkOnce)
    BY SignInBounds, SignInShows DEF SignInPart
  <1>2. SignInPart => (part = "signIn" => SignIns!BlockedOpenNothingStep)
    BY SignInBounds, SignInShows DEF SignInPart
  <1> QED BY <1>1, <1>2, SignInPartHolds, PTL DEF Spec, SessionsHold

LEMMA OtpPartHolds == Spec => []OtpPart
  <1>1. Init => OtpPart
    BY OtpSlotsAndLimits, OtpSends!OtpBegins, OtpChecks!OtpBegins DEF Init, OtpPart
  <1>2. OtpPart /\ [Next]_vars => OtpPart'
    <2>1. OtpPart /\ Next => OtpPart'
      BY PartStays, OtpSlotsAndLimits, OtpSends!OtpStep, OtpChecks!OtpStep DEF OtpPart
    <2>2. UNCHANGED vars => UNCHANGED OtpSends!otpVars /\ UNCHANGED OtpChecks!otpVars /\ part' = part
      BY DEF vars, otpSendsVars, OtpSends!otpVars, OtpSends!quotaVars, OtpSends!codeVars,
             OtpSends!seen, OtpChecks!otpVars, OtpChecks!quotaVars, OtpChecks!codeVars,
             OtpChecks!seen
    <2>3. OtpPart /\ UNCHANGED vars => OtpPart'
      BY <2>2, OtpSlotsAndLimits, OtpSends!OtpStep, OtpChecks!OtpStep DEF OtpPart
    <2> QED BY <2>1, <2>3
  <1> QED BY <1>1, <1>2, PTL DEF Spec

\* No window delivers more messages than its cap, a code is compared at most OTP_MAX_ATTEMPTS times
\* and won once, and never after a newer one was stored, whichever requests to send and to verify
\* overlap, fail or die (OtpService).
THEOREM OneTimeCodesAreSafe == Spec => OneTimeCodesHold
  <1>1. OtpPart => (part = "otpSends" => OtpSends!TypeOK /\ OtpSends!WindowsKeepTheCap)
    BY OtpSlotsAndLimits, OtpSends!OtpShows DEF OtpPart
  <1>2. OtpPart => (part = "otpChecks" =>
                      OtpChecks!TypeOK /\ OtpChecks!GuessesFit /\ OtpChecks!OneWinner)
    BY OtpSlotsAndLimits, OtpChecks!OtpShows DEF OtpPart
  <1>3. OtpPart /\ [Next]_vars => [part = "otpChecks" => OtpChecks!ReplacedCodesLoseStep]_vars
    BY OtpSlotsAndLimits, PartStays, OtpChecks!OnlyTheCodeWins DEF OtpPart
  <1> QED BY <1>1, <1>2, <1>3, OtpPartHolds, PTL DEF Spec, OneTimeCodesHold

LEMMA FeedbackPartHolds == Spec => []FeedbackPart
  <1>1. Init => FeedbackPart
    <2>1. RatingDesk!Init => feedbackTickets = <<>> /\ shown = <<>>
      BY DEF RatingDesk!Init
    <2>2. ComplaintDesk!Init => ratings = {} /\ sum = 0 /\ count = 0
      BY DEF ComplaintDesk!Init
    <2> QED BY <2>1, <2>2, RateableRides, RatingBegins, TicketBegins DEF Init, FeedbackPart
  <1>2. FeedbackPart /\ [Next]_vars => FeedbackPart'
    <2>1. /\ RatingDesk!Next => [RatingDesk!RatingNext]_(RatingDesk!ratingVars)
                                  /\ UNCHANGED <<feedbackTickets, shown>>
          /\ ComplaintDesk!Next => [ComplaintDesk!ComplaintNext]_(ComplaintDesk!complaintVars)
                                     /\ UNCHANGED <<ratings, sum, count>>
      BY DEF RatingDesk!Next, RatingDesk!ComplaintNext, RatingDesk!complaintVars,
             ComplaintDesk!Next, ComplaintDesk!RatingNext, ComplaintDesk!ratingVars
    <2>2. FeedbackPart /\ Next => FeedbackPart'
      BY <2>1, PartStays, RateableRides, RatingStep, TicketStep DEF FeedbackPart
    <2>3. UNCHANGED vars => /\ UNCHANGED RatingDesk!ratingVars
                            /\ UNCHANGED ComplaintDesk!complaintVars
                            /\ UNCHANGED <<part, feedbackTickets, shown, ratings, sum, count>>
      BY DEF vars, ratingVars, RatingDesk!ratingVars, ComplaintDesk!complaintVars
    <2>4. FeedbackPart /\ UNCHANGED vars => FeedbackPart'
      BY <2>3, RateableRides, RatingStep, TicketStep DEF FeedbackPart
    <2> QED BY <2>2, <2>4
  <1> QED BY <1>1, <1>2, PTL DEF Spec

\* A ride is rated once, the driver's sum and count are those of the ratings unless a rebuild
\* crossed another rating, and a ticket's timeline is a path of the workflow, for any number of
\* customers and admins at work together (RatingsService, ComplaintsService).
THEOREM FeedbackIsSafe == Spec => []FeedbackHolds
  <1>1. RatingInv /\ feedbackTickets = <<>> /\ shown = <<>>
          => RatingDesk!TypeOK /\ RatingDesk!OneRatingPerRide /\ RatingDesk!StarsAddUp
    <2>1. RatingInv => RatingDesk!OneRatingPerRide /\ RatingDesk!StarsAddUp
      BY RateableRides, RatingShows
    <2>2. RatingInv /\ feedbackTickets = <<>> /\ shown = <<>> => RatingDesk!TypeOK
      BY DEF RatingInv, RatingTypes, Tap, RatingDesk!TypeOK
    <2> QED BY <2>1, <2>2
  <1>2. TicketInv /\ ratings = {} /\ sum = 0 /\ count = 0
          => /\ ComplaintDesk!TypeOK /\ ComplaintDesk!TimelineIsThePath
             /\ ComplaintDesk!ResolvedIsExplained /\ ComplaintDesk!OneOpenTicket
    <2>1. TicketInv => /\ ComplaintDesk!TimelineIsThePath
                       /\ ComplaintDesk!ResolvedIsExplained /\ ComplaintDesk!OneOpenTicket
      BY TicketShows
    <2>2. TicketInv /\ ratings = {} /\ sum = 0 /\ count = 0 => ComplaintDesk!TypeOK
      BY DEF TicketInv, TicketTypes, DeskWork, ComplaintDesk!TypeOK
    <2> QED BY <2>1, <2>2
  <1>3. FeedbackPart => FeedbackHolds
    BY <1>1, <1>2 DEF FeedbackPart, FeedbackHolds
  <1> QED BY <1>3, FeedbackPartHolds, PTL

LEMMA MessagesPartHolds == Spec => []MessagesPart
  <1> USE AudienceIsNumbered, TokensAreFew, NotesAndPhones
  <1>1. Init => MessagesPart
    BY BroadcastBegins, TokenBegins, Notices!NoticesBegin, Centre!NoticesBegin,
       Pushes!NoticesBegin DEF Init, MessagesPart
  <1>2. MessagesPart /\ [Next]_vars => MessagesPart'
    <2>1. MessagesPart /\ Next => MessagesPart'
      BY PartStays, BroadcastStep, TokenStep, Notices!NoticesStep, Centre!NoticesStep,
         Pushes!NoticesStep DEF MessagesPart
    <2>2. UNCHANGED vars =>
            /\ UNCHANGED Bulk!broadcastVars /\ UNCHANGED TokenDesk!tokenVars /\ part' = part
            /\ UNCHANGED <<Notices!noticeVars, Notices!centreVars>>
            /\ UNCHANGED <<Centre!noticeVars, Centre!centreVars>>
            /\ UNCHANGED <<Pushes!noticeVars, Pushes!centreVars>>
      BY DEF vars, bulkVars, phonesVars, noticesVars, Bulk!broadcastVars, TokenDesk!tokenVars,
             Notices!noticeVars,
             Notices!centreVars, Centre!noticeVars, Centre!centreVars, Pushes!noticeVars,
             Pushes!centreVars
    <2>3. MessagesPart /\ UNCHANGED vars => MessagesPart'
      BY <2>2, BroadcastStep, TokenStep, Notices!NoticesStep, Centre!NoticesStep,
         Pushes!NoticesStep DEF MessagesPart
    <2> QED BY <2>1, <2>3
  <1> QED BY <1>1, <1>2, PTL DEF Spec

\* A broadcast is heard in the wording it was claimed with and by everybody, a phone and an account
\* keep to one token and to the limit, and what people are told, shown and pushed is what happened,
\* for any audience, senders, phones, rides and handlers (BroadcastsService, DeviceTokensService,
\* NotificationEventsListener, NotificationsService).
THEOREM MessagesAreSafe == Spec => []MessagesHold
  <1> USE AudienceIsNumbered, TokensAreFew, NotesAndPhones
  <1>1. MessagesPart => MessagesHold
    <2>1. BroadcastInv => /\ Bulk!TypeOK /\ Bulk!OneWording /\ Bulk!CancelledReachesNobody
                          /\ Bulk!SentReachesEveryone /\ Bulk!CountIsOfTheCursor
      BY BroadcastShows
    <2>2. TokenInv => TokenDesk!TypeOK /\ TokenDesk!OneTokenPerPhone /\ TokenDesk!LimitHolds
      BY TokensShow
    <2>3. Notices!NoticesInv =>
            /\ Notices!TypeOK /\ Notices!CauserIsNotTold /\ Notices!EndIsHeard
            /\ Notices!EveryOfferIsHeard
      BY Notices!NoticesShow
    <2>4. Centre!NoticesInv => Centre!TypeOK /\ Centre!BadgeSettles /\ Centre!RecordComesFirst
      BY Centre!NoticesShow
    <2>5. Pushes!NoticesInv => Pushes!TypeOK /\ Pushes!PushedOnce /\ Pushes!StatusIsTrue
      BY Pushes!NoticesShow
    <2> QED BY <2>1, <2>2, <2>3, <2>4, <2>5 DEF MessagesPart, MessagesHold
  <1> QED BY <1>1, MessagesPartHolds, PTL

LEMMA SafetyPartsHold == Spec => [](SosPart /\ ContactPart)
  <1>1. Init => SosPart /\ ContactPart
    BY SosIsBounded, BookIsBounded, SosInvBegins, ContactInvBegins DEF Init, SosPart, ContactPart
  <1>2. SosPart /\ ContactPart /\ [Next]_vars => (SosPart /\ ContactPart)'
    <2>1. SosPart /\ ContactPart /\ Next => (SosPart /\ ContactPart)'
      BY PartStays, SosIsBounded, BookIsBounded, SosInvStep, ContactInvStep DEF SosPart, ContactPart
    <2>2. UNCHANGED vars =>
            UNCHANGED SosDesk!sosVars /\ UNCHANGED ContactBook!contactVars /\ part' = part
      BY DEF vars, sosVars, contactVars, SosDesk!sosVars, ContactBook!contactVars
    <2>3. SosPart /\ ContactPart /\ UNCHANGED vars => (SosPart /\ ContactPart)'
      BY <2>2, SosIsBounded, BookIsBounded, SosInvStep, ContactInvStep DEF SosPart, ContactPart
    <2> QED BY <2>1, <2>3
  <1> QED BY <1>1, <1>2, PTL DEF Spec

\* Whoever presses SOS, closes an incident or rewrites the contacts at the same time, one incident
\* is open and never moves backward, a reached contact is not alerted again but after a crash or a
\* cut log, closed links are dead, and one contact is the primary one unless requests overlapped or
\* were refused, for any people, requests and limits (SosService, EmergencyContactsService).
THEOREM SafetyIsKept == Spec => SafetyHolds
  <1>1. SosPart => (part = "sos" =>
                      SosDesk!TypeOK /\ SosDesk!OneOpenIncident /\ SosDesk!AlertedOnce /\
                        SosDesk!ClosedLinksAreDead)
    BY SosIsBounded, SosInvHolds DEF SosPart
  <1>2. SosPart /\ [Next]_vars => [part = "sos" => SosDesk!NeverBackwardStep]_vars
    BY PartStays, NeverBackwardHolds DEF SosPart, SosInv
  <1>3. ContactPart => (part = "contact" =>
                          ContactBook!TypeOK /\ ContactBook!OnePrimaryUnlessRefused /\
                            ContactBook!LimitSlipsByTheRace)
    BY BookIsBounded, ContactInvHolds DEF ContactPart
  <1> QED BY <1>1, <1>2, <1>3, SafetyPartsHold, PTL DEF Spec, SafetyHolds
=============================================================================
