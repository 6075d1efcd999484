------------------------- MODULE EmergencyContacts --------------------------
(***************************************************************************)
(* One person's emergency contacts, kept by several requests at a time     *)
(* (EmergencyContactsService).  Contacts are numbered in creation order,   *)
(* the order in which a new primary is chosen.  Names are left out; the    *)
(* person's own number is never offered.                                   *)
(***************************************************************************)
EXTENDS Naturals, FiniteSets, FiniteSetsExt

CONSTANTS
  Requests,       \* requests in flight
  Phones,
  MaxContacts,    \* EMERGENCY_CONTACTS_MAX
  MaxMade         \* bound: contacts ever created

VARIABLES
  contacts,       \* emergency_contacts: [id, phone, primary]
  made,           \* ids given
  request,        \* request[r]: [pc, id, phone, primary, tries]
  overlapped,     \* two requests were in flight together
  failed          \* a request failed after it had demoted the primary contact

contactVars == <<contacts, made, request, overlapped, failed>>

Idle == [pc |-> "idle", id |-> 0, phone |-> CHOOSE p \in Phones : TRUE, primary |-> FALSE, tries |-> 0]
Primaries == {c \in contacts : c.primary}
Quiet == \A r \in Requests : request[r].pc = "idle"
Done(r) == request' = [request EXCEPT ![r] = Idle]
Goes(r, step) == request' = [request EXCEPT ![r] = step]
Overlap == overlapped' = (overlapped \/ ~Quiet)

EmergencyContact == [id : 1..MaxMade, phone : Phones, primary : BOOLEAN]

Init ==
  /\ contacts = {} /\ made = 0
  /\ request = [r \in Requests |-> Idle]
  /\ overlapped = FALSE /\ failed = FALSE

\* demoteAll: every primary contact but the one named (0: none).
Demoted(but) == {IF c.id = but THEN c ELSE [c EXCEPT !.primary = FALSE] : c \in contacts}

HasRoom == Cardinality(contacts) < MaxContacts

\* create(): the count is read; the first contact is the primary one.
Create(r) ==
  /\ request[r].pc = "idle" /\ HasRoom
  /\ \E phone \in Phones, primary \in BOOLEAN :
       LET makePrimary == primary \/ contacts = {} IN
       Goes(r, [Idle EXCEPT !.pc = IF makePrimary THEN "demote" ELSE "insert",
                            !.phone = phone, !.primary = makePrimary])
  /\ Overlap /\ UNCHANGED <<contacts, made, failed>>

CreateDemotes(r) ==
  /\ request[r].pc = "demote"
  /\ contacts' = Demoted(0)
  /\ Goes(r, [request[r] EXCEPT !.pc = "insert"])
  /\ UNCHANGED <<made, overlapped, failed>>

\* Unique per phone, and at most one primary: a refused insert leaves the demotion behind.
CreateInserts(r) ==
  /\ request[r].pc = "insert" /\ made < MaxMade
  /\ IF (\E c \in contacts : c.phone = request[r].phone) \/ (request[r].primary /\ Primaries # {})
     THEN failed' = (failed \/ request[r].primary) /\ UNCHANGED <<contacts, made>>
     ELSE /\ made' = made + 1
          /\ contacts' = contacts \cup {[id |-> made', phone |-> request[r].phone, primary |-> request[r].primary]}
          /\ UNCHANGED failed
  /\ Done(r) /\ UNCHANGED overlapped

\* update(): the contact is read, saved (a number that is taken is refused), made primary.
Update(r) ==
  /\ request[r].pc = "idle"
  /\ \E c \in contacts, phone \in Phones, primary \in BOOLEAN :
       Goes(r, [pc |-> "save", id |-> c.id, phone |-> phone, primary |-> primary /\ ~c.primary, tries |-> 0])
  /\ Overlap /\ UNCHANGED <<contacts, made, failed>>

UpdateSaves(r) ==
  /\ request[r].pc = "save"
  /\ LET mine == {c \in contacts : c.id = request[r].id} IN
     IF mine = {} \/ \E c \in contacts \ mine : c.phone = request[r].phone
     THEN Done(r) /\ UNCHANGED contacts
     ELSE /\ contacts' = (contacts \ mine) \cup {[c EXCEPT !.phone = request[r].phone] : c \in mine}
          /\ IF request[r].primary THEN Goes(r, [request[r] EXCEPT !.pc = "demote others"]) ELSE Done(r)
  /\ UNCHANGED <<made, overlapped, failed>>

Promotes(c) == c.primary

Remove(r) ==
  /\ request[r].pc = "idle"
  /\ \E c \in contacts :
       /\ contacts' = contacts \ {c}
       /\ IF Promotes(c) THEN Goes(r, [Idle EXCEPT !.pc = "next"]) ELSE Done(r)
  /\ Overlap /\ UNCHANGED <<made, failed>>

\* The longest-standing contact left.
RemoveFindsNext(r) ==
  /\ request[r].pc = "next"
  /\ IF contacts = {} THEN Done(r)
     ELSE Goes(r, [Idle EXCEPT !.pc = "demote others", !.id = Min({c.id : c \in contacts})])
  /\ UNCHANGED <<contacts, made, overlapped, failed>>

\* setPrimary: the others are demoted, then the contact promoted; a duplicate key of the
\* one-primary index starts again, three times at most.
SetPrimaryDemotes(r) ==
  /\ request[r].pc = "demote others"
  /\ contacts' = Demoted(request[r].id)
  /\ Goes(r, [request[r] EXCEPT !.pc = "promote"])
  /\ UNCHANGED <<made, overlapped, failed>>

SetPrimaryPromotes(r) ==
  /\ request[r].pc = "promote"
  /\ LET mine == {c \in contacts : c.id = request[r].id} IN
     IF mine # {} /\ Primaries \ mine # {}
     THEN /\ IF request[r].tries < 2
             THEN Goes(r, [request[r] EXCEPT !.pc = "demote others", !.tries = @ + 1]) ELSE Done(r)
          /\ UNCHANGED contacts
     ELSE contacts' = (contacts \ mine) \cup {[c EXCEPT !.primary = TRUE] : c \in mine} /\ Done(r)
  /\ UNCHANGED <<made, overlapped, failed>>

Next ==
  \E r \in Requests :
    \/ Create(r) \/ CreateDemotes(r) \/ CreateInserts(r) \/ Update(r) \/ UpdateSaves(r)
    \/ Remove(r) \/ RemoveFindsNext(r) \/ SetPrimaryDemotes(r) \/ SetPrimaryPromotes(r)

Spec == Init /\ [][Next]_contactVars

-----------------------------------------------------------------------------
TypeOK ==
  /\ contacts \subseteq EmergencyContact
  /\ made \in 0..MaxMade
  /\ overlapped \in BOOLEAN /\ failed \in BOOLEAN

\* Between requests, whoever has contacts has exactly one primary contact
\* (emergency-contacts.service.ts:43).  It does not hold: a contact refused for its number
\* has demoted the primary one.
ExactlyOnePrimary == Quiet /\ contacts # {} => Cardinality(Primaries) = 1

\* It is lost in no other way than by a refused request or by requests that overlap.
OnePrimaryUnlessRefused == overlapped \/ failed \/ ExactlyOnePrimary

\* Only requests that overlap pass the limit, by at most one contact for each of them but one.
LimitSlipsByTheRace ==
  Cardinality(contacts) <= MaxContacts + (IF overlapped THEN Cardinality(Requests) - 1 ELSE 0)
=============================================================================
