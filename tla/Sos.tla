-------------------------------- MODULE Sos ---------------------------------
(***************************************************************************)
(* The SOS incidents of one person on one ride: presses, the safety team,  *)
(* the WhatsApp rounds to the emergency contacts and the live link they    *)
(* are sent (SosService, SosContactAlertService, ShareRideService).        *)
(*                                                                         *)
(* One process runs the rounds of an incident one after the other; a crash *)
(* loses them.  A send stands for its attempts.  The ride is one sosAllowed *)
(* accepts; positions, notes and views are left out.                       *)
(***************************************************************************)
EXTENDS Naturals, Sequences, FiniteSets, FiniteSetsExt, SequencesExt

CONSTANTS
  Presses,        \* SOS requests in flight
  Contacts,       \* the person's emergency contacts
  SafetyTeam,     \* admins acting at the same time
  UpdateMax,      \* SOS_CONTACT_UPDATE_MAX
  MaxRecorded,    \* MAX_RECORDED_MESSAGES
  MaxIncidents, MaxRounds, MaxCrashes   \* bounds

VARIABLES
  incidents,      \* sos_events, oldest first: [status, log, token]
  links,          \* SOS ride_share_tokens: [id, incident, active, late]; late: made for a
                  \* closed incident
  press, desk,    \* requests of the person and of the safety team
  queue, round,   \* rounds waiting and the one running
  recent,         \* contacts tried less than the minimum interval ago
  confirmed,      \* confirmed[c]: alerts of the last incident WhatsApp accepted
  forgot,         \* records of accepted alerts that were cut from the log
  revoked,        \* incidents whose links were revoked
  rounds, crashes

sosVars == <<incidents, links, press, desk, queue, round, recent, confirmed, forgot, revoked,
             rounds, crashes>>

OPEN_SOS_STATUSES == {"TRIGGERED", "ACKNOWLEDGED", "IN_PROGRESS"}
SOS_TRANSITIONS ==
  [TRIGGERED |-> {"ACKNOWLEDGED", "IN_PROGRESS", "RESOLVED", "CANCELLED"},
   ACKNOWLEDGED |-> {"IN_PROGRESS", "RESOLVED", "CANCELLED"},
   IN_PROGRESS |-> {"RESOLVED", "CANCELLED"}, RESOLVED |-> {}, CANCELLED |-> {}]
IsOpen(i) == incidents[i].status \in OPEN_SOS_STATUSES
Open == {i \in DOMAIN incidents : IsOpen(i)}
NoRound == [pc |-> "idle", targets |-> {}, link |-> 0, entries |-> <<>>]
AtDesk(pc, i, seen, to) == [pc |-> pc, incident |-> i, seen |-> seen, to |-> to]
Away == AtDesk("idle", 0, "TRIGGERED", "TRIGGERED")

SosContactAlert == [to : Contacts, kind : {"ALERT", "UPDATE"}, sent : BOOLEAN]
SosEvent == [status : DOMAIN SOS_TRANSITIONS, log : Seq(SosContactAlert), token : Nat]

Init ==
  /\ incidents = <<>> /\ links = {}
  /\ press = [p \in Presses |-> "idle"]
  /\ desk = [a \in SafetyTeam |-> Away]
  /\ queue = <<>> /\ round = NoRound /\ recent = {}
  /\ confirmed = [c \in Contacts |-> 0] /\ forgot = 0 /\ revoked = {}
  /\ rounds = 0 /\ crashes = 0

\* contactAlerts.dispatch: one more round behind the others.
Dispatch(i, force) ==
  /\ rounds < MaxRounds
  /\ rounds' = rounds + 1
  /\ queue' = Append(queue, [incident |-> i, force |-> force])

\* appendToOpen: the open incident takes the new position, and its contacts a new round.
Press(p) ==
  /\ press[p] \in {"idle", "again"}
  /\ IF Open = {}
     THEN press' = [press EXCEPT ![p] = "create"] /\ UNCHANGED <<queue, rounds>>
     ELSE (\E i \in Open : Dispatch(i, FALSE)) /\ press' = [press EXCEPT ![p] = "idle"]
  /\ UNCHANGED <<incidents, links, desk, round, recent, confirmed, forgot, revoked, crashes>>

\* uniq_open_sos_per_ride_user
Creatable == Open = {}

\* A press the index refused, which then finds the incident closed already, fails in the code
\* and is pressed again by the person; here it goes on by itself.
CreateSos(p) ==
  /\ press[p] = "create"
  /\ IF Creatable
     THEN /\ Len(incidents) < MaxIncidents
          /\ incidents' = Append(incidents, [status |-> "TRIGGERED", log |-> <<>>, token |-> 0])
          /\ Dispatch(Len(incidents) + 1, FALSE)
          /\ recent' = {} /\ confirmed' = [c \in Contacts |-> 0] /\ forgot' = 0
          /\ press' = [press EXCEPT ![p] = "idle"]
     ELSE press' = [press EXCEPT ![p] = "again"] /\ UNCHANGED <<incidents, queue, rounds, recent, confirmed, forgot>>
  /\ UNCHANGED <<links, desk, round, revoked, crashes>>

-----------------------------------------------------------------------------
DeskRead(a) ==
  /\ desk[a].pc = "idle"
  /\ \E i \in DOMAIN incidents : \E to \in SOS_TRANSITIONS[incidents[i].status] :
       desk' = [desk EXCEPT ![a] = AtDesk("write", i, incidents[i].status, to)]
  /\ UNCHANGED <<incidents, links, press, queue, round, recent, confirmed, forgot, revoked, rounds, crashes>>

Unmoved(a) == incidents[desk[a].incident].status = desk[a].seen

DeskWrite(a) ==
  /\ desk[a].pc = "write"
  /\ IF Unmoved(a)
     THEN /\ incidents' = [incidents EXCEPT ![desk[a].incident].status = desk[a].to]
          /\ desk' = [desk EXCEPT ![a] =
               IF desk[a].to \in OPEN_SOS_STATUSES THEN Away ELSE [desk[a] EXCEPT !.pc = "revoke"]]
     ELSE desk' = [desk EXCEPT ![a] = Away] /\ UNCHANGED incidents
  /\ UNCHANGED <<links, press, queue, round, recent, confirmed, forgot, revoked, rounds, crashes>>

RevokeForSos(i) == {l \in links : l.incident = i}

DeskRevoke(a) ==
  /\ desk[a].pc = "revoke"
  /\ links' = (links \ RevokeForSos(desk[a].incident))
                \cup {[l EXCEPT !.active = FALSE] : l \in RevokeForSos(desk[a].incident)}
  /\ revoked' = revoked \cup {desk[a].incident}
  /\ desk' = [desk EXCEPT ![a] = Away]
  /\ UNCHANGED <<incidents, press, queue, round, recent, confirmed, forgot, rounds, crashes>>

ResendContactAlerts(a) ==
  /\ desk[a].pc = "idle"
  /\ \E i \in Open : Dispatch(i, TRUE)
  /\ UNCHANGED <<incidents, links, press, desk, round, recent, confirmed, forgot, revoked, crashes>>

-----------------------------------------------------------------------------
Sent(i, c, kind) == {n \in DOMAIN incidents[i].log : incidents[i].log[n] = [to |-> c, kind |-> kind, sent |-> TRUE]}
\* (A bug: what was sent is not read back.)
TargetsUnread(i, force) == {t \in [to : Contacts, kind : {"ALERT"}] : force \/ t.to \notin recent}
\* Who is due a message: whoever the alert has not reached, then updates up to the cap.
Targets(i, force) ==
  {t \in [to : Contacts, kind : {"ALERT", "UPDATE"}] :
     /\ force \/ t.to \notin recent
     /\ IF Sent(i, t.to, "ALERT") = {} THEN t.kind = "ALERT"
        ELSE t.kind = "UPDATE" /\ ~force /\ Cardinality(Sent(i, t.to, "UPDATE")) < UpdateMax}

RoundOver == queue' = Tail(queue) /\ round' = NoRound

RoundReads ==
  /\ round.pc = "idle" /\ queue # <<>>
  /\ LET job == Head(queue)  due == Targets(job.incident, job.force) IN
     IF ~IsOpen(job.incident) \/ due = {}
     THEN RoundOver
     ELSE /\ round' = [NoRound EXCEPT !.pc = IF incidents[job.incident].token = 0 THEN "link" ELSE "send",
                                      !.targets = due, !.link = incidents[job.incident].token]
          /\ UNCHANGED queue
  /\ UNCHANGED <<incidents, links, press, desk, recent, confirmed, forgot, revoked, rounds, crashes>>

\* createForSos: it does not ask whether the incident is still open.
RoundLinks ==
  /\ round.pc = "link"
  /\ LET i == Head(queue).incident  id == Cardinality(links) + 1 IN
     /\ links' = links \cup {[id |-> id, incident |-> i, active |-> TRUE, late |-> ~IsOpen(i)]}
     /\ round' = [round EXCEPT !.pc = "keep", !.link = id]
  /\ UNCHANGED <<incidents, press, desk, queue, recent, confirmed, forgot, revoked, rounds, crashes>>

RoundKeeps ==
  /\ round.pc = "keep"
  /\ incidents' = [incidents EXCEPT ![Head(queue).incident].token = IF @ = 0 THEN round.link ELSE @]
  /\ round' = [round EXCEPT !.pc = "send"]
  /\ UNCHANGED <<links, press, desk, queue, recent, confirmed, forgot, revoked, rounds, crashes>>

RoundSends ==
  /\ round.pc = "send"
  /\ \E reached \in SUBSET round.targets :
       /\ round' = [round EXCEPT !.pc = "log",
            !.entries = SetToSeq({[to |-> t.to, kind |-> t.kind, sent |-> t \in reached] : t \in round.targets})]
       /\ confirmed' = IF Head(queue).incident # Len(incidents) THEN confirmed
                       ELSE [c \in Contacts |-> confirmed[c] +
                               IF [to |-> c, kind |-> "ALERT"] \in reached THEN 1 ELSE 0]
       /\ recent' = recent \cup {t.to : t \in round.targets}
  /\ UNCHANGED <<incidents, links, press, desk, queue, forgot, revoked, rounds, crashes>>

\* The oldest entries, which no longer fit.
Over(log) == IF Len(log) > MaxRecorded THEN Len(log) - MaxRecorded ELSE 0

RoundRecords ==
  /\ round.pc = "log"
  /\ LET i == Head(queue).incident
         all == incidents[i].log \o round.entries IN
     /\ incidents' = [incidents EXCEPT ![i].log = SubSeq(all, Over(all) + 1, Len(all))]
     /\ forgot' = forgot + Cardinality({n \in 1..Over(all) : all[n].sent /\ all[n].kind = "ALERT"})
  /\ RoundOver
  /\ UNCHANGED <<links, press, desk, recent, confirmed, revoked, rounds, crashes>>

TimePasses ==
  /\ recent # {} /\ recent' = {}
  /\ UNCHANGED <<incidents, links, press, desk, queue, round, confirmed, forgot, revoked, rounds, crashes>>

Crash ==
  /\ crashes < MaxCrashes /\ crashes' = crashes + 1
  /\ press' = [p \in Presses |-> "idle"] /\ desk' = [a \in SafetyTeam |-> Away]
  /\ queue' = <<>> /\ round' = NoRound
  /\ UNCHANGED <<incidents, links, recent, confirmed, forgot, revoked, rounds>>

Next ==
  \/ \E p \in Presses : Press(p) \/ CreateSos(p)
  \/ \E a \in SafetyTeam : DeskRead(a) \/ DeskWrite(a) \/ DeskRevoke(a) \/ ResendContactAlerts(a)
  \/ RoundReads \/ RoundLinks \/ RoundKeeps \/ RoundSends \/ RoundRecords
  \/ TimePasses \/ Crash

Spec == Init /\ [][Next]_sosVars

-----------------------------------------------------------------------------
TypeOK ==
  /\ \A i \in DOMAIN incidents :
       incidents[i] \in SosEvent /\ Len(incidents[i].log) <= MaxRecorded
  /\ \A l \in links : l.incident \in DOMAIN incidents /\ l.active \in BOOLEAN
  /\ press \in [Presses -> {"idle", "create", "again"}]
  /\ \A a \in SafetyTeam : desk[a].pc \in {"idle", "write", "revoke"}

\* However often SOS is pressed, and by however many requests at once, one incident is open
\* (sos-event.schema.ts:217 "Repeated presses while an alert is open update it").
OneOpenIncident == Cardinality(Open) <= 1

\* A contact WhatsApp has reached is not alerted again ("a re-press must not
\* double-message", sos-contact-alert.service.ts:77), unless the process died before
\* recording it or the log was cut.
AlertedOnce == \A c \in Contacts : confirmed[c] <= 1 + crashes + forgot

\* Once the closing of an incident has revoked its links, the only one that still opens is
\* one a round made after the incident was closed (sos.service.ts:430 "the contacts' live
\* link stops working").
ClosedLinksAreDead == \A l \in links : l.active /\ l.incident \in revoked => l.late

\* Two admins at once never move an incident backward nor re-open it
\* (sos-lifecycle.ts:18 "never backward, and a closed incident stays closed").
NeverBackwardStep ==
  \A i \in DOMAIN incidents : incidents'[i].status # incidents[i].status
        => incidents'[i].status \in SOS_TRANSITIONS[incidents[i].status]
NeverBackward == [][NeverBackwardStep]_sosVars
=============================================================================
