----------------------------- MODULE Onboarding ------------------------------
(* A driver's application until it is decided: drivers.service.ts and vehicles.service.ts,
   whose calls read the profile, judge it and write, each without a lock. *)
EXTENDS Integers, FiniteSets

CONSTANTS
  Calls,       \* slots for the driver's requests and the admins' decisions
  Vehicles,    \* vehicles the driver may enter
  MaxUploads,  \* bound: documents uploaded
  MaxMoves     \* bound: status changes

VARIABLES
  driverStatus,
  documents,   \* records of the one required document: [id, file]; no index keeps them to one
  vehicles,    \* the active vehicles
  stored,      \* files in storage
  call,        \* call[p]: [pc, on, id, old, seen]; seen: the driverStatus it read
  torn,        \* what the last submission had checked was taken away by an edit that overlapped it
  crossed,     \* the status was saved over another than its writer had read
  denied,      \* records written whose save was reported as failed; bound: one
  uploads, moves

onboardingVars ==
  <<driverStatus, documents, vehicles, stored, call, torn, crossed, denied, uploads, moves>>
applicationVars == <<driverStatus, crossed, moves>>

EDITABLE_STATUSES == {"PENDING", "REJECTED"}
At(pc, on, doc) == [pc |-> pc, on |-> on, id |-> doc.id, old |-> doc.file, seen |-> driverStatus]
NoDoc == [id |-> 0, file |-> 0]
Idle == [pc |-> "idle", on |-> 0, id |-> 0, old |-> 0, seen |-> "PENDING"]

DriverStatus == {"PENDING", "UNDER_REVIEW", "APPROVED", "REJECTED", "SUSPENDED"}
DriverDocument == [id : 1..MaxUploads, file : 1..MaxUploads]

Init ==
  /\ driverStatus = "PENDING" /\ documents = {} /\ vehicles = {} /\ stored = {}
  /\ call = [p \in Calls |-> Idle] /\ torn = FALSE /\ crossed = FALSE
  /\ denied = {} /\ uploads = 0 /\ moves = 0

Editable == driverStatus \in EDITABLE_STATUSES      \* assertEditable
Suffice(docs, vs) == docs # {} /\ vs # {}
HasEverything == Suffice(documents, vehicles)
Begins(p, next) == call[p].pc = "idle" /\ call' = [call EXCEPT ![p] = next]
Moves(p, pc) == call' = [call EXCEPT ![p].pc = pc]
Ends(p) == call' = [call EXCEPT ![p] = Idle]
\* An edit is saved, under whatever status there now is.
Saves(p, docs, vs) ==
  /\ documents' = docs /\ vehicles' = vs
  /\ torn' = \/ torn
             \/ /\ call[p].seen \in EDITABLE_STATUSES /\ driverStatus \notin EDITABLE_STATUSES
                /\ HasEverything /\ ~Suffice(docs, vs)

-----------------------------------------------------------------------------
(* Edits *)

\* addDocument stores the file, looks the type's record up, and replaces or creates it.
AddDocument(p) ==
  /\ Editable /\ uploads < MaxUploads /\ Begins(p, At("find", uploads + 1, NoDoc))
  /\ uploads' = uploads + 1 /\ stored' = stored \cup {uploads + 1}
  /\ UNCHANGED <<applicationVars, documents, vehicles, torn, denied>>

Find(p) ==
  /\ call[p].pc = "find"
  /\ \E doc \in IF documents = {} THEN {NoDoc} ELSE documents :
       call' = [call EXCEPT ![p].pc = "save", ![p].id = doc.id, ![p].old = doc.file]
  /\ UNCHANGED <<applicationVars, documents, vehicles, stored, torn, denied, uploads>>

\* The upload is removed when the save fails, because the record was deleted since or the
\* database failed, also when the record was written after all.
RecordOf(c) == [id |-> IF c.id = 0 THEN c.on ELSE c.id, file |-> c.on]
SaveDocument(p) ==
  /\ call[p].pc = "save"
  /\ LET c == call[p]
         found == {d \in documents : d.id = c.id}
         saved == (documents \ found) \cup {RecordOf(c)}
         Fails == call' = [call EXCEPT ![p].pc = "clean", ![p].old = c.on] IN
     \/ c.id # 0 /\ found = {} /\ Fails /\ Saves(p, documents, vehicles) /\ UNCHANGED denied
     \/ /\ c.id = 0 \/ found # {}
        /\ \/ Saves(p, saved, vehicles) /\ Moves(p, "clean") /\ UNCHANGED denied
           \/ /\ denied = {} /\ denied' = {RecordOf(c)} /\ Fails
              /\ \E docs \in {documents, saved} : Saves(p, docs, vehicles)
  /\ UNCHANGED <<applicationVars, stored, uploads>>

\* The file that is no longer referred to is removed; a failure to delete is swallowed.
Unneeded(p) == call[p].old
Clean(p) ==
  /\ call[p].pc = "clean" /\ stored' \in {stored, stored \ {Unneeded(p)}} /\ Ends(p)
  /\ UNCHANGED <<applicationVars, documents, vehicles, torn, denied, uploads>>

DeleteDocument(p) ==
  /\ Editable /\ \E d \in documents : Begins(p, At("delete", 0, d))
  /\ UNCHANGED <<applicationVars, documents, vehicles, stored, torn, denied, uploads>>

FinishDelete(p) ==
  /\ call[p].pc = "delete"
  /\ Saves(p, {d \in documents : d.id # call[p].id}, vehicles) /\ Moves(p, "clean")
  /\ UNCHANGED <<applicationVars, stored, denied, uploads>>

\* VehiclesService.create: one active vehicle, checked before the insert and by the index.
Insertable == vehicles = {}
AddVehicle(p) ==
  /\ Editable /\ vehicles = {} /\ \E v \in Vehicles : Begins(p, At("insert", v, NoDoc))
  /\ UNCHANGED <<applicationVars, documents, vehicles, stored, torn, denied, uploads>>

InsertVehicle(p) ==
  /\ call[p].pc = "insert" /\ Ends(p)
  /\ Saves(p, documents, IF Insertable THEN vehicles \cup {call[p].on} ELSE vehicles)
  /\ UNCHANGED <<applicationVars, stored, denied, uploads>>

Deactivate(p) ==
  /\ Editable /\ \E v \in vehicles : Begins(p, At("deactivate", v, NoDoc))
  /\ UNCHANGED <<applicationVars, documents, vehicles, stored, torn, denied, uploads>>

FinishDeactivate(p) ==
  /\ call[p].pc = "deactivate" /\ Saves(p, documents, vehicles \ {call[p].on}) /\ Ends(p)
  /\ UNCHANGED <<applicationVars, stored, denied, uploads>>

-----------------------------------------------------------------------------
(* The application *)

Writes(p, to) ==
  /\ moves < MaxMoves /\ moves' = moves + 1
  /\ driverStatus' = to /\ crossed' = (driverStatus # call[p].seen) /\ Ends(p)

\* submitKyc reads the profile, then what there is, and saves the new status.
SubmitKyc(p) ==
  /\ driverStatus \notin {"UNDER_REVIEW", "APPROVED", "SUSPENDED"}
  /\ Begins(p, At("check", 0, NoDoc))
  /\ UNCHANGED <<applicationVars, documents, vehicles, stored, torn, denied, uploads>>

Complete == HasEverything
CheckKyc(p) ==
  /\ call[p].pc = "check" /\ IF Complete THEN call' = [call EXCEPT ![p].pc = "submit", ![p].old = IF HasEverything THEN 1 ELSE 0]
                             ELSE Ends(p)
  /\ UNCHANGED <<applicationVars, documents, vehicles, stored, torn, denied, uploads>>

FinishSubmit(p) ==
  /\ call[p].pc = "submit" /\ Writes(p, "UNDER_REVIEW")
  /\ torn' = (call[p].old = 1 /\ ~HasEverything)
  /\ UNCHANGED <<documents, vehicles, stored, denied, uploads>>

\* approve and reject.
Decidable == driverStatus = "UNDER_REVIEW"
Decide(p) ==
  /\ Decidable /\ \E to \in {"approve", "reject"} : Begins(p, At(to, 0, NoDoc))
  /\ UNCHANGED <<applicationVars, documents, vehicles, stored, torn, denied, uploads>>

FinishDecision(p) ==
  /\ \/ call[p].pc = "approve" /\ Writes(p, "APPROVED")
     \/ call[p].pc = "reject" /\ Writes(p, "REJECTED")
  /\ UNCHANGED <<documents, vehicles, stored, torn, denied, uploads>>

\* Single conditional updates.
Suspend ==
  /\ driverStatus = "APPROVED" /\ driverStatus' = "SUSPENDED"
  /\ moves < MaxMoves /\ moves' = moves + 1
  /\ UNCHANGED <<documents, vehicles, stored, call, torn, crossed, denied, uploads>>
Reinstate ==
  /\ driverStatus = "SUSPENDED" /\ driverStatus' = "APPROVED"
  /\ moves < MaxMoves /\ moves' = moves + 1
  /\ UNCHANGED <<documents, vehicles, stored, call, torn, crossed, denied, uploads>>

Next ==
  \/ \E p \in Calls :
       \/ AddDocument(p) \/ Find(p) \/ SaveDocument(p) \/ Clean(p) \/ DeleteDocument(p) \/ FinishDelete(p)
       \/ AddVehicle(p) \/ InsertVehicle(p) \/ Deactivate(p) \/ FinishDeactivate(p)
       \/ SubmitKyc(p) \/ CheckKyc(p) \/ FinishSubmit(p) \/ Decide(p) \/ FinishDecision(p)
  \/ Suspend \/ Reinstate

Spec == Init /\ [][Next]_onboardingVars

-----------------------------------------------------------------------------
TypeOK ==
  /\ driverStatus \in DriverStatus
  /\ documents \subseteq DriverDocument /\ stored \subseteq 1..MaxUploads /\ vehicles \subseteq Vehicles
  /\ \A p \in Calls : call[p].pc \in {"idle", "find", "save", "clean", "delete", "insert", "deactivate",
                                      "check", "submit", "approve", "reject"}

\* "Submitting KYC locks the application so the admin never reviews a moving target"
\* (drivers.service.ts:54): what is under review, approved or suspended is complete, in all
\* cases but two: an edit that was judged before the submission took a document or the vehicle
\* away after submitKyc had looked for it (torn), or the last approval was written over a
\* status its admin had not read (crossed).
UnderReviewIsComplete ==
  \/ driverStatus \in EDITABLE_STATUSES \/ HasEverything
  \/ torn
  \/ crossed /\ driverStatus # "UNDER_REVIEW"

\* The status moves along its lifecycle but for the one step in which submitKyc, approve or
\* reject, whose save() is no compare-and-set (drivers.service.ts:291, :424, :443), writes over
\* a status it had not read.
Legal ==
  {<<"PENDING", "UNDER_REVIEW">>, <<"REJECTED", "UNDER_REVIEW">>, <<"UNDER_REVIEW", "APPROVED">>,
   <<"UNDER_REVIEW", "REJECTED">>, <<"APPROVED", "SUSPENDED">>, <<"SUSPENDED", "APPROVED">>}
Overwrites(p, from, to) ==
  /\ call[p].seen # from /\ call'[p].pc = "idle"
  /\ <<call[p].pc, to>> \in {<<"submit", "UNDER_REVIEW">>, <<"approve", "APPROVED">>, <<"reject", "REJECTED">>}
DecisionsStandStep ==
  \/ driverStatus' = driverStatus
  \/ <<driverStatus, driverStatus'>> \in Legal
  \/ \E p \in Calls : Overwrites(p, driverStatus, driverStatus')
DecisionsStand == [][DecisionsStandStep]_onboardingVars

\* A driver has one active vehicle, also when two are entered together.
OneVehicle == Cardinality(vehicles) <= 1

\* The file of every record is in storage, whatever uploads and deletions cross, but for a
\* record whose save was reported as failed and made all the same (drivers.service.ts:203).
RecordsHaveFiles == \A d \in documents : d.file \in stored \/ d \in denied
=============================================================================
