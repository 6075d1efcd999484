---------------------------- MODULE DriverChanges ----------------------------
(* Changes to an approved driver's documents (driver-changes.service.ts): requests for
   one document, the uploaded files, and the record the reviews write to. Requests for
   profile and vehicle fields take the same path without files. *)
EXTENDS Integers, SequencesExt

CONSTANTS
  Drivers, Admins,  \* slots for the driver's and the admins' calls
  MaxFiles,         \* bound: uploads; file 1 is the document verified at onboarding
  MaxErrors         \* bound: database calls that fail

VARIABLES
  requests,   \* of this target, oldest first: [status, file]; file 0: none kept
  live,       \* files of the verified document's records: no index keeps them to one
  stored,     \* files in storage
  files,      \* how many were uploaded
  call,       \* call[p]: [pc, request, file, prev]
  applied,    \* files that were written to the live document
  unsure,     \* a write was made whose caller was told it failed
  raced,      \* approvals that wrote to a document another had written since they read it
  undeleted,  \* files whose deletion failed, which storage.remove only logs
  refused,    \* approved requests whose release could not be written
  errors

changeVars == <<requests, live, stored, files, call, applied, unsure, raced, undeleted, refused, errors>>

At(pc, i, file, prev) == [pc |-> pc, request |-> i, file |-> file, prev |-> prev]
Idle == At("idle", 0, 0, 0)
Pending == {i \in DOMAIN requests : requests[i].status = "PENDING"}
Callers == Drivers \cup Admins

Init ==
  /\ requests = <<>> /\ live \in {<<>>, <<1>>} /\ stored = Range(live) /\ files = 1
  /\ call = [p \in Callers |-> Idle]
  /\ applied = Range(live) /\ unsure = FALSE /\ raced = 0
  /\ undeleted = {} /\ refused = {} /\ errors = 0

Goes(p, next) == call' = [call EXCEPT ![p] = next]
Fails == errors < MaxErrors /\ errors' = errors + 1

-----------------------------------------------------------------------------
(* The driver *)

\* requestDocumentChange stores the file, then writes the request.
Upload(p) ==
  /\ call[p].pc = "idle" /\ files < MaxFiles
  /\ files' = files + 1 /\ stored' = stored \cup {files + 1}
  /\ Goes(p, At("upsert", 0, files + 1, 0))
  /\ UNCHANGED <<requests, live, applied, unsure, raced, undeleted, refused, errors>>

\* The pending request of the target is overwritten in place, or a new one is inserted.
Upserted(file) ==
  IF Pending = {} THEN Append(requests, [status |-> "PENDING", file |-> file])
  ELSE [i \in DOMAIN requests |-> IF i \in Pending THEN [requests[i] EXCEPT !.file = file] ELSE requests[i]]
Replaced == IF Pending = {} THEN 0 ELSE requests[CHOOSE i \in Pending : TRUE].file

UpsertPending(p) ==
  /\ call[p].pc = "upsert"
  /\ \/ /\ requests' = Upserted(call[p].file)
        /\ Goes(p, At("discard", 0, Replaced, 0)) /\ UNCHANGED <<unsure, errors>>
     \/ \* the write fails, or is made and reported as failed: the upload is removed
        /\ Fails /\ Goes(p, At("discard", 0, call[p].file, 0))
        /\ \/ UNCHANGED <<requests, unsure>>
           \/ requests' = Upserted(call[p].file) /\ unsure' = TRUE
  /\ UNCHANGED <<live, stored, files, applied, raced, undeleted, refused>>

\* storage.remove; a failure to delete is swallowed and leaves the file.
Discard(p) ==
  /\ call[p].pc = "discard" /\ Goes(p, Idle)
  /\ \/ stored' = stored \ {call[p].file} /\ UNCHANGED <<undeleted, errors>>
     \/ Fails /\ undeleted' = undeleted \cup {call[p].file} /\ UNCHANGED stored
  /\ UNCHANGED <<requests, live, files, applied, unsure, raced, refused>>

Claimable(i) == requests[i].status = "PENDING"
Decide(p, i, status) ==
  /\ call[p].pc = "idle" /\ Claimable(i)
  /\ requests' = [requests EXCEPT ![i] = [status |-> status, file |-> 0]]
  /\ Goes(p, At("discard", i, requests[i].file, 0))
  /\ UNCHANGED <<live, stored, files, applied, unsure, raced, undeleted, refused, errors>>
Withdraw(p, i) == Decide(p, i, "WITHDRAWN")
Reject(a, i) == Decide(a, i, "REJECTED")

-----------------------------------------------------------------------------
(* approve: claims the request, applies it, and gives the claim back when that fails *)

Approve(a, i) ==
  /\ call[a].pc = "idle" /\ Claimable(i)
  /\ requests' = [requests EXCEPT ![i].status = "APPROVED"]
  /\ Goes(a, At("read", i, requests[i].file, 0))
  /\ UNCHANGED <<live, stored, files, applied, unsure, raced, undeleted, refused, errors>>

AfterFailure == "release"
LiveFile == IF live = <<>> THEN 0 ELSE Head(live)
ReadLive(a) ==
  /\ call[a].pc = "read"
  /\ \/ Goes(a, [call[a] EXCEPT !.pc = "write", !.prev = LiveFile]) /\ UNCHANGED errors
     \/ Fails /\ Goes(a, [call[a] EXCEPT !.pc = AfterFailure])
  /\ UNCHANGED <<requests, live, stored, files, applied, unsure, raced, undeleted, refused>>

\* The record that was read is updated, or a record is created when none was.
Superseded(a) == call[a].prev
Written(a) ==
  IF call[a].prev = 0 THEN Append(live, call[a].file) ELSE [live EXCEPT ![1] = call[a].file]
WriteLive(a) ==
  /\ call[a].pc = "write"
  /\ \/ /\ live' = Written(a) /\ applied' = applied \cup {call[a].file}
        /\ raced' = IF LiveFile = call[a].prev THEN raced ELSE raced + 1
        /\ \/ Goes(a, At("discard", 0, Superseded(a), 0)) /\ UNCHANGED <<unsure, errors>>
           \/ Fails /\ unsure' = TRUE /\ Goes(a, [call[a] EXCEPT !.pc = AfterFailure])
     \/ /\ Fails /\ Goes(a, [call[a] EXCEPT !.pc = AfterFailure])
        /\ UNCHANGED <<live, applied, unsure, raced>>
  /\ UNCHANGED <<requests, stored, files, undeleted, refused>>

\* The index allows one pending request: with a newer one there, the release fails and the
\* request stays approved.
Release(a) ==
  /\ call[a].pc = "release"
  /\ IF Pending = {}
     THEN requests' = [requests EXCEPT ![call[a].request].status = "PENDING"] /\ UNCHANGED refused
     ELSE refused' = refused \cup {call[a].request} /\ UNCHANGED requests
  /\ Goes(a, Idle)
  /\ UNCHANGED <<live, stored, files, applied, unsure, raced, undeleted, errors>>

Next ==
  \/ \E p \in Drivers : Upload(p) \/ UpsertPending(p) \/ \E i \in DOMAIN requests : Withdraw(p, i)
  \/ \E a \in Admins :
       ReadLive(a) \/ WriteLive(a) \/ Release(a)
       \/ \E i \in DOMAIN requests : Approve(a, i) \/ Reject(a, i)
  \/ \E p \in Callers : Discard(p)

Spec == Init /\ [][Next]_changeVars

-----------------------------------------------------------------------------
Files == 0..MaxFiles
TypeOK ==
  /\ \A i \in DOMAIN requests :
       requests[i].status \in {"PENDING", "APPROVED", "REJECTED", "WITHDRAWN"} /\ requests[i].file \in Files
  /\ Range(live) \subseteq Files \ {0} /\ stored \subseteq Files \ {0} /\ files \in 1..MaxFiles
  /\ \A p \in Callers : call[p].pc \in {"idle", "upsert", "discard", "read", "write", "release"}

\* Unless a write that was made is taken for one that failed, no cleanup deletes the file of
\* the verified document or the one an admin has yet to review, whatever reviews,
\* resubmissions and withdrawals cross.
NeededFilesAreStored ==
  unsure \/ /\ Range(live) \subseteq stored
            /\ \A i \in Pending : requests[i].file \in stored

\* A request that reads as approved was applied or is being applied, but for the one whose
\* claim could not be given back because the driver had sent another.
BeingApplied(i) == \E a \in Admins : call[a].pc \in {"read", "write", "release"} /\ call[a].request = i
ApprovedIsApplied ==
  \A i \in DOMAIN requests :
    requests[i].status = "APPROVED" /\ ~BeingApplied(i)
      => requests[i].file \in applied \/ i \in refused

\* Of the files that were once verified, storage keeps no other than the live ones, unless
\* approvals of the same document crossed, a failure hid a write, or the deletion failed.
Kept == applied \cap stored
CleaningUp(f) == \E p \in Callers : f \in {call[p].file, call[p].prev}
OnlyRacesLeaveFiles ==
  unsure \/ raced > 0 \/ \A f \in Kept : f \in Range(live) \/ CleaningUp(f) \/ f \in undeleted

\* There are two records of one document only after approvals that crossed.
OneRecord == Len(live) <= 1 \/ raced > 0 \/ unsure
=============================================================================
