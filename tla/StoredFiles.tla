----------------------------- MODULE StoredFiles ------------------------------
(***************************************************************************)
(* Files and the rows that refer to them: the profile photo of one person  *)
(* (ProfileImagesService, and its erasure), one document of a driver with  *)
(* the approved change request it came from (DriversService), and the      *)
(* migration that moves files of the release before into file storage      *)
(* while the API serves (LegacyUploadsMigrator).                           *)
(*                                                                         *)
(* A file is a number; file 1 is the document's on the server's disk.      *)
(***************************************************************************)
EXTENDS Integers, Sequences

CONSTANTS
  Requests, Movers,   \* uploads and removals in flight, runs of the migration
  Rows,               \* the rows with a file, in the migration's order: the document, the request
  Pictures,           \* what is uploaded: picture |-> [bytes, width, height, image]
  Rule,               \* PROFILE_IMAGE_RULE
  Old,                \* the picture of the release before
  HasPhoto,           \* whether a photo was stored inline by the release before
  Erasable,           \* whether the account is deleted
  MaxFiles, MaxFailures    \* bounds

VARIABLES
  stored,     \* files that exist
  content,    \* content[f]: what file f holds
  files,      \* how many were stored
  photo,      \* the profile_images row: [exists, ref, data, version]
  shown,      \* users.profileImage: the version in the path, or None
  row,        \* row[r]: the file of a row, 0: there is no row
  latest,     \* what the driver saved last as the document
  call,       \* call[p]: [pc, picture, file, previous]
  mover,      \* mover[g]: [pc, at, path, file], at: the row it is at
  erase,      \* the erasure: [pc, ref]
  raced,      \* two changes of the photo were in flight together, or one died
  leaked,     \* a file that nothing refers to was left, as the code accepts
  unsure,     \* a write was made and reported as failed
  failures

fileVars == <<stored, content, files, photo, shown, row, latest, call, mover, erase, raced, leaked, unsure, failures>>

None == "none"
NoCall == [pc |-> "idle", picture |-> None, file |-> 0, previous |-> 0]
NoMove == [pc |-> "idle", at |-> 0, path |-> 0, file |-> 0]
NoPhoto == [exists |-> FALSE, ref |-> 0, data |-> None, version |-> None]
PhotoCalls == {"swap", "clear photo", "show", "hide", "discard photo"}

Init ==
  /\ photo = IF HasPhoto THEN [exists |-> TRUE, ref |-> 0, data |-> Old, version |-> Old] ELSE NoPhoto
  /\ shown = photo.version
  /\ row \in [1..Len(Rows) -> {0, 1}] /\ (Len(Rows) > 0 => row[1] = 1)
  /\ stored = (IF Len(Rows) > 0 THEN {1} ELSE {}) /\ files = 1
  /\ content = [f \in 1..MaxFiles |-> IF f = 1 THEN Old ELSE None] /\ latest = Old
  /\ call = [p \in Requests |-> NoCall] /\ mover = [g \in Movers |-> NoMove]
  /\ erase = [pc |-> "idle", ref |-> 0]
  /\ raced = FALSE /\ leaked = FALSE /\ unsure = FALSE /\ failures = 0

\* StorageService.put: a new file, whole or not at all.
Put(picture) ==
  /\ files < MaxFiles /\ files' = files + 1
  /\ stored' = stored \cup {files + 1}
  /\ content' = [content EXCEPT ![files + 1] = picture]
\* StorageService.remove: idempotent, and a failure leaves the file.
RemoveStored(f) ==
  \/ stored' = stored \ {f} /\ UNCHANGED <<leaked, failures>>
  \/ /\ f \in stored /\ failures < MaxFailures /\ failures' = failures + 1
     /\ leaked' = TRUE /\ UNCHANGED stored
Goes(p, to) == call' = [call EXCEPT ![p] = to]

-----------------------------------------------------------------------------
(* The profile photo *)

profileImageProblem(p) ==
  ~ /\ p.image /\ p.bytes <= Rule.maxBytes
    /\ {p.width, p.height} \subseteq Rule.minSide..Rule.maxSide
    /\ 100 * p.height \in (Rule.minAspect * p.width)..(Rule.maxAspect * p.width)

PhotoBusy == (\E p \in Requests : call[p].pc \in PhotoCalls) \/ erase.pc # "idle"
\* replace: the picture is judged by its bytes and stored, before the row is touched.
Upload(p) ==
  /\ call[p].pc = "idle" /\ Len(Rows) = 0
  /\ \E picture \in DOMAIN Pictures :
       /\ ~profileImageProblem(Pictures[picture])
       /\ Put(picture)
       /\ Goes(p, [NoCall EXCEPT !.pc = "swap", !.picture = picture, !.file = files + 1])
  /\ raced' = (raced \/ PhotoBusy)
  /\ UNCHANGED <<photo, shown, row, latest, mover, erase, leaked, unsure, failures>>
\* findOneAndUpdate tells the row it replaced; if it fails the new file is dropped, also when the
\* row was written after all.
Swapped(p) == [exists |-> TRUE, ref |-> call[p].file, data |-> None, version |-> call[p].picture]
SwapRow(p) ==
  /\ call[p].pc = "swap"
  /\ \/ /\ photo' = Swapped(p)
        /\ Goes(p, [call[p] EXCEPT !.pc = "clear photo", !.previous = photo.ref])
        /\ UNCHANGED <<unsure, raced, leaked, failures>>
     \/ /\ failures < MaxFailures /\ failures' = failures + 1
        /\ Goes(p, [call[p] EXCEPT !.pc = "discard photo"])
        /\ \/ UNCHANGED <<photo, unsure, raced, leaked>>
           \/ photo' = Swapped(p) /\ unsure' = TRUE /\ raced' = TRUE /\ leaked' = TRUE
  /\ UNCHANGED <<stored, content, files, shown, row, latest, mover, erase>>
ClearPhoto(p) ==
  /\ call[p].pc = "clear photo"
  /\ RemoveStored(call[p].previous)
  /\ Goes(p, [call[p] EXCEPT !.pc = IF call[p].file = 0 THEN "hide" ELSE "show"])
  /\ UNCHANGED <<content, files, photo, shown, row, latest, mover, erase, raced, unsure>>
DiscardPhoto(p) ==
  /\ call[p].pc = "discard photo"
  /\ RemoveStored(call[p].file) /\ Goes(p, NoCall)
  /\ UNCHANGED <<content, files, photo, shown, row, latest, mover, erase, raced, unsure>>
\* users.profileImage gets the path with the version, or is unset.
Show(p) ==
  /\ call[p].pc \in {"show", "hide"}
  /\ shown' = IF call[p].pc = "show" THEN call[p].picture ELSE None
  /\ Goes(p, NoCall)
  /\ UNCHANGED <<stored, content, files, photo, row, latest, mover, erase, raced, leaked, unsure, failures>>
\* remove, which also a person without a photo may ask for
RemovePhoto(p) ==
  /\ call[p].pc = "idle" /\ Len(Rows) = 0
  /\ photo' = NoPhoto
  /\ Goes(p, [NoCall EXCEPT !.pc = "clear photo", !.previous = photo.ref])
  /\ raced' = (raced \/ PhotoBusy)
  /\ UNCHANGED <<stored, content, files, shown, row, latest, mover, erase, leaked, unsure, failures>>
\* The instance stops.
Die(p) ==
  /\ call[p].pc # "idle" /\ failures < MaxFailures
  /\ failures' = failures + 1 /\ Goes(p, NoCall) /\ raced' = TRUE /\ leaked' = TRUE
  /\ UNCHANGED <<stored, content, files, photo, shown, row, latest, mover, erase, unsure>>

\* erasePersonalData: the file that is found, then every row, then the person's path.
FindPhoto ==
  /\ Erasable /\ erase.pc = "idle"
  /\ erase' = [pc |-> "remove", ref |-> photo.ref]
  /\ raced' = (raced \/ PhotoBusy)
  /\ UNCHANGED <<stored, content, files, photo, shown, row, latest, call, mover, leaked, unsure, failures>>
EraseFile ==
  /\ erase.pc = "remove"
  /\ RemoveStored(erase.ref) /\ erase' = [erase EXCEPT !.pc = "rows"]
  /\ UNCHANGED <<content, files, photo, shown, row, latest, call, mover, raced, unsure>>
EraseRows ==
  /\ erase.pc = "rows"
  /\ photo' = NoPhoto /\ leaked' = (leaked \/ photo.ref # erase.ref)
  /\ erase' = [erase EXCEPT !.pc = "person"]
  /\ UNCHANGED <<stored, content, files, shown, row, latest, call, mover, raced, unsure, failures>>
ErasePerson ==
  /\ erase.pc = "person"
  /\ shown' = None /\ erase' = [erase EXCEPT !.pc = "done"]
  /\ UNCHANGED <<stored, content, files, photo, row, latest, call, mover, raced, leaked, unsure, failures>>

-----------------------------------------------------------------------------
(* The driver's document: addDocument and deleteDocument *)

UploadDocument(p) ==
  /\ call[p].pc = "idle" /\ Len(Rows) > 0
  /\ \E picture \in DOMAIN Pictures :
       Put(picture) /\ Goes(p, [NoCall EXCEPT !.pc = "read", !.picture = picture, !.file = files + 1])
  /\ UNCHANGED <<photo, shown, row, latest, mover, erase, raced, leaked, unsure, failures>>
ReadDocument(p) ==
  /\ call[p].pc = "read"
  /\ Goes(p, [call[p] EXCEPT !.pc = "save", !.previous = row[1]])
  /\ UNCHANGED <<stored, content, files, photo, shown, row, latest, mover, erase, raced, leaked, unsure, failures>>
\* The file that the migration has put there since is not the one that is removed.
SaveDocument(p) ==
  /\ call[p].pc = "save"
  /\ row' = [row EXCEPT ![1] = call[p].file] /\ latest' = call[p].picture
  /\ leaked' = (leaked \/ row[1] # call[p].previous)
  /\ Goes(p, [call[p] EXCEPT !.pc = "clear"])
  /\ UNCHANGED <<stored, content, files, photo, shown, mover, erase, raced, unsure, failures>>
ClearDocument(p) ==
  /\ call[p].pc = "clear"
  /\ RemoveStored(call[p].previous) /\ Goes(p, NoCall)
  /\ UNCHANGED <<content, files, photo, shown, row, latest, mover, erase, raced, unsure>>
FindDocument(p) ==
  /\ call[p].pc = "idle" /\ Len(Rows) > 0 /\ row[1] # 0
  /\ Goes(p, [NoCall EXCEPT !.pc = "delete", !.previous = row[1]])
  /\ UNCHANGED <<stored, content, files, photo, shown, row, latest, mover, erase, raced, leaked, unsure, failures>>
DeleteDocument(p) ==
  /\ call[p].pc = "delete"
  /\ row' = [row EXCEPT ![1] = 0] /\ leaked' = (leaked \/ row[1] # call[p].previous)
  /\ Goes(p, [call[p] EXCEPT !.pc = "clear"])
  /\ UNCHANGED <<stored, content, files, photo, shown, latest, mover, erase, raced, unsure, failures>>

-----------------------------------------------------------------------------
(* LegacyUploadsMigrator.run: the rows with a path on disk, then the photos stored inline *)

Legacy(f) == f = 1
StartRun(g) ==
  /\ mover[g].pc = "idle"
  /\ mover' = [mover EXCEPT ![g] = [NoMove EXCEPT !.pc = "list", !.at = 1]]
  /\ UNCHANGED <<stored, content, files, photo, shown, row, latest, call, erase, raced, leaked, unsure, failures>>
\* The row, as it is listed; a file that is gone from the disk is counted as missing.
ListRow(g) ==
  LET i == mover[g].at IN
  /\ mover[g].pc = "list" /\ i <= Len(Rows)
  /\ mover' = [mover EXCEPT ![g] = IF Legacy(row[i]) /\ row[i] \in stored
                                   THEN [@ EXCEPT !.pc = "copy", !.path = row[i]] ELSE [@ EXCEPT !.at = i + 1]]
  /\ UNCHANGED <<stored, content, files, photo, shown, row, latest, call, erase, raced, leaked, unsure, failures>>
CopyFile(g) ==
  /\ mover[g].pc = "copy"
  /\ IF mover[g].path \in stored
     THEN /\ Put(content[mover[g].path])
          /\ mover' = [mover EXCEPT ![g].pc = "point", ![g].file = files + 1]
     ELSE /\ mover' = [mover EXCEPT ![g].pc = "list", ![g].at = @ + 1]
          /\ UNCHANGED <<stored, content, files>>
  /\ UNCHANGED <<photo, shown, row, latest, call, erase, raced, leaked, unsure, failures>>
\* The row is pointed at the copy if it still holds the path; then the disk's file is deleted.
StillHolds(i, path) == row[i] = path
Point(g) ==
  LET i == mover[g].at IN
  /\ mover[g].pc = "point"
  /\ IF StillHolds(i, mover[g].path)
     THEN /\ row' = [row EXCEPT ![i] = mover[g].file]
          /\ mover' = [mover EXCEPT ![g] = [@ EXCEPT !.pc = "tidy", !.file = mover[g].path]]
     ELSE mover' = [mover EXCEPT ![g].pc = "tidy"] /\ UNCHANGED row
  /\ UNCHANGED <<stored, content, files, photo, shown, latest, call, erase, raced, leaked, unsure, failures>>
\* What is not wanted any more: the disk's file, or the copy.
Tidy(g) ==
  /\ mover[g].pc = "tidy"
  /\ RemoveStored(mover[g].file)
  /\ mover' = [mover EXCEPT ![g].pc = "list", ![g].at = @ + 1]
  /\ UNCHANGED <<content, files, photo, shown, row, latest, call, erase, raced, unsure>>
\* migrateProfileImages: the inline bytes are copied, and the row that has no file yet gets the copy.
ListPhoto(g) ==
  /\ mover[g].pc = "list" /\ mover[g].at > Len(Rows)
  /\ IF photo.exists /\ photo.ref = 0 /\ photo.data # None
     THEN Put(photo.data) /\ mover' = [mover EXCEPT ![g] = [NoMove EXCEPT !.pc = "photo", !.file = files + 1]]
     ELSE mover' = [mover EXCEPT ![g] = [NoMove EXCEPT !.pc = "done"]] /\ UNCHANGED <<stored, content, files>>
  /\ UNCHANGED <<photo, shown, row, latest, call, erase, raced, leaked, unsure, failures>>
HasNoFile == photo.exists /\ photo.ref = 0
PointPhoto(g) ==
  /\ mover[g].pc = "photo"
  /\ IF HasNoFile
     THEN /\ photo' = [photo EXCEPT !.ref = mover[g].file, !.data = None]
          /\ mover' = [mover EXCEPT ![g] = [NoMove EXCEPT !.pc = "done"]]
     ELSE mover' = [mover EXCEPT ![g].pc = "drop"] /\ UNCHANGED photo
  /\ UNCHANGED <<stored, content, files, shown, row, latest, call, erase, raced, leaked, unsure, failures>>
DropCopy(g) ==
  /\ mover[g].pc = "drop"
  /\ RemoveStored(mover[g].file)
  /\ mover' = [mover EXCEPT ![g] = [NoMove EXCEPT !.pc = "done"]]
  /\ UNCHANGED <<content, files, photo, shown, row, latest, call, erase, raced, unsure>>

CallStep(p) ==
  \/ Upload(p) \/ SwapRow(p) \/ ClearPhoto(p) \/ DiscardPhoto(p) \/ Show(p) \/ RemovePhoto(p) \/ Die(p)
  \/ UploadDocument(p) \/ ReadDocument(p) \/ SaveDocument(p) \/ ClearDocument(p)
  \/ FindDocument(p) \/ DeleteDocument(p)
EraseStep == FindPhoto \/ EraseFile \/ EraseRows \/ ErasePerson
MoveStep(g) ==
  \/ StartRun(g) \/ ListRow(g) \/ CopyFile(g) \/ Point(g) \/ Tidy(g)
  \/ ListPhoto(g) \/ PointPhoto(g) \/ DropCopy(g)
Next == (\E p \in Requests : CallStep(p)) \/ EraseStep \/ (\E g \in Movers : MoveStep(g))
Spec == Init /\ [][Next]_fileVars

-----------------------------------------------------------------------------

TypeOK ==
  /\ stored \subseteq 1..files /\ files \in 1..MaxFiles
  /\ photo.ref \in 0..files /\ {photo.version, shown, latest} \subseteq DOMAIN Pictures \cup {Old, None}
  /\ \A i \in 1..Len(Rows) : row[i] \in 0..files
  /\ \A p \in Requests : call[p].file \in 0..files /\ call[p].previous \in 0..files
  /\ \A g \in Movers : mover[g].file \in 0..files
  /\ {raced, leaked, unsure} \subseteq BOOLEAN /\ failures \in 0..MaxFailures

\* The photo a row refers to exists and is the picture its version, the key clients cache it by,
\* names; uploads, removals and runs of the migration may overlap in any order.
PhotoIsWhatItSays ==
  photo.exists /\ ~unsure =>
    IF photo.ref = 0 THEN photo.data = photo.version
    ELSE /\ content[photo.ref] = photo.version
         /\ photo.ref \in stored \/ (erase.pc = "rows" /\ erase.ref = photo.ref)

\* The document can be opened and is what the driver saved last, however many runs of the
\* migration move it meanwhile. (The approved request that shares its file is not so lucky: the
\* file is deleted as soon as the first of the two rows has been moved.)
DocumentIsReadable ==
  Len(Rows) > 0 /\ row[1] # 0 => row[1] \in stored /\ content[row[1]] = latest

AtRest ==
  /\ \A p \in Requests : call[p].pc = "idle"
  /\ \A g \in Movers : mover[g].pc \in {"idle", "done"}
  /\ erase.pc \in {"idle", "done"}
\* When nothing is under way every file is one that a row refers to, unless a write or a delete
\* failed, an instance stopped, or a file was replaced by one that its remover had not seen.
NothingIsLeftBehind ==
  AtRest /\ ~leaked => stored \subseteq {photo.ref} \cup {row[i] : i \in 1..Len(Rows)}

\* When nothing is under way the person's path names the photo's version, unless two changes
\* overlapped or one was cut short.
ShownIsTheirs == AtRest /\ ~raced => shown = photo.version

=============================================================================
