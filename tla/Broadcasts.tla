----------------------------- MODULE Broadcasts -----------------------------
(***************************************************************************)
(* One announcement: admins edit, schedule, cancel and send it, the worker *)
(* of each instance picks up what is due and what a dead sender left, and  *)
(* a sender goes through the audience batch by batch (BroadcastsService,   *)
(* NotificationsService.notify).                                           *)
(*                                                                         *)
(* Users are numbered in the order of their ids.  A sender that is late    *)
(* for its lease, and one that died, both just take no step for a while.   *)
(***************************************************************************)
EXTENDS Naturals, FiniteSets

CONSTANTS
  Users,         \* the accounts of the audience, 1 .. n in id order
  BatchSize,     \* broadcastBatchSize
  Admins,        \* edits in flight
  Senders,       \* deliveries, in any process
  MaxEdits, MaxBlocks, MaxFailures   \* bounds

VARIABLES
  broadcast,   \* [status, title, scheduled, leased, cursor, processed]
  edit,        \* edit[a]: [pc, title, schedule]: update, between its read and its write
  sender,      \* sender[s]: [pc, cursor, processed, batch, title]
  noted,       \* noted[u]: the titles of u's ANNOUNCEMENT notifications of it
  blocked,     \* accounts blocked or deleted
  past         \* [edits, blocks, failures] so far

broadcastVars == <<broadcast, edit, sender, noted, blocked, past>>

Draft == "DRAFT"
BroadcastStatus == {Draft, "SCHEDULED", "SENDING", "SENT", "CANCELLED", "FAILED"}
EDITABLE == {Draft, "SCHEDULED"}
Broadcast ==
  [status : BroadcastStatus, title : 0..MaxEdits, scheduled : BOOLEAN, leased : BOOLEAN,
   cursor : Users \cup {0}, processed : Nat]
NoEdit == [pc |-> "idle", title |-> 0, schedule |-> FALSE]
NoSender == [pc |-> "idle", cursor |-> 0, processed |-> 0, batch |-> {}, title |-> 0]

Init ==
  /\ \E scheduled \in BOOLEAN :
       broadcast = [status |-> IF scheduled THEN "SCHEDULED" ELSE Draft, title |-> 0,
                    scheduled |-> scheduled, leased |-> FALSE, cursor |-> 0, processed |-> 0]
  /\ edit = [a \in Admins |-> NoEdit]
  /\ sender = [s \in Senders |-> NoSender]
  /\ noted = [u \in Users |-> {}]
  /\ blocked = {}
  /\ past = [edits |-> 0, blocks |-> 0, failures |-> 0]

Editable == broadcast.status \in EDITABLE
Fails == past.failures < MaxFailures /\ past' = [past EXCEPT !.failures = @ + 1]

-----------------------------------------------------------------------------
\* update: the document is read, merged with what the admin changes, and written whole while it is
\* still editable.
EditRead(a) ==
  /\ edit[a].pc = "idle" /\ Editable /\ past.edits < MaxEdits
  /\ \E schedule \in {"keep", "set", "clear"}, retitle \in BOOLEAN :
       edit' = [edit EXCEPT ![a] =
         [pc |-> "write", title |-> IF retitle THEN past.edits + 1 ELSE broadcast.title,
          schedule |-> CASE schedule = "keep" -> broadcast.scheduled
                         [] schedule = "set" -> TRUE
                         [] schedule = "clear" -> FALSE]]
  /\ past' = [past EXCEPT !.edits = @ + 1]
  /\ UNCHANGED <<broadcast, sender, noted, blocked>>

Writable == Editable
EditWrite(a) ==
  /\ edit[a].pc = "write"
  /\ broadcast' = IF Writable
                  THEN [broadcast EXCEPT !.title = edit[a].title, !.scheduled = edit[a].schedule,
                                         !.status = IF edit[a].schedule THEN "SCHEDULED" ELSE Draft]
                  ELSE broadcast
  /\ edit' = [edit EXCEPT ![a] = NoEdit]
  /\ UNCHANGED <<sender, noted, blocked, past>>

Cancel ==
  /\ Editable
  /\ broadcast' = [broadcast EXCEPT !.status = "CANCELLED"]
  /\ UNCHANGED <<edit, sender, noted, blocked, past>>

\* The sender works with the document it claimed, and from its cursor.
Delivers(s) ==
  sender' = [sender EXCEPT ![s] = [pc |-> "next", cursor |-> broadcast.cursor, batch |-> {},
                                   processed |-> broadcast.processed, title |-> broadcast.title]]

\* sendNow by an admin.
SendNow(s) ==
  /\ sender[s].pc = "idle" /\ Editable
  /\ broadcast' = [broadcast EXCEPT !.status = "SENDING", !.leased = TRUE]
  /\ Delivers(s)
  /\ UNCHANGED <<edit, noted, blocked, past>>

\* runDue: a scheduled broadcast whose time has come, or a send whose lease is over.
Due == \/ broadcast.status = "SCHEDULED"
       \/ broadcast.status = "SENDING" /\ ~broadcast.leased
RunDue(s) ==
  /\ sender[s].pc = "idle" /\ Due
  /\ broadcast' = [broadcast EXCEPT !.status = "SENDING", !.leased = TRUE]
  /\ Delivers(s)
  /\ UNCHANGED <<edit, noted, blocked, past>>
LeaseEnds ==
  /\ broadcast.status = "SENDING" /\ broadcast.leased
  /\ broadcast' = [broadcast EXCEPT !.leased = FALSE]
  /\ UNCHANGED <<edit, sender, noted, blocked, past>>

-----------------------------------------------------------------------------
\* The first BatchSize accounts after the cursor that are neither blocked nor deleted.
After(cursor) == {u \in Users \ blocked : u > cursor}
Recipients(cursor) ==
  {u \in After(cursor) : Cardinality({v \in After(cursor) : v < u}) < BatchSize}
NextRecipients(s) ==
  /\ sender[s].pc = "next"
  /\ LET batch == Recipients(sender[s].cursor) IN
       sender' = [sender EXCEPT ![s].batch = batch, ![s].pc = IF batch = {} THEN "sent" ELSE "notify"]
  /\ UNCHANGED <<broadcast, edit, noted, blocked, past>>

\* notify: the dedupe key keeps an overlapping send from telling anyone twice; a record that fails
\* is logged and passed over.
Notified(u, title) == IF noted[u] = {} THEN {title} ELSE noted[u]
Notify(s) ==
  /\ sender[s].pc = "notify"
  /\ \E lost \in SUBSET sender[s].batch :
       /\ IF lost = {} THEN UNCHANGED past ELSE Cardinality(lost) = 1 /\ Fails
       /\ noted' = [u \in Users |-> IF u \in sender[s].batch \ lost
                                    THEN Notified(u, sender[s].title) ELSE noted[u]]
  /\ sender' = [sender EXCEPT ![s].pc = "save"]
  /\ UNCHANGED <<broadcast, edit, blocked>>

\* The cursor, the count and the lease go forward together, in a broadcast that is being sent.
LastOf(batch) == CHOOSE u \in batch : \A v \in batch : v <= u
SaveProgress(s) ==
  LET cursor == LastOf(sender[s].batch)
      processed == sender[s].processed + Cardinality(sender[s].batch)
  IN /\ sender[s].pc = "save"
     /\ broadcast' = IF broadcast.status = "SENDING"
                     THEN [broadcast EXCEPT !.cursor = cursor, !.processed = processed,
                                            !.leased = TRUE]
                     ELSE broadcast
     /\ sender' = [sender EXCEPT ![s].pc = "next", ![s].cursor = cursor,
                                 ![s].processed = processed, ![s].batch = {}]
     /\ UNCHANGED <<edit, noted, blocked, past>>

Ends(s, status) ==
  /\ broadcast' = IF broadcast.status = "SENDING"
                  THEN [broadcast EXCEPT !.status = status, !.processed = sender[s].processed]
                  ELSE broadcast
  /\ sender' = [sender EXCEPT ![s] = NoSender]
Sent(s) ==
  /\ sender[s].pc = "sent"
  /\ Ends(s, "SENT")
  /\ UNCHANGED <<edit, noted, blocked, past>>

\* The database fails under a sender: the whole broadcast is FAILED, for good.
SendFails(s) ==
  /\ sender[s].pc \in {"next", "save"} /\ Fails
  /\ Ends(s, "FAILED")
  /\ UNCHANGED <<edit, noted, blocked>>

Block(u) ==
  /\ u \notin blocked /\ past.blocks < MaxBlocks
  /\ blocked' = blocked \cup {u}
  /\ past' = [past EXCEPT !.blocks = @ + 1]
  /\ UNCHANGED <<broadcast, edit, sender, noted>>

Next ==
  \/ \E a \in Admins : EditRead(a) \/ EditWrite(a)
  \/ Cancel \/ LeaseEnds
  \/ \E s \in Senders : \/ SendNow(s) \/ RunDue(s) \/ NextRecipients(s) \/ Notify(s)
                        \/ SaveProgress(s) \/ Sent(s) \/ SendFails(s)
  \/ \E u \in Users : Block(u)

Spec == Init /\ [][Next]_broadcastVars

-----------------------------------------------------------------------------
\* Type invariant: the broadcast is a document its schema allows.
TypeOK == broadcast \in Broadcast /\ noted \in [Users -> SUBSET (0..MaxEdits)]

\* Everybody who hears of a broadcast hears the wording it was claimed with, once, although edits
\* that were read before the claim are written after it and several senders may overlap.
OneWording ==
  \A u \in Users : noted[u] # {} => noted[u] = {broadcast.title} /\ ~Editable

\* A broadcast that is cancelled reached nobody (cancel against sendNow and runDue).
CancelledReachesNobody == broadcast.status = "CANCELLED" => \A u \in Users : noted[u] = {}

\* A broadcast that is SENT reached every account that is not blocked by then: a sender that resumes
\* from another's cursor, or from one a slow sender moved back, leaves nobody out.  Only a record
\* that failed can be missing.
SentReachesEveryone ==
  broadcast.status = "SENT" /\ past.failures = 0 =>
    \A u \in Users \ blocked : noted[u] # {}

\* The count agrees with the cursor it is stored with, so it is the number of recipients once the
\* broadcast is SENT, whichever sender wrote last (deliver).
CountIsOfTheCursor ==
  past.blocks = 0 /\ broadcast.status \in {"SENDING", "SENT"} =>
    broadcast.processed =
      IF broadcast.status = "SENT" THEN Cardinality(Users)
      ELSE Cardinality({u \in Users : u <= broadcast.cursor})
=============================================================================
