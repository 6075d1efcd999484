---------------------------- MODULE SavedPlaces -----------------------------
(***************************************************************************)
(* A rider's Home, Work and own labelled places (SavedPlacesService): the  *)
(* indexes are prepared when an instance starts, over rows an older        *)
(* release left, and the rider's phones save, rename and remove side by    *)
(* side.  An upsert is a search and an insert.                             *)
(***************************************************************************)
EXTENDS Naturals, FiniteSets

CONSTANTS
  Ids,          \* rows there may ever be
  Starts,       \* what the older release left: [rows, index]
  Requests,     \* requests in flight
  Labels,       \* label keys
  MAX_OTHER_SAVED_PLACES,
  MaxRequests, MaxFailures    \* bounds

VARIABLES
  saved,      \* saved[i]: [kind, slot, label, address], or Gone
  indexes,    \* the unique indexes there are: legacy (kind), slot, label
  prepare,    \* where onModuleInit is
  request,    \* request[q]: [pc, op, kind, id, label, count, retried]
  fact,       \* [bare, crowded]: a write met no index; an add counted too early
  count       \* [used, requests, failures]; used: ids taken

savedVars == <<saved, indexes, prepare, request, fact, count>>

None == "none"
FIXED_SAVED_PLACE_KINDS == {"home", "work"}
Gone == [kind |-> None, slot |-> None, label |-> None, address |-> 0]
Row(kind, slot, label) == [kind |-> kind, slot |-> slot, label |-> label, address |-> 0]
Rows == {i \in Ids : saved[i] # Gone}
Others == {i \in Rows : saved[i].kind = "other"}
Fresh == CHOOSE i \in Ids : i \notin count.used
NoRequest ==
  [pc |-> "idle", op |-> None, kind |-> None, id |-> 0, label |-> None, count |-> 0, retried |-> FALSE]

Init ==
  /\ \E start \in Starts :
       /\ saved = [i \in Ids |-> IF i \in DOMAIN start.rows THEN start.rows[i] ELSE Gone]
       /\ indexes = start.indexes
       /\ count = [used |-> DOMAIN start.rows, requests |-> 0, failures |-> 0]
  /\ prepare = "backfill"
  /\ request = [q \in Requests |-> NoRequest]
  /\ fact = [bare |-> FALSE, crowded |-> FALSE]

-----------------------------------------------------------------------------
\* onModuleInit: the slot of every Home and Work row is filled in, then the index that allowed one
\* row of a kind goes, then the new ones are made.  A failure is logged and the API starts.
Backfill ==
  /\ prepare = "backfill" /\ prepare' = "drop"
  /\ saved' = [i \in Ids |-> IF saved[i].kind \in FIXED_SAVED_PLACE_KINDS /\ saved[i].slot = None
                             THEN [saved[i] EXCEPT !.slot = saved[i].kind] ELSE saved[i]]
  /\ UNCHANGED <<indexes, request, fact, count>>
DropLegacy ==
  /\ prepare = "drop" /\ prepare' = "create"
  /\ indexes' = indexes \ {"legacy"}
  /\ UNCHANGED <<saved, request, fact, count>>
Alone(S, same(_, _)) == \A i, j \in S : i # j => ~same(i, j)
CreateIndexes ==
  /\ prepare = "create" /\ prepare' = "up"
  /\ indexes' = indexes
       \cup (IF Alone({i \in Rows : saved[i].slot # None}, LAMBDA i, j : saved[i].slot = saved[j].slot)
             THEN {"slot"} ELSE {})
       \cup (IF Alone(Others, LAMBDA i, j : saved[i].label = saved[j].label) THEN {"label"} ELSE {})
  /\ UNCHANGED <<saved, request, fact, count>>
PrepareFails ==
  /\ prepare \in {"backfill", "drop", "create"} /\ count.failures < MaxFailures
  /\ prepare' = "up" /\ count' = [count EXCEPT !.failures = @ + 1]
  /\ UNCHANGED <<saved, indexes, request, fact>>
\* The next start prepares again.
Restart ==
  /\ prepare = "up" /\ \A q \in Requests : request[q].pc = "idle"
  /\ indexes # {"slot", "label"}
  /\ prepare' = "backfill"
  /\ UNCHANGED <<saved, indexes, request, fact, count>>

-----------------------------------------------------------------------------
\* What the unique indexes refuse.
Duplicate(row, but) ==
  \E i \in Rows \ {but} :
    \/ "legacy" \in indexes /\ saved[i].kind = row.kind
    \/ "slot" \in indexes /\ row.slot # None /\ saved[i].slot = row.slot
    \/ "label" \in indexes /\ row.label # None /\ saved[i].label = row.label
Bare(index) == [fact EXCEPT !.bare = @ \/ index \cap indexes = {}]

Ask(q, r) ==
  /\ prepare = "up" /\ request[q].pc = "idle" /\ count.requests < MaxRequests
  /\ request' = [request EXCEPT ![q] = r]
  /\ count' = [count EXCEPT !.requests = @ + 1]
Goes(q, pc) == request' = [request EXCEPT ![q].pc = pc]
Ends(q) == request' = [request EXCEPT ![q] = NoRequest]

\* save: the row of the slot is replaced; when there is none it is inserted, and the loser of two
\* first saves tries once more.
Slot(kind) == {i \in Rows : saved[i].slot = kind}
Save(q) ==
  \E kind \in FIXED_SAVED_PLACE_KINDS :
    /\ Ask(q, [NoRequest EXCEPT !.pc = "find", !.op = "save", !.kind = kind])
    /\ UNCHANGED <<saved, indexes, prepare, fact>>
FindSlot(q) ==
  LET found == Slot(request[q].kind) IN
  /\ request[q].pc = "find"
  /\ IF found = {} THEN Goes(q, "insert") /\ UNCHANGED saved
     ELSE \E i \in found : saved' = [saved EXCEPT ![i].address = 1 - @] /\ Ends(q)
  /\ UNCHANGED <<indexes, prepare, fact, count>>
InsertSlot(q) ==
  LET kind == request[q].kind  row == Row(kind, kind, None) IN
  /\ request[q].pc = "insert"
  /\ IF Duplicate(row, 0)
     THEN /\ request' = [request EXCEPT ![q] = IF @.retried THEN NoRequest
                                               ELSE [@ EXCEPT !.pc = "find", !.retried = TRUE]]
          /\ UNCHANGED <<saved, fact, count>>
     ELSE /\ count.used # Ids
          /\ saved' = [saved EXCEPT ![Fresh] = row] /\ Ends(q)
          /\ fact' = Bare({"legacy", "slot"})
          /\ count' = [count EXCEPT !.used = @ \cup {Fresh}]
  /\ UNCHANGED <<indexes, prepare>>
Clear(q) ==
  \E kind \in FIXED_SAVED_PLACE_KINDS :
    /\ Ask(q, NoRequest) /\ Slot(kind) # {}
    /\ \E i \in Slot(kind) : saved' = [saved EXCEPT ![i] = Gone]
    /\ UNCHANGED <<indexes, prepare, fact>>

\* addOther: the places are counted, then the new one is created.
AddOther(q) ==
  \E l \in Labels :
    /\ Ask(q, [NoRequest EXCEPT !.pc = "create", !.op = "add", !.label = l, !.count = Cardinality(Others)])
    /\ Cardinality(Others) < MAX_OTHER_SAVED_PLACES
    /\ UNCHANGED <<saved, indexes, prepare, fact>>
Create(q) ==
  LET row == Row("other", None, request[q].label) IN
  /\ request[q].pc = "create" /\ Ends(q)
  /\ IF Duplicate(row, 0) THEN UNCHANGED <<saved, fact, count>>
     ELSE /\ count.used # Ids
          /\ saved' = [saved EXCEPT ![Fresh] = row]
          /\ fact' = [Bare({"label"}) EXCEPT !.crowded = @ \/ request[q].count < Cardinality(Others)]
          /\ count' = [count EXCEPT !.used = @ \cup {Fresh}]
  /\ UNCHANGED <<indexes, prepare>>

\* updateOther and removeOther: one write each.
UpdateOther(q) ==
  \E i \in Others, l \in Labels :
    /\ Ask(q, NoRequest) /\ ~Duplicate([saved[i] EXCEPT !.label = l], i)
    /\ saved' = [saved EXCEPT ![i].label = l]
    /\ fact' = Bare({"label"})
    /\ UNCHANGED <<indexes, prepare>>
RemoveOther(q) ==
  \E i \in Others :
    /\ Ask(q, NoRequest) /\ saved' = [saved EXCEPT ![i] = Gone]
    /\ UNCHANGED <<indexes, prepare, fact>>

Next ==
  \/ Backfill \/ DropLegacy \/ CreateIndexes \/ PrepareFails \/ Restart
  \/ \E q \in Requests :
       \/ Save(q) \/ FindSlot(q) \/ InsertSlot(q) \/ Clear(q)
       \/ AddOther(q) \/ Create(q) \/ UpdateOther(q) \/ RemoveOther(q)

Spec == Init /\ [][Next]_savedVars

-----------------------------------------------------------------------------
\* Type invariant: slots are of Home and Work rows, labels of the others.
TypeOK ==
  \A i \in Rows :
    /\ saved[i].slot \in {None, saved[i].kind} /\ (saved[i].kind = "other" => saved[i].slot = None)
    /\ saved[i].label # None <=> saved[i].kind = "other"

\* A rider has one Home and one Work, over rows of either release, while two phones save it for
\* the first time, and through a start that failed half way, unless one was saved when a failed
\* start had left no index at all.
OneOfEach ==
  ~fact.bare => \A kind \in FIXED_SAVED_PLACE_KINDS :
                  Cardinality({i \in Rows : saved[i].kind = kind}) <= 1

\* No two of a rider's own places share a label, and there are more than the limit only if two
\* phones added at once (the count and the create are apart).
LabelsDiffer ==
  ~fact.bare => \A i, j \in Others : i # j => saved[i].label # saved[j].label
OthersAreFew == ~fact.crowded => Cardinality(Others) <= MAX_OTHER_SAVED_PLACES

\* A Home or Work the rider sees is one the rider can replace: once a start has gone through, the
\* row has its slot, so that the next save finds it (backfill before the old index goes).
ShownIsReplaceable ==
  "legacy" \notin indexes => \A i \in Rows : saved[i].kind \in FIXED_SAVED_PLACE_KINDS =>
                               saved[i].slot = saved[i].kind
=============================================================================
