--------------------------- MODULE PopularPlaces ----------------------------
(***************************************************************************)
(* The popular destinations (PopularPlacesService and the controllers that *)
(* call it): the first boot seeds them, admins edit them side by side,     *)
(* riders read the list and then the photos it names, which their phones   *)
(* keep by version.  Places lie on a line.                                 *)
(***************************************************************************)
EXTENDS Integers, FiniteSets, Sequences, FiniteSetsExt, SequencesExt

CONSTANTS
  Seeds,        \* POPULAR_PLACE_SEEDS: [name, at, order]
  Ids,          \* documents there may ever be
  Nodes,        \* API instances that boot
  Admins,       \* requests of admins in flight
  Points,       \* where an edit may put a place
  Photos,       \* photos an admin may upload: version -> [bytes, width, height]
  Rule,         \* POPULAR_IMAGE_RULE: [bytes, width, height, minAspect, maxAspect], in percent
  Riders,       \* phones that show the list
  Nears,        \* where they are; Nowhere is unknown
  Radius, Limit,
  MaxWrites, MaxViews, MaxRestarts   \* bounds

VARIABLES
  place,      \* place[i]: [name, at, active, order, photo], or Absent
  boot,       \* boot[n]: off, empty (the collection was found empty) or up
  edit,       \* edit[a]: [pc, op, id, at]: an admin's request, between its awaits
  rider,      \* rider[r]: [list, near]: the list shown
  kept,       \* kept[v]: what a phone keeps for good under version v
  asked,      \* asked[i]: the point the last edit that named one asked for
  crossed,    \* an edit wrote back a point that had moved since it was read
  count       \* [writes, audited, lost, views, restarts]; lost: applied, then answered 404

popularVars == <<place, boot, edit, rider, kept, asked, crossed, count>>

None == "none"
Nowhere == -1
Absent == [name |-> None, at |-> 0, active |-> FALSE, order |-> 0, photo |-> None]
Exists(i) == place[i] # Absent
Unused == {i \in Ids : asked[i] = Nowhere}
NoEdit == [pc |-> "idle", op |-> None, id |-> 0, at |-> 0]
Meters(a, b) == IF a < b THEN b - a ELSE a - b

Init ==
  /\ place = [i \in Ids |-> Absent]
  /\ boot = [n \in Nodes |-> "off"] /\ edit = [a \in Admins |-> NoEdit]
  /\ rider = [r \in Riders |-> [list |-> <<>>, near |-> Nowhere]]
  /\ kept = [v \in DOMAIN Photos |-> {}]
  /\ asked = [i \in Ids |-> Nowhere] /\ crossed = FALSE
  /\ count = [writes |-> 0, audited |-> 0, lost |-> 0, views |-> 0, restarts |-> 0]

-----------------------------------------------------------------------------
\* onApplicationBootstrap: an empty collection is seeded; two instances may both find it empty.
Boot(n) ==
  /\ boot[n] = "off"
  /\ boot' = [boot EXCEPT ![n] = IF \E i \in Ids : Exists(i) THEN "up" ELSE "empty"]
  /\ UNCHANGED <<place, edit, rider, kept, asked, crossed, count>>
Seed(n) ==
  /\ boot[n] = "empty" /\ boot' = [boot EXCEPT ![n] = "up"]
  /\ \E ids \in kSubset(Cardinality(Seeds), Unused) :
       LET of == CHOOSE f \in [ids -> Seeds] : \A i, j \in ids : f[i] = f[j] => i = j IN
       /\ place' = [i \in Ids |-> IF i \in ids
                      THEN [Absent EXCEPT !.name = of[i].name, !.at = of[i].at,
                                          !.order = of[i].order, !.active = TRUE]
                      ELSE place[i]]
       /\ asked' = [i \in Ids |-> IF i \in ids THEN of[i].at ELSE asked[i]]
  /\ UNCHANGED <<edit, rider, kept, crossed, count>>
SeedFails(n) ==
  /\ boot[n] = "empty" /\ boot' = [boot EXCEPT ![n] = "up"]
  /\ UNCHANGED <<place, edit, rider, kept, asked, crossed, count>>
Restart(n) ==
  /\ boot[n] = "up" /\ count.restarts < MaxRestarts
  /\ boot' = [boot EXCEPT ![n] = "off"]
  /\ count' = [count EXCEPT !.restarts = @ + 1]
  /\ UNCHANGED <<place, edit, rider, kept, asked, crossed>>

-----------------------------------------------------------------------------
\* What an admin asks, once an instance is up.
Ask(a, request) ==
  /\ \E n \in Nodes : boot[n] = "up"
  /\ edit[a].pc = "idle" /\ count.writes < MaxWrites
  /\ edit' = [edit EXCEPT ![a] = request]
Wrote(a) ==
  /\ edit' = [edit EXCEPT ![a].pc = "written"]
  /\ count' = [count EXCEPT !.writes = @ + 1]

Create(a) ==
  \E i \in Unused, at \in Points :
    /\ Ask(a, [NoEdit EXCEPT !.pc = "written", !.op = "create", !.id = i])
    /\ place' = [place EXCEPT ![i] = [Absent EXCEPT !.name = "added", !.at = at, !.active = TRUE,
                                                    !.order = 100]]
    /\ asked' = [asked EXCEPT ![i] = at]
    /\ count' = [count EXCEPT !.writes = @ + 1]
    /\ UNCHANGED <<boot, rider, kept, crossed>>

\* update: the point is read first, and written back when the edit names none.
ReadPoint(a) ==
  \E i \in Ids, op \in {"hide", "move"} :
    /\ Exists(i)
    /\ Ask(a, [pc |-> "read", op |-> op, id |-> i, at |-> place[i].at])
    /\ UNCHANGED <<place, boot, rider, kept, asked, crossed, count>>
Update(a) ==
  LET i == edit[a].id IN
  /\ edit[a].pc = "read" /\ Wrote(a)
  /\ \E at \in IF edit[a].op = "move" THEN Points ELSE {edit[a].at} :
       IF Exists(i)
       THEN /\ place' = [place EXCEPT ![i].at = at, ![i].active = @ /\ edit[a].op # "hide"]
            /\ asked' = [asked EXCEPT ![i] = IF edit[a].op = "move" THEN at ELSE @]
            /\ crossed' = (crossed \/ (edit[a].op # "move" /\ place[i].at # edit[a].at))
       ELSE UNCHANGED <<place, asked, crossed>>
  /\ UNCHANGED <<boot, rider, kept>>

\* setImage and removeImage: a photo outside the rule is refused.
imageProblem(p) ==
  \/ p.bytes > Rule.bytes \/ p.width < Rule.width \/ p.height < Rule.height
  \/ p.height * 100 < Rule.minAspect * p.width \/ p.height * 100 > Rule.maxAspect * p.width
SetImage(a) ==
  \E i \in Ids, v \in DOMAIN Photos \cup {None} :
    /\ Exists(i) /\ (v # None => ~imageProblem(Photos[v]))
    /\ Ask(a, [NoEdit EXCEPT !.pc = "written", !.op = "image", !.id = i])
    /\ place' = [place EXCEPT ![i].photo = v]
    /\ count' = [count EXCEPT !.writes = @ + 1]
    /\ UNCHANGED <<boot, rider, kept, asked, crossed>>

\* remove answers with the name it deleted, so that it is always audited.
Delete(a) ==
  \E i \in Ids :
    /\ Exists(i)
    /\ Ask(a, [NoEdit EXCEPT !.pc = "removed", !.op = "delete", !.id = i])
    /\ place' = [place EXCEPT ![i] = Absent]
    /\ count' = [count EXCEPT !.writes = @ + 1]
    /\ UNCHANGED <<boot, rider, kept, asked, crossed>>

\* view, then the audit record: a place deleted since the write answers 404, and is not audited.
Audit(a) ==
  /\ edit[a].pc \in {"written", "removed"}
  /\ edit' = [edit EXCEPT ![a] = NoEdit]
  /\ count' = (IF edit[a].pc = "removed" \/ Exists(edit[a].id) THEN [count EXCEPT !.audited = @ + 1]
               ELSE [count EXCEPT !.lost = @ + 1])
  /\ UNCHANGED <<place, boot, rider, kept, asked, crossed>>

-----------------------------------------------------------------------------
\* forRider: the active places within the radius, nearest first; every active one in admin order
\* when the rider's place is unknown.  The suggestion names the photo by its version.
Row(i, near) ==
  [id |-> i, at |-> place[i].at, photo |-> place[i].photo,
   rank |-> IF near = Nowhere THEN place[i].order ELSE Meters(near, place[i].at)]
forRider(near) ==
  LET rows == {Row(i, near) : i \in {j \in Ids : /\ place[j].active
                                                 /\ near = Nowhere \/ Meters(near, place[j].at) <= Radius}}
      all == SetToSortSeq(rows, LAMBDA x, y : x.rank < y.rank \/ (x.rank = y.rank /\ x.id < y.id)) IN
  SubSeq(all, 1, IF Len(all) < Limit THEN Len(all) ELSE Limit)
View(r) ==
  /\ count.views < MaxViews
  /\ \E near \in Nears : rider' = [rider EXCEPT ![r] = [list |-> forRider(near), near |-> near]]
  /\ count' = [count EXCEPT !.views = @ + 1]
  /\ UNCHANGED <<place, boot, edit, kept, asked, crossed>>

\* popularImage: whatever photo the place has now is served, to be kept for good only when the
\* version asked for is its version.
Immutable(requested, version) == requested = version
FetchPhoto(r) ==
  \E k \in DOMAIN rider[r].list :
    LET row == rider[r].list[k]  version == place[row.id].photo IN
    /\ row.photo # None /\ version # None /\ Immutable(row.photo, version)
    /\ kept' = [kept EXCEPT ![row.photo] = @ \cup {version}]
    /\ UNCHANGED <<place, boot, edit, rider, asked, crossed, count>>

Next ==
  \/ \E n \in Nodes : Boot(n) \/ Seed(n) \/ SeedFails(n) \/ Restart(n)
  \/ \E a \in Admins : Create(a) \/ ReadPoint(a) \/ Update(a) \/ SetImage(a) \/ Delete(a) \/ Audit(a)
  \/ \E r \in Riders : View(r) \/ FetchPhoto(r)

Spec == Init /\ [][Next]_popularVars

-----------------------------------------------------------------------------
\* Type invariant: lists are within the limit, and every photo shown passes the rule.
TypeOK ==
  /\ \A i \in Ids : Exists(i) => place[i].at \in Points \cup {s.at : s \in Seeds}
  /\ \A i \in Ids : place[i].photo \in DOMAIN Photos \cup {None}
  /\ \A r \in Riders : Len(rider[r].list) <= Limit

\* A place is where the last admin who moved it put it, unless an edit that read the point before
\* the move wrote the old one back after it.
PlaceIsWhereItWasPut == \A i \in Ids : Exists(i) /\ ~crossed => place[i].at = asked[i]

\* Seeding is for the first boot: restarts do not add the seeds again to the places that are left,
\* though each of the instances that found the collection empty adds them (no unique index).
SeededByTheFirstBoots ==
  \A s \in Seeds : Cardinality({i \in Ids : place[i].name = s.name}) <= Cardinality(Nodes)

\* A photo that a phone keeps under a version is that photo, however the place changed between the
\* list and the request for the photo.
KeptPhotosAreTheirs == \A v \in DOMAIN Photos : kept[v] \subseteq {v}

\* Every edit that was applied is audited or answered 404 because its place was deleted under it,
\* and every place that is gone has a record that says who deleted it.
EditsAreAudited ==
  /\ count.audited + count.lost + Cardinality({a \in Admins : edit[a].pc \in {"written", "removed"}})
       = count.writes
  /\ Cardinality({i \in Ids : asked[i] # Nowhere /\ ~Exists(i)})
       <= count.audited + Cardinality({a \in Admins : edit[a].pc = "removed"})
  /\ count.lost > 0 => \E i \in Ids : asked[i] # Nowhere /\ ~Exists(i)
=============================================================================
