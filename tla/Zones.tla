------------------------------- MODULE Zones --------------------------------
(***************************************************************************)
(* The service area (ZonesService, zone-geometry.ts and the zone endpoints *)
(* of the admin panel): admins draw zones and switch them on and off while *)
(* riders book, and a booking asks in two reads whether its pickup is      *)
(* served.  Coordinates are the points <<longitude, latitude>> of a grid.  *)
(***************************************************************************)
EXTENDS Integers, FiniteSets, Sequences, SequencesExt

CONSTANTS
  Ids,         \* zones there may ever be
  Names,       \* their names, in order
  Drafts,      \* boundaries an admin may draw: sequences of points
  Pickups,     \* points riders book from
  Admins, Bookings,    \* requests in flight
  MaxVertices,         \* MAX_ZONE_VERTICES
  MaxRequests          \* bound

VARIABLES
  zone,       \* zone[i]: [name, status, ring], or Absent
  desk,       \* desk[a]: [pc, id, name, ring, to]
  booking,    \* booking[b]: [pc, at, zone, always, ever, opened]
  answer,     \* the boundary drawn last and what it was answered: [draft, reason]
  record,     \* record[i]: the status the last audit record of a zone names
  crossed,    \* crossed[i]: two switches of the zone were in flight together
  requests

zoneVars == <<zone, desk, booking, answer, record, crossed, requests>>

MIN_ZONE_VERTICES == 3
None == "none"
Absent == [name |-> 0, status |-> None, ring |-> <<>>]
Away == [pc |-> "idle", id |-> 0, name |-> 0, ring |-> <<>>, to |-> None]
NoBooking == [pc |-> "idle", at |-> <<0, 0>>, zone |-> 0, always |-> TRUE, ever |-> FALSE, opened |-> FALSE]

Init ==
  /\ zone = [i \in Ids |-> Absent] /\ desk = [a \in Admins |-> Away]
  /\ booking = [b \in Bookings |-> NoBooking] /\ answer = [draft |-> <<>>, reason |-> None]
  /\ record = [i \in Ids |-> None] /\ crossed = [i \in Ids |-> FALSE] /\ requests = 0

-----------------------------------------------------------------------------
(* zone-geometry.ts *)

Turn(p, q, r) == (q[2] - p[2]) * (r[1] - q[1]) - (q[1] - p[1]) * (r[2] - q[2])
orientation(p, q, r) == IF Turn(p, q, r) = 0 THEN 0 ELSE IF Turn(p, q, r) > 0 THEN 1 ELSE 2
segmentsIntersect(p1, q1, p2, q2) ==
  /\ orientation(p1, q1, p2) # orientation(p1, q1, q2)
  /\ orientation(p2, q2, p1) # orientation(p2, q2, q1)

After(ring, i) == ring[(i % Len(ring)) + 1]
\* Edges that share no vertex of the ring.
Apart(ring) ==
  {e \in (DOMAIN ring) \X (DOMAIN ring) : /\ e[2] > e[1] + 1
                                      /\ ~(e[1] = 1 /\ e[2] = Len(ring))}
signedArea(ring) ==
  FoldLeft(LAMBDA sum, i : sum + ring[i][1] * After(ring, i)[2] - After(ring, i)[1] * ring[i][2],
           0, [i \in DOMAIN ring |-> i])

\* Consecutive repeats and the closing point are dropped.
Distinct(draft) ==
  LET points == FoldLeft(LAMBDA seen, p : IF seen # <<>> /\ Last(seen) = p THEN seen ELSE Append(seen, p),
                         <<>>, draft) IN
  IF Len(points) > 1 /\ Head(points) = Last(points) THEN Front(points) ELSE points

polygonFromPoints(draft) ==
  LET ring == Distinct(draft) IN
  IF \E p \in ToSet(draft) : p[1] \notin -180..180 \/ p[2] \notin -90..90 THEN "point"
  ELSE IF Len(ring) < MIN_ZONE_VERTICES THEN "few"
  ELSE IF Len(ring) > MaxVertices THEN "many"
  ELSE IF \E e \in Apart(ring) : segmentsIntersect(ring[e[1]], After(ring, e[1]), ring[e[2]], After(ring, e[2]))
  THEN "crosses"
  ELSE IF signedArea(ring) = 0 THEN "area" ELSE "accepted"

-----------------------------------------------------------------------------
(* What MongoDB makes of a boundary *)

On(p, a, b) ==
  /\ Turn(a, b, p) = 0
  /\ \A k \in 1..2 : \/ a[k] <= p[k] /\ p[k] <= b[k]
                     \/ b[k] <= p[k] /\ p[k] <= a[k]
\* Two edges meet: their lines do, within both, or they lie on one line and share a point.
Meet(a, b, c, d) ==
  LET across == (b[1] - a[1]) * (d[2] - c[2]) - (b[2] - a[2]) * (d[1] - c[1])
      s == (c[1] - a[1]) * (d[2] - c[2]) - (c[2] - a[2]) * (d[1] - c[1])
      t == (c[1] - a[1]) * (b[2] - a[2]) - (c[2] - a[2]) * (b[1] - a[1])
      Within(x) == IF across > 0 THEN x \in 0..across ELSE x \in across..0 IN
  IF across # 0 THEN Within(s) /\ Within(t)
  ELSE \/ On(a, c, d) \/ On(b, c, d) \/ On(c, a, b) \/ On(d, a, b)
FoldsBack(ring, i) ==
  LET a == ring[i]  b == After(ring, i)  c == After(ring, (i % Len(ring)) + 1) IN
  On(c, a, b) \/ On(a, b, c)
Simple(ring) ==
  /\ \A e \in Apart(ring) : ~Meet(ring[e[1]], After(ring, e[1]), ring[e[2]], After(ring, e[2]))
  /\ \A i \in DOMAIN ring : ~FoldsBack(ring, i)
\* $geoIntersects: on the boundary, or an odd number of edges to the right.
Covers(ring, p) ==
  \/ \E i \in DOMAIN ring : On(p, ring[i], After(ring, i))
  \/ Cardinality({i \in DOMAIN ring :
       LET a == ring[i]  b == After(ring, i) IN
       /\ (a[2] <= p[2]) # (b[2] <= p[2])
       /\ (Turn(a, b, p) < 0) = (a[2] <= p[2])}) % 2 = 1

InForce(zones) == {i \in Ids : zones[i].status = "ACTIVE"}
Covering(zones, p) == {i \in InForce(zones) : Covers(zones[i].ring, p)}
Served(zones, p) == InForce(zones) = {} \/ Covering(zones, p) # {}

-----------------------------------------------------------------------------
(* The admin panel *)

\* A write of a zone, and what the bookings between their reads make of it.
Writes(i, z) ==
  /\ zone' = [zone EXCEPT ![i] = z]
  /\ booking' = [b \in Bookings |->
       IF booking[b].pc # "exists" THEN booking[b]
       ELSE LET served == Served(zone', booking[b].at) IN
            [booking[b] EXCEPT !.always = @ /\ served, !.ever = @ \/ served,
                               !.opened = @ \/ (InForce(zone) = {} /\ InForce(zone') # {})]]
NameTaken(i, name) == \E j \in Ids \ {i} : zone[j] # Absent /\ zone[j].name = name
\* persist: a name that is taken and a boundary MongoDB cannot index are refused.
Persistable(i, name, ring) == ~NameTaken(i, name) /\ Simple(ring)

\* create: a zone is in force from its insert on unless it is drawn inactive.
Create(a) ==
  /\ desk[a].pc = "idle" /\ requests < MaxRequests
  /\ \E draft \in Drafts, i \in Ids, name \in Names, status \in {"ACTIVE", "INACTIVE"} :
       LET reason == polygonFromPoints(draft)  ring == Distinct(draft) IN
       /\ zone[i] = Absent /\ \A j \in Ids : j < i => zone[j] # Absent
       /\ answer' = [draft |-> draft, reason |-> reason]
       /\ IF reason = "accepted" /\ Persistable(i, name, ring)
          THEN /\ Writes(i, [name |-> name, status |-> status, ring |-> ring])
               /\ desk' = [desk EXCEPT ![a] = [Away EXCEPT !.pc = "audit", !.id = i, !.to = status]]
          ELSE UNCHANGED <<zone, booking, desk>>
       /\ requests' = requests + 1
       /\ UNCHANGED <<record, crossed>>

\* update: the zone is read, and what the edit changes of it is saved.
ReadZone(a) ==
  /\ desk[a].pc = "idle" /\ requests < MaxRequests
  /\ \E i \in Ids, name \in Names \cup {0}, draft \in Drafts \cup {<<>>} :
       /\ zone[i] # Absent /\ <<name, draft>> # <<0, <<>>>>
       /\ IF draft = <<>> THEN UNCHANGED answer
          ELSE answer' = [draft |-> draft, reason |-> polygonFromPoints(draft)]
       /\ desk' = (IF draft = <<>> \/ polygonFromPoints(draft) = "accepted"
                   THEN [desk EXCEPT ![a] = [Away EXCEPT !.pc = "update", !.id = i, !.ring = Distinct(draft),
                                                         !.name = IF name = zone[i].name THEN 0 ELSE name]]
                   ELSE desk)
       /\ requests' = requests + 1
       /\ UNCHANGED <<zone, booking, record, crossed>>
Save(a) ==
  LET i == desk[a].id
      name == IF desk[a].name = 0 THEN zone[i].name ELSE desk[a].name
      ring == IF desk[a].ring = <<>> THEN zone[i].ring ELSE desk[a].ring IN
  /\ desk[a].pc = "update"
  /\ IF Persistable(i, name, ring) THEN Writes(i, [zone[i] EXCEPT !.name = name, !.ring = ring])
     ELSE UNCHANGED <<zone, booking>>
  /\ desk' = [desk EXCEPT ![a] = Away]
  /\ UNCHANGED <<answer, record, crossed, requests>>

\* setStatus: a switch to the status that was read changes nothing and is not audited.
ReadStatus(a) ==
  /\ desk[a].pc = "idle" /\ requests < MaxRequests
  /\ \E i \in Ids, to \in {"ACTIVE", "INACTIVE"} :
       /\ zone[i] # Absent /\ zone[i].status # to
       /\ desk' = [desk EXCEPT ![a] = [Away EXCEPT !.pc = "switch", !.id = i, !.to = to]]
       /\ crossed' = [crossed EXCEPT ![i] = @ \/ \E o \in Admins : desk[o].id = i /\ desk[o].pc \in {"switch", "audit"}]
       /\ requests' = requests + 1
       /\ UNCHANGED <<zone, booking, answer, record>>
Switch(a) ==
  /\ desk[a].pc = "switch"
  /\ Writes(desk[a].id, [zone[desk[a].id] EXCEPT !.status = desk[a].to])
  /\ desk' = [desk EXCEPT ![a].pc = "audit"]
  /\ UNCHANGED <<answer, record, crossed, requests>>
Audit(a) ==
  /\ desk[a].pc = "audit"
  /\ record' = [record EXCEPT ![desk[a].id] = desk[a].to]
  /\ desk' = [desk EXCEPT ![a] = Away]
  /\ UNCHANGED <<zone, booking, answer, crossed, requests>>

-----------------------------------------------------------------------------
(* A booking: checkServiceArea *)

\* On overlap the zone whose name comes first.
findActiveZoneFor(p) ==
  {i \in Covering(zone, p) : \A j \in Covering(zone, p) : zone[i].name <= zone[j].name}
Ask(b) ==
  \E p \in Pickups :
    /\ booking[b].pc = "idle"
    /\ booking' = [booking EXCEPT ![b] =
         IF findActiveZoneFor(p) # {}
         THEN [NoBooking EXCEPT !.pc = "accepted", !.at = p, !.ever = TRUE,
                                !.zone = CHOOSE i \in findActiveZoneFor(p) : TRUE]
         ELSE [NoBooking EXCEPT !.pc = "exists", !.at = p, !.always = Served(zone, p), !.ever = Served(zone, p)]]
    /\ UNCHANGED <<zone, desk, answer, record, crossed, requests>>
zonesInForce == InForce(zone) # {}
Check(b) ==
  /\ booking[b].pc = "exists"
  /\ booking' = [booking EXCEPT ![b].pc = IF zonesInForce THEN "refused" ELSE "accepted"]
  /\ UNCHANGED <<zone, desk, answer, record, crossed, requests>>
Leave(b) ==
  /\ booking[b].pc \in {"accepted", "refused"} /\ booking' = [booking EXCEPT ![b] = NoBooking]
  /\ UNCHANGED <<zone, desk, answer, record, crossed, requests>>

Next ==
  \/ \E a \in Admins : Create(a) \/ ReadZone(a) \/ Save(a) \/ ReadStatus(a) \/ Switch(a) \/ Audit(a)
  \/ \E b \in Bookings : Ask(b) \/ Check(b) \/ Leave(b)

Spec == Init /\ [][Next]_zoneVars

-----------------------------------------------------------------------------
\* Type invariant: every boundary in force has its vertices, and no two zones have one name.
TypeOK ==
  /\ \A i \in Ids : zone[i] # Absent => Len(zone[i].ring) \in MIN_ZONE_VERTICES..MaxVertices
  /\ \A i, j \in Ids : i # j /\ zone[i] # Absent => zone[i].name # zone[j].name
  /\ \A a \in Admins : desk[a].pc \in {"idle", "update", "switch", "audit"}
  /\ \A b \in Bookings : booking[b].pc \in {"idle", "exists", "accepted", "refused"}

\* The boundary check is exact (polygonFromPoints): an outline that is simple is never refused for
\* its shape, and one that passes is simple unless it runs back along one of its own edges, which
\* the orientations cannot see and the index of MongoDB refuses.
BoundaryCheckIsExact ==
  answer.draft # <<>> =>
    LET ring == Distinct(answer.draft)
        n == Len(ring)
        OneLine(e) == /\ Turn(ring[e[1]], After(ring, e[1]), ring[e[2]]) = 0
                      /\ Turn(ring[e[1]], After(ring, e[1]), After(ring, e[2])) = 0 IN
    /\ n >= MIN_ZONE_VERTICES /\ Simple(ring) => answer.reason \in {"accepted", "point", "many"}
    /\ answer.reason = "accepted" =>
         \/ Simple(ring)
         \/ \E i \in 1..n : FoldsBack(ring, i)
         \/ \E e \in Apart(ring) : OneLine(e)

\* A rider whose pickup is served all the while is not turned away, unless the first zone came into
\* force between the two reads; and one who gets a ride was served at some moment between them.
ServedAreNotRefused ==
  \A b \in Bookings :
    /\ booking[b].pc = "refused" /\ booking[b].always => booking[b].opened
    /\ booking[b].pc = "accepted" => booking[b].ever

\* The last audit record of a zone's status tells its status (setStatus and the admin endpoints, which
\* save first and record after), unless two switches of the zone were in flight together.
AuditTellsTheStatus ==
  \A i \in Ids :
    zone[i] # Absent /\ ~crossed[i] /\ (\A a \in Admins : desk[a].id = i => desk[a].pc # "audit")
      => record[i] = zone[i].status
=============================================================================
