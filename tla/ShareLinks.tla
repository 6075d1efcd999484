----------------------------- MODULE ShareLinks -----------------------------
(***************************************************************************)
(* The links with which a rider lets others follow one ride: made, trimmed *)
(* to the newest few, stopped by the rider, cut short when the ride ends,  *)
(* and opened by anybody who has them (ShareRideService).                  *)
(*                                                                         *)
(* Time is counted in grace periods.  The event of the ride's end is       *)
(* handled some time after it, or never, if the process dies.              *)
(***************************************************************************)
EXTENDS Naturals, FiniteSets

CONSTANTS
  Links,        \* links that may be made, numbered in the order of their creation
  Creators,     \* requests for a link in flight
  Viewers,      \* openings of a link in flight
  MAX_ACTIVE_LINKS_PER_RIDE,
  MaxHours,     \* shareRideMaxHours, in grace periods
  MaxTime       \* bounds the clock

VARIABLES
  now,
  shared,    \* the ride: [over, endedAt, told]
  link,      \* link[l]: [made, active, expires, purpose]
  creator,   \* creator[c]: [pc, excess]: create, between its reads and writes
  viewer     \* viewer[v]: [pc, link, expires]: publicView, until it answers

shareVars == <<now, shared, link, creator, viewer>>

Grace == 1
Never == MaxTime + MaxHours + 1
RideShareToken ==
  [made : BOOLEAN, active : BOOLEAN, expires : 0..Never, purpose : {"SHARE", "SOS"}]
Unmade == [made |-> FALSE, active |-> FALSE, expires |-> 0, purpose |-> "SHARE"]
Idle == [pc |-> "idle", excess |-> {}]
Closed == [pc |-> "idle", link |-> 0, expires |-> 0]

Init ==
  /\ now = 0
  /\ shared = [over |-> FALSE, endedAt |-> 0, told |-> FALSE]
  /\ link = [l \in Links |-> Unmade]
  /\ creator = [c \in Creators |-> Idle]
  /\ viewer = [v \in Viewers |-> Closed]

Made == {l \in Links : link[l].made}
Mine == {l \in Made : link[l].active /\ link[l].purpose # "SOS"}
Revoked(S) == [l \in Links |-> IF l \in S THEN [link[l] EXCEPT !.active = FALSE] ELSE link[l]]

Tick ==
  /\ now < MaxTime /\ now' = now + 1
  /\ UNCHANGED <<shared, link, creator, viewer>>

-----------------------------------------------------------------------------
\* The ride ends; later the listener pulls the expiry of the links that are live by then in.
EndRide ==
  /\ ~shared.over
  /\ shared' = [over |-> TRUE, endedAt |-> now, told |-> FALSE]
  /\ UNCHANGED <<now, link, creator, viewer>>
Min2(m, n) == IF m < n THEN m ELSE n
OnRideEnded ==
  /\ shared.over /\ ~shared.told
  /\ shared' = [shared EXCEPT !.told = TRUE]
  /\ link' = [l \in Links |-> IF l \in Made /\ link[l].active
                              THEN [link[l] EXCEPT !.expires = Min2(@, now + Grace)] ELSE link[l]]
  /\ UNCHANGED <<now, creator, viewer>>

\* create: an ongoing ride, then the link, then the links beyond the newest ones.
Create(c) ==
  /\ creator[c].pc = "idle" /\ ~shared.over
  /\ creator' = [creator EXCEPT ![c].pc = "insert"]
  /\ UNCHANGED <<now, shared, link, viewer>>
Inserted(purpose) ==
  \E l \in Links \ Made :
    /\ \A m \in Links \ Made : l <= m
    /\ link' = [link EXCEPT ![l] = [made |-> TRUE, active |-> TRUE, expires |-> now + MaxHours,
                                    purpose |-> purpose]]
Insert(c) ==
  /\ creator[c].pc = "insert"
  /\ Inserted("SHARE")
  /\ creator' = [creator EXCEPT ![c].pc = "find"]
  /\ UNCHANGED <<now, shared, viewer>>
Excess == {l \in Mine : Cardinality({m \in Mine : m > l}) >= MAX_ACTIVE_LINKS_PER_RIDE}
FindExcess(c) ==
  /\ creator[c].pc = "find"
  /\ creator' = [creator EXCEPT ![c] = IF Excess = {} THEN Idle
                                       ELSE [pc |-> "retire", excess |-> Excess]]
  /\ UNCHANGED <<now, shared, link, viewer>>
RetireExcess(c) ==
  /\ creator[c].pc = "retire"
  /\ link' = Revoked(creator[c].excess)
  /\ creator' = [creator EXCEPT ![c] = Idle]
  /\ UNCHANGED <<now, shared, viewer>>

\* revoke stops the rider's own links; an SOS link belongs to its incident.
Revoke ==
  /\ Mine # {}
  /\ link' = Revoked(Mine)
  /\ UNCHANGED <<now, shared, creator, viewer>>
CreateForSos ==
  /\ \A l \in Made : link[l].purpose # "SOS"
  /\ Inserted("SOS")
  /\ UNCHANGED <<now, shared, creator, viewer>>
RevokeForSos ==
  /\ \E l \in Made : link[l].purpose = "SOS" /\ link[l].active
  /\ link' = Revoked({l \in Made : link[l].purpose = "SOS"})
  /\ UNCHANGED <<now, shared, creator, viewer>>

-----------------------------------------------------------------------------
\* publicView: the link is read and must be active; then the ride decides when the link ends.
StoredExpiry(expires) == expires
EffectiveShareExpiry(expires) ==
  IF shared.over THEN Min2(expires, shared.endedAt + Grace) ELSE expires

Open(v, l) ==
  /\ viewer[v].pc = "idle" /\ link[l].active
  /\ viewer' = [viewer EXCEPT ![v] = [pc |-> "ride", link |-> l, expires |-> link[l].expires]]
  /\ UNCHANGED <<now, shared, link, creator>>
Answer(v) ==
  /\ viewer[v].pc = "ride"
  /\ viewer' = [viewer EXCEPT ![v].pc = IF now > EffectiveShareExpiry(viewer[v].expires)
                                        THEN "expired" ELSE "shown"]
  /\ UNCHANGED <<now, shared, link, creator>>
Close(v) ==
  /\ viewer[v].pc \in {"shown", "expired"}
  /\ viewer' = [viewer EXCEPT ![v] = Closed]
  /\ UNCHANGED <<now, shared, link, creator>>

Next ==
  \/ Tick \/ EndRide \/ OnRideEnded \/ Revoke \/ CreateForSos \/ RevokeForSos
  \/ \E c \in Creators : Create(c) \/ Insert(c) \/ FindExcess(c) \/ RetireExcess(c)
  \/ \E v \in Viewers : Answer(v) \/ Close(v) \/ \E l \in Links : Open(v, l)

Spec == Init /\ [][Next]_shareVars

-----------------------------------------------------------------------------
\* Type invariant: a link is the token its schema allows.
TypeOK == link \in [Links -> RideShareToken] /\ now \in 0..MaxTime

\* When no request for a link is in flight, no more than the newest few are live (retireExcess,
\* of two requests that each read before the other wrote).
LinksAreFew ==
  (\A c \in Creators : creator[c].pc = "idle") => Cardinality(Mine) <= MAX_ACTIVE_LINKS_PER_RIDE

\* Nobody is shown a ride that ended more than a grace period ago, also by a link that was made
\* while the ride was ending and that the listener never saw, or when it never ran
\* (effectiveShareExpiry).
NothingShownAfterGraceStep ==
  \A v \in Viewers :
    viewer'[v].pc = "shown" /\ viewer[v].pc # "shown" /\ shared.over => now <= shared.endedAt + Grace
NothingShownAfterGrace == [][NothingShownAfterGraceStep]_shareVars

\* A link that was stopped never works again: neither the end of the ride nor another request's
\* trimming revives it, and the rider's own stop leaves the incident's link alone.
StoppedStaysStoppedStep ==
  /\ \A l \in Made : ~link[l].active => ~link'[l].active /\ link'[l].made
  /\ \A l \in Made : link[l].purpose = "SOS" /\ link[l].active /\ ~link'[l].active => Mine \subseteq
       {m \in Made : link'[m].active}
StoppedStaysStopped == [][StoppedStaysStoppedStep]_shareVars
=============================================================================
