------------------------------ MODULE Feedback ------------------------------
(***************************************************************************)
(* What customers say of a ride.  Stars for its driver: a rating for each  *)
(* ride, and the sum and count the driver's profile keeps of them, rebuilt *)
(* from the ratings when an increment fails (RatingsService).  Support     *)
(* tickets: filing with its check for an open one, and the admins'         *)
(* compare-and-set updates (ComplaintsService, complaint-rules.ts).        *)
(***************************************************************************)
EXTENDS Integers, Sequences, FiniteSets

CONSTANTS
  Rides,       \* completed rides of one driver
  Stars,       \* ratings customers give
  Taps,        \* requests to rate in flight
  MaxErrors,   \* bound: increments that fail or are reported as failed
  Filers,      \* requests to file in flight
  Admins,      \* admin updates in flight
  MaxTickets,  \* bound: tickets
  MaxUpdates   \* bound: updates begun

VARIABLES
  paid,        \* rides whose payment is verified
  over,        \* rides whose rating window is closed
  ratings,     \* the ratings collection: [ride, stars]
  sum, count,  \* ratingSum and ratingCount of the driver
  tap,         \* tap[t]: [pc, ride, stars, sum, count]
  rebuilt,     \* a rebuild ran while another rating was being added or was added meanwhile
  errors,
  tickets,     \* [status, resolution, assigned, history]; resolution: "none" or who wrote it
  filer,       \* filer[f]: "idle" or "create"
  desk,        \* desk[a]: [pc, ticket, seen, to, resolution]
  shown,       \* resolutions users were sent, per ticket
  crossed,     \* two filings were in flight together
  updates

ratingVars == <<paid, over, ratings, sum, count, tap, rebuilt, errors>>
complaintVars == <<tickets, filer, desk, shown, crossed, updates>>

Idle == [pc |-> "idle", ride |-> "none", stars |-> 0, sum |-> 0, count |-> 0]

Rating == [ride : Rides, stars : Stars]

RatedRides == {r.ride : r \in ratings}
\* The sum of their stars: each rating gives its first, its second, ... star.
StarsGiven(S) == UNION {{r} \X (1..r.stars) : r \in S}
StarsOf(S) == Cardinality(StarsGiven(S))

OPEN_COMPLAINT_STATUSES == {"OPEN", "IN_REVIEW"}
COMPLAINT_TRANSITIONS ==
  [OPEN |-> {"IN_REVIEW", "RESOLVED", "CLOSED"}, IN_REVIEW |-> {"RESOLVED", "CLOSED"},
   RESOLVED |-> {"IN_REVIEW", "CLOSED"}, CLOSED |-> {}]
Statuses == DOMAIN COMPLAINT_TRANSITIONS
Away == [pc |-> "idle", ticket |-> 0, seen |-> "OPEN", to |-> "OPEN", resolution |-> "none"]

TicketHistoryEntry == Statuses
SupportTicket == [status : Statuses, resolution : {"none"} \cup Admins, assigned : {"none"} \cup Admins,
                  history : Seq(TicketHistoryEntry)]

Init ==
  /\ paid = {} /\ over = {} /\ ratings = {} /\ sum = 0 /\ count = 0
  /\ tap = [t \in Taps |-> Idle] /\ rebuilt = FALSE /\ errors = 0
  /\ tickets = <<>> /\ filer = [f \in Filers |-> "idle"] /\ desk = [a \in Admins |-> Away]
  /\ shown = <<>> /\ crossed = FALSE /\ updates = 0

-----------------------------------------------------------------------------
(* Stars.                                                                  *)

\* Payments are verified, windows close.
Pays(r) == r \notin paid /\ paid' = paid \cup {r} /\ UNCHANGED <<over, ratings, sum, count, tap, rebuilt, errors>>
Closes(r) == r \notin over /\ over' = over \cup {r} /\ UNCHANGED <<paid, ratings, sum, count, tap, rebuilt, errors>>

\* ratingEligibility: paid, in the window and not rated yet.
Rateable(r) == r \in paid /\ r \notin over /\ r \notin RatedRides
Rate(t) ==
  /\ tap[t].pc = "idle"
  /\ \E r \in Rides, n \in Stars :
       Rateable(r) /\ tap' = [tap EXCEPT ![t] = [Idle EXCEPT !.pc = "create", !.ride = r, !.stars = n]]
  /\ UNCHANGED <<paid, over, ratings, sum, count, rebuilt, errors>>

\* The unique index on the ride lets one rating in.
Insertable(t) == tap[t].ride \notin RatedRides
Create(t) ==
  /\ tap[t].pc = "create"
  /\ IF Insertable(t)
     THEN /\ ratings' = ratings \cup {[ride |-> tap[t].ride, stars |-> tap[t].stars]}
          /\ tap' = [tap EXCEPT ![t].pc = "apply"]
     ELSE tap' = [tap EXCEPT ![t] = Idle] /\ UNCHANGED ratings
  /\ UNCHANGED <<paid, over, sum, count, rebuilt, errors>>

\* applyToDriver: one write adds the stars; one that fails, or is said to have failed,
\* leads to a rebuild.
AddedAfresh(t) == tap[t].sum + tap[t].stars
Added(t) == sum + tap[t].stars
ApplyToDriver(t) ==
  /\ tap[t].pc = "apply"
  /\ \/ /\ sum' = Added(t) /\ count' = count + 1 /\ tap' = [tap EXCEPT ![t] = Idle] /\ UNCHANGED errors
     \/ /\ errors < MaxErrors /\ errors' = errors + 1 /\ tap' = [tap EXCEPT ![t].pc = "sum"]
        /\ \/ UNCHANGED <<sum, count>>
           \/ sum' = sum + tap[t].stars /\ count' = count + 1
  /\ UNCHANGED <<paid, over, ratings, rebuilt>>

\* rebuildDriverAggregate reads all ratings, then writes what it counted.
Rebuild(t) ==
  /\ tap[t].pc = "sum"
  /\ tap' = [tap EXCEPT ![t] = [@ EXCEPT !.pc = "set", !.sum = StarsOf(ratings), !.count = Cardinality(ratings)]]
  /\ rebuilt' = (rebuilt \/ \E u \in Taps \ {t} : tap[u].pc \in {"apply", "sum", "set"})
  /\ UNCHANGED <<paid, over, ratings, sum, count, errors>>
SetRebuilt(t) ==
  /\ tap[t].pc = "set" /\ sum' = tap[t].sum /\ count' = tap[t].count
  /\ rebuilt' = (rebuilt \/ tap[t].count # Cardinality(ratings))
  /\ tap' = [tap EXCEPT ![t] = Idle]
  /\ UNCHANGED <<paid, over, ratings, errors>>

RatingNext ==
  \/ \E r \in Rides : Pays(r) \/ Closes(r)
  \/ \E t \in Taps : Rate(t) \/ Create(t) \/ ApplyToDriver(t) \/ Rebuild(t) \/ SetRebuilt(t)

-----------------------------------------------------------------------------
(* Tickets.                                                                *)

OpenTickets == {i \in DOMAIN tickets : tickets[i].status \in OPEN_COMPLAINT_STATUSES}

-----------------------------------------------------------------------------
(* The user: a category of the ride has no open ticket when it is looked up *)

Fileable == OpenTickets = {}
File(f) ==
  /\ filer[f] = "idle" /\ Fileable /\ Len(tickets) < MaxTickets
  /\ filer' = [filer EXCEPT ![f] = "create"]
  /\ crossed' = (crossed \/ \E g \in Filers : filer[g] = "create")
  /\ UNCHANGED <<tickets, desk, shown, updates>>

CreateTicket(f) ==
  /\ filer[f] = "create" /\ filer' = [filer EXCEPT ![f] = "idle"]
  /\ tickets' = Append(tickets, [status |-> "OPEN", resolution |-> "none", assigned |-> "none",
                                 history |-> <<"OPEN">>])
  /\ shown' = Append(shown, {})
  /\ UNCHANGED <<desk, crossed, updates>>

-----------------------------------------------------------------------------
(* adminUpdate reads the ticket, judges the update and writes if the status still stands *)

Resolvable(i, resolution) == resolution # "none" \/ tickets[i].resolution # "none"
ReadTicket(a) ==
  /\ desk[a].pc = "idle" /\ updates < MaxUpdates /\ updates' = updates + 1
  /\ \E i \in DOMAIN tickets, resolution \in {"none", a} :
       \E to \in COMPLAINT_TRANSITIONS[tickets[i].status] \cup {tickets[i].status} :
         /\ to = tickets[i].status => resolution # "none"
         /\ to = "RESOLVED" /\ to # tickets[i].status => Resolvable(i, resolution)
         /\ desk' = [desk EXCEPT ![a] = [pc |-> "write", ticket |-> i, seen |-> tickets[i].status,
                                         to |-> to, resolution |-> resolution]]
  /\ UNCHANGED <<tickets, filer, shown, crossed>>

Unmoved(a) == tickets[desk[a].ticket].status = desk[a].seen
\* A status change assigns the admin, is logged and notified with the resolution as written.
WriteTicket(a) ==
  /\ desk[a].pc = "write" /\ desk' = [desk EXCEPT ![a] = Away]
  /\ LET d == desk[a]
         t == tickets[d.ticket]
         new == [status |-> d.to,
                 resolution |-> IF d.resolution = "none" THEN t.resolution ELSE d.resolution,
                 assigned |-> IF d.to = d.seen THEN t.assigned ELSE a,
                 history |-> IF d.to = d.seen THEN t.history ELSE Append(t.history, d.to)] IN
     IF Unmoved(a)
     THEN /\ tickets' = [tickets EXCEPT ![d.ticket] = new]
          /\ shown' = IF d.to = "RESOLVED" /\ d.to # d.seen
                      THEN [shown EXCEPT ![d.ticket] = @ \cup {new.resolution}] ELSE shown
     ELSE UNCHANGED <<tickets, shown>>
  /\ UNCHANGED <<filer, crossed, updates>>

ComplaintNext ==
  \/ \E f \in Filers : File(f) \/ CreateTicket(f)
  \/ \E a \in Admins : ReadTicket(a) \/ WriteTicket(a)

Next ==
  \/ RatingNext /\ UNCHANGED complaintVars
  \/ ComplaintNext /\ UNCHANGED ratingVars

Spec == Init /\ [][Next]_<<ratingVars, complaintVars>>

-----------------------------------------------------------------------------
\* Type invariant: ratings and tickets, and the requests about them.
TypeOK ==
  /\ ratings \subseteq Rating /\ sum \in Nat /\ count \in Nat
  /\ \A t \in Taps : tap[t].pc \in {"idle", "create", "apply", "sum", "set"}
  /\ \A i \in DOMAIN tickets : tickets[i] \in SupportTicket /\ tickets[i].history # <<>>
  /\ \A a \in Admins : desk[a].pc \in {"idle", "write"} /\ desk[a].seen \in Statuses
  /\ Len(shown) = Len(tickets)

\* A ride is rated once, also by taps that race, and only when it was paid for.
OneRatingPerRide ==
  /\ \A r, q \in ratings : r.ride = q.ride => r = q
  /\ RatedRides \subseteq paid

\* "Concurrent ratings for the same driver can never lose each other's stars"
\* (ratings.service.ts:320), nor count them twice, unless a rebuild crosses another rating.
StarsAddUp ==
  ~rebuilt /\ (\A t \in Taps : tap[t].pc \notin {"apply", "sum", "set"})
    => sum = StarsOf(ratings) /\ count = Cardinality(ratings)

\* The timeline the user sees is a path of the workflow that ends in the present status,
\* however many admins act on the ticket together.
TimelineIsThePath ==
  \A i \in DOMAIN tickets :
    LET h == tickets[i].history IN
    /\ h[Len(h)] = tickets[i].status
    /\ \A n \in 1..(Len(h) - 1) : h[n + 1] \in COMPLAINT_TRANSITIONS[h[n]]

\* A resolved ticket tells the user why: whichever admin's update came last.
ResolvedIsExplained ==
  \A i \in DOMAIN tickets : tickets[i].status = "RESOLVED" => tickets[i].resolution # "none"

\* A ride has one open ticket of a category, but for filings that raced and tickets reopened.
Reopened(i) == \E n \in DOMAIN tickets[i].history : tickets[i].history[n] = "RESOLVED"
OneOpenTicket ==
  crossed \/ Cardinality({i \in OpenTickets : ~Reopened(i)}) <= 1
=============================================================================
