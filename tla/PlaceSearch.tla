---------------------------- MODULE PlaceSearch -----------------------------
(***************************************************************************)
(* Place search of the booking flow (PlacesService): riders type, the      *)
(* curated places are searched at once, the provider's answers come from a *)
(* cache or from one call shared by all who ask the same; the two lists    *)
(* are merged for each rider.  Places lie on a line.                       *)
(***************************************************************************)
EXTENDS Integers, FiniteSets, Sequences, TtlCache

CONSTANTS
  Requests,        \* autocomplete requests in flight
  Queries,         \* what riders type, normalised
  Featured,        \* Featured[q]: the curated places that match, best first: [name, at]
  FeaturedSpots,   \* where the curated places are
  Provided,        \* Provided[q]: the lists the provider may answer with, at = NoPoint if unknown
  Nears,           \* where riders search from; NoPoint is unknown
  Cell(_),         \* the area whose riders share a cache entry
  Bias,            \* the service area, used when the rider's place is unknown
  FeaturedRadius, DuplicateRadius, SameNameRadius,
  MAX_FEATURED_IN_RESULTS, Limit,
  CacheTtl, CacheMaxEntries,
  MaxRequests, MaxFailures, MaxTime    \* bounds

VARIABLES
  search,      \* search[r]: [pc, query, near, since, answer, degraded]
  searchCache, \* TtlCache entries keyed <<query, cell>>
  inFlight,    \* calls of the provider: [key, waiting]
  log,         \* what the provider has answered: [query, around, list, at]
  now, asked   \* asked: [requests, failures]

searchVars == <<search, searchCache, inFlight, log, now, asked>>

NoPoint == -1000
NoSearch == [pc |-> "idle", query |-> "", near |-> NoPoint, since |-> 0, answer |-> <<>>, degraded |-> FALSE]

Init ==
  /\ search = [r \in Requests |-> NoSearch]
  /\ searchCache = <<>> /\ inFlight = {} /\ log = {}
  /\ now = 0 /\ asked = [requests |-> 0, failures |-> 0]

-----------------------------------------------------------------------------
Meters(a, b) == IF a < b THEN b - a ELSE a - b
\* Distances are of the rider who asks, never of the one whose answer was cached.
withDistance(s, near) ==
  [name |-> s.name, at |-> s.at,
   away |-> IF near = NoPoint \/ s.at = NoPoint THEN NoPoint ELSE Meters(near, s.at)]

\* Two suggestions are one place when close, or near and of one name.
sameSpot(a, b) ==
  IF a.at = NoPoint \/ b.at = NoPoint THEN a.name = b.name
  ELSE \/ Meters(a.at, b.at) <= DuplicateRadius
       \/ a.name = b.name /\ Meters(a.at, b.at) <= SameNameRadius

First(list, n) == SubSeq(list, 1, IF Len(list) < n THEN Len(list) ELSE n)
Merge(list) ==
  FoldLeft(LAMBDA merged, s :
             IF Len(merged) >= Limit \/ \E k \in DOMAIN merged : sameSpot(merged[k], s) THEN merged
             ELSE Append(merged, s), <<>>, list)

\* The curated places lead in the service area and follow elsewhere.
isInBraj(near) == near = NoPoint \/ \E spot \in FeaturedSpots : Meters(near, spot) <= FeaturedRadius
searchFeatured(r) ==
  LET found == First(Featured[search[r].query], MAX_FEATURED_IN_RESULTS) IN
  [k \in DOMAIN found |-> withDistance(found[k], search[r].near)]
Suggestions(r, list) ==
  LET provided == [k \in DOMAIN list |-> withDistance(list[k], search[r].near)] IN
  Merge(IF isInBraj(search[r].near) THEN searchFeatured(r) \o provided
        ELSE provided \o searchFeatured(r))
Curated(r) == First(searchFeatured(r), Limit)
Answer(r, list, degraded) ==
  [search[r] EXCEPT !.pc = "answered", !.answer = list, !.degraded = degraded]

-----------------------------------------------------------------------------
\* autocomplete: the provider is asked around the rider, or around its usual centre.
Around(r) == IF search[r].near = NoPoint THEN Bias ELSE search[r].near
\* (A bug: the search leaves its place out of the key.)
AreaIgnored(r) == Cell(Bias)
Area(r) == Cell(Around(r))
Key(r) == <<search[r].query, Area(r)>>
Type(r) ==
  /\ search[r].pc = "idle" /\ asked.requests < MaxRequests
  /\ \E q \in Queries, near \in Nears :
       search' = [search EXCEPT ![r] = [NoSearch EXCEPT !.pc = "typed", !.query = q, !.near = near,
                                                      !.since = now]]
  /\ asked' = [asked EXCEPT !.requests = @ + 1]
  /\ UNCHANGED <<searchCache, inFlight, log, now>>
\* A query too short for the provider is answered from the curated list.
AnswerAlone(r) ==
  /\ search[r].pc = "typed" /\ Len(search[r].query) < 2
  /\ search' = [search EXCEPT ![r] = Answer(r, Curated(r), FALSE)]
  /\ UNCHANGED <<searchCache, inFlight, log, now, asked>>

\* getOrLoad: a cached list, a call in flight for the same key, or a call of one's own.
AnswerCached(r) ==
  /\ search[r].pc = "typed" /\ Len(search[r].query) >= 2 /\ Hit(searchCache, Key(r), now)
  /\ search' = [search EXCEPT ![r] = Answer(r, Suggestions(r, Cached(searchCache, Key(r), now)), FALSE)]
  /\ searchCache' = Touched(searchCache, Key(r), now)
  /\ UNCHANGED <<inFlight, log, now, asked>>
Lookup(r) ==
  /\ search[r].pc = "typed" /\ Len(search[r].query) >= 2 /\ ~Hit(searchCache, Key(r), now)
  /\ LET same == {c \in inFlight : c.key = Key(r)} IN
     inFlight' = (inFlight \ same) \cup
                 {[key |-> Key(r), waiting |-> {r} \cup UNION {c.waiting : c \in same}]}
  /\ search' = [search EXCEPT ![r].pc = "waiting"]
  /\ searchCache' = Touched(searchCache, Key(r), now)
  /\ UNCHANGED <<log, now, asked>>

\* The provider answers: the list is cached, and everyone who waits gets it, each in their own order.
ProviderAnswers(c) ==
  /\ \E list \in Provided[c.key[1]] :
       /\ searchCache' = Stored(searchCache, c.key, list, now + CacheTtl, CacheMaxEntries)
       /\ search' = [r \in Requests |-> IF r \in c.waiting THEN Answer(r, Suggestions(r, list), FALSE)
                                        ELSE search[r]]
       /\ log' = log \cup {[query |-> c.key[1], around |-> {Around(r) : r \in c.waiting},
                            list |-> list, at |-> now]}
  /\ inFlight' = inFlight \ {c} /\ UNCHANGED <<now, asked>>
\* It fails: nothing is cached, and the curated list is the answer.
ProviderFails(c) ==
  /\ asked.failures < MaxFailures
  /\ search' = [r \in Requests |-> IF r \in c.waiting THEN Answer(r, Curated(r), TRUE) ELSE search[r]]
  /\ inFlight' = inFlight \ {c}
  /\ asked' = [asked EXCEPT !.failures = @ + 1]
  /\ UNCHANGED <<searchCache, log, now>>

Shown(r) ==
  /\ search[r].pc = "answered" /\ search' = [search EXCEPT ![r] = NoSearch]
  /\ UNCHANGED <<searchCache, inFlight, log, now, asked>>
Tick ==
  /\ now < MaxTime /\ now' = now + 1
  /\ UNCHANGED <<search, searchCache, inFlight, log, asked>>

Next ==
  \/ \E r \in Requests : Type(r) \/ AnswerAlone(r) \/ AnswerCached(r) \/ Lookup(r) \/ Shown(r)
  \/ \E c \in inFlight : ProviderAnswers(c) \/ ProviderFails(c)
  \/ Tick

Spec == Init /\ [][Next]_searchVars

-----------------------------------------------------------------------------
\* Type invariant: the cache is bounded and every call in flight is waited for.
TypeOK ==
  /\ Len(searchCache) <= CacheMaxEntries
  /\ \A c \in inFlight : c.waiting # {} /\ \A r \in c.waiting : search[r].pc = "waiting"
  /\ \A r \in Requests : search[r].near \in Nears \cup {NoPoint}

Answered(r) == search[r].pc = "answered"
\* A list is its rider's own (autocomplete), also when it was fetched for somebody else: distances
\* are from where the rider is, the best match of the curated places leads in the service area
\* whether or not the provider answers, a name comes twice only for places far apart, and the
\* limit is kept.
ListIsTheirs ==
  \A r \in Requests : Answered(r) =>
    LET list == search[r].answer  found == Featured[search[r].query] IN
    /\ Len(list) <= Limit
    /\ \A j, k \in DOMAIN list : j < k /\ list[j].name = list[k].name =>
         NoPoint \notin {list[j].at, list[k].at} /\ Meters(list[j].at, list[k].at) > SameNameRadius
    /\ found # <<>> /\ isInBraj(search[r].near) =>
         list # <<>> /\ list[1].name = found[1].name /\ list[1].at = found[1].at
    /\ \A k \in DOMAIN list : list[k].away # NoPoint =>
         search[r].near # NoPoint /\ list[k].away = Meters(search[r].near, list[k].at)

\* What the provider answered for a query is served to riders of its area for a cache life and no
\* longer, and to nobody else: each place in a list is a curated one or one the provider had named
\* for that query within the life of the cache (or had not yet when the rider asked).
ServedIsRecent ==
  \A r \in Requests : Answered(r) =>
    \A k \in DOMAIN search[r].answer :
      LET s == search[r].answer[k] IN
      \/ s \in ToSet(searchFeatured(r))
      \/ \E e \in log : /\ e.query = search[r].query
                        /\ \E place \in e.around : Cell(place) = Cell(Around(r))
                        /\ e.at > search[r].since - CacheTtl
                        /\ \E j \in DOMAIN e.list : e.list[j].name = s.name /\ e.list[j].at = s.at

\* The provider is asked once at a time for a key, and whoever waits is waited for by that call.
OneCallPerKey ==
  /\ \A c, d \in inFlight : c.key = d.key => c = d
  /\ \A r \in Requests : search[r].pc = "waiting" => \E c \in inFlight : c.key = Key(r) /\ r \in c.waiting
=============================================================================
