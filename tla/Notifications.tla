--------------------------- MODULE Notifications ----------------------------
(***************************************************************************)
(* What people are told.  Committed changes of one ride become events,     *)
(* each handled some time later and in any order, and the plan says who    *)
(* hears of which (notification-plan.ts, NotificationEventsListener).      *)
(* Wording is left out; a circuit notice stands for one kind for each      *)
(* audience.                                                               *)
(*                                                                         *)
(* One person's notification centre and phones (NotificationsService):     *)
(* drafts become records, each record is announced to the open app with    *)
(* the number of unread ones and then pushed to the phones; reading and    *)
(* reading all announce the number again.  A number is counted, and sent   *)
(* later: other counts and writes come between.                            *)
(***************************************************************************)
EXTENDS Naturals, FiniteSets, Sequences, FiniteSetTheorems, TLAPS

CONSTANTS
  Drivers,      \* drivers the ride is offered to
  Refunds,      \* refunds of its payment
  MaxVersion,   \* committed states: bounds re-matching
  Notes,        \* dedupe keys, each of one draft
  Batches,      \* Batches[h]: the drafts handler h was given; two may hold the same one
  Devices,      \* devices with a token
  Configured,   \* push.isConfigured
  MaxReads,     \* reads and read-alls, MaxFailures failed writes, MaxCrashes restarts: bounds
  MaxFailures, MaxCrashes

VARIABLES
  ride,        \* [status, version, driver, by, paid]
  events,      \* everything the bus carried
  heard,       \* the events handled
  notes,       \* notifications: [to, type, key]
  record,      \* record[n]: [state, status, sent, failed]: none, unread or read, and the push
  batch,       \* batch[h]: [pc, todo, created]: notify, between its drafts
  deliver,     \* deliver[n]: [pc, tokens, got, gone]: deliver, between its awaits
  active,      \* phones whose token is active
  pushed,      \* pushed[n]: phone -> pushes that reached it
  counts,      \* numbers on their way: [of, value, fresh], Unknown until counted; fresh till a write
  app,         \* [badge, late]: the number the open app shows; late: sent after a write it misses
  tally        \* [reads, failures, crashes]: bounded

noticeVars == <<ride, events, heard, notes>>
centreVars == <<record, batch, deliver, active, pushed, counts, app, tally>>

None == "none"
Customer == "customer"
Nobody == "nobody"
RIDE_TRANSITIONS ==
  [SEARCHING |-> {"DRIVER_ASSIGNED", "NO_DRIVER_AVAILABLE", "CANCELLED"},
   DRIVER_ASSIGNED |-> {"DRIVER_ACCEPTED", "SEARCHING", "CANCELLED"},
   DRIVER_ACCEPTED |-> {"DRIVER_ARRIVED", "CANCELLED"},
   DRIVER_ARRIVED |-> {"RIDE_STARTED", "CANCELLED"},
   RIDE_STARTED |-> {"COMPLETED"},
   COMPLETED |-> {}, CANCELLED |-> {}, NO_DRIVER_AVAILABLE |-> {}]
Statuses == DOMAIN RIDE_TRANSITIONS
Terminal(status) == RIDE_TRANSITIONS[status] = {}
RideActorType == {"CUSTOMER", "DRIVER", "ADMIN"}
People == {Customer} \cup Drivers
Event(kind, sub, key) ==
  [kind |-> kind, sub |-> sub, key |-> key, driver |-> ride'.driver, by |-> ride'.by]

PushStatus == {"PENDING", "SENT", "PARTIAL", "FAILED", "NO_DEVICES", "SKIPPED"}
Unknown == 99
Handlers == DOMAIN Batches
NoRecord == [state |-> None, status |-> "PENDING", sent |-> 0, failed |-> 0]
NoDelivery == [pc |-> "idle", tokens |-> {}, got |-> {}, gone |-> {}]

Init ==
  /\ ride = [status |-> "SEARCHING", version |-> 0, driver |-> Nobody, by |-> None, paid |-> None]
  /\ events = {} /\ heard = {} /\ notes = {}
  /\ record = [n \in Notes |-> NoRecord]
  /\ batch = [h \in Handlers |-> [pc |-> "idle", todo |-> Batches[h], created |-> {}]]
  /\ deliver = [n \in Notes |-> NoDelivery]
  /\ active = Devices /\ pushed = [n \in Notes |-> [p \in Devices |-> 0]]
  /\ counts = {} /\ app = [badge |-> 0, late |-> FALSE]
  /\ tally = [reads |-> 0, failures |-> 0, crashes |-> 0]

-----------------------------------------------------------------------------
(* The plan: who hears of what.                                            *)

Emits(e) == events' = events \cup {e} /\ UNCHANGED <<heard, notes>>
Moves(r) == ride.version < MaxVersion /\ ride' = [r EXCEPT !.version = @ + 1]

\* ride.transitioned: the event carries the ride as it was committed.  A re-matched ride loses its
\* driver; a cancelled one keeps the driver it was with, and who cancelled it.
Transition(to) ==
  /\ to \in RIDE_TRANSITIONS[ride.status]
  /\ \E d \in Drivers, by \in RideActorType :
       /\ by = "DRIVER" => to = "CANCELLED" /\ ride.status \in {"DRIVER_ACCEPTED", "DRIVER_ARRIVED"}
       /\ Moves([ride EXCEPT !.status = to,
                             !.driver = CASE to = "DRIVER_ASSIGNED" -> d [] to = "SEARCHING" -> Nobody
                                          [] OTHER -> @,
                             !.by = IF to = "CANCELLED" THEN by ELSE @])
  /\ Emits(Event("ride", to, ride'.version))

\* ride.end_requested, on a fresh code; ride.driver_arriving, once a ride.
EndRequested ==
  /\ ride.status = "RIDE_STARTED" /\ Moves(ride)
  /\ Emits(Event("END_OTP", None, ride'.version))
Arriving ==
  /\ ride.status = "DRIVER_ACCEPTED" /\ UNCHANGED ride
  /\ Emits(Event("ARRIVING", None, 0))

\* circuit.notice: the key is the notice itself, so the same notice again is the same key.
CircuitNotice(sub) ==
  /\ ride.status = "RIDE_STARTED" /\ Moves(ride)
  /\ Emits(Event("circuit", sub, 0))

\* ride.payment_updated of a completed ride, and payment.refund_updated once it is paid.
PaymentUpdated(status) ==
  /\ ride.status = "COMPLETED" /\ ride.paid # "SUCCESS"
  /\ Moves([ride EXCEPT !.paid = status])
  /\ Emits(Event("payment", status, ride'.version))
RefundUpdated(f, status) ==
  /\ ride.paid = "SUCCESS" /\ UNCHANGED ride
  /\ Emits(Event("refund", status, f))

-----------------------------------------------------------------------------
Assigned(e) == IF e.driver = Nobody THEN {} ELSE {e.driver}

\* planRideNotifications: who hears of a transition.  Whoever cancels is not told.
TheOther(e) == IF e.by = "CUSTOMER" THEN Assigned(e) ELSE {Customer}
Cancelled(e) ==
  (IF e.by # "CUSTOMER" THEN {Customer} ELSE {}) \cup (IF e.by # "DRIVER" THEN Assigned(e) ELSE {})
RideRecipients(e) ==
  CASE e.sub = "SEARCHING" -> {}
    [] e.sub \in {"DRIVER_ASSIGNED", "RIDE_STARTED", "COMPLETED"} -> {Customer} \cup Assigned(e)
    [] e.sub = "CANCELLED" -> Cancelled(e)
    [] OTHER -> {Customer}

\* planPaymentNotifications, planRefundNotifications, planCircuitNotifications and the others.
PaymentRecipients(e) ==
  CASE e.sub = "SUCCESS" -> {Customer} \cup Assigned(e)
    [] e.sub = "FAILED" -> {Customer}
    [] OTHER -> {}
RefundRecipients(e) == IF e.sub \in {"PENDING", "PROCESSED"} THEN {Customer} ELSE {}
CircuitRecipients(e) == IF e.sub = "STOP_ARRIVED" THEN {Customer} ELSE {Customer} \cup Assigned(e)
Recipients(e) ==
  CASE e.kind = "ride" -> RideRecipients(e)
    [] e.kind = "payment" -> PaymentRecipients(e)
    [] e.kind = "refund" -> RefundRecipients(e)
    [] e.kind = "circuit" -> CircuitRecipients(e)
    [] OTHER -> {Customer}

\* notify: one record for each recipient; the unique dedupe key passes over what was told before.
Key(e) == <<e.kind, e.sub, e.key>>
Drafts(e) == {[to |-> u, key |-> Key(e)] : u \in Recipients(e)}
Notify(e) ==
  /\ e \in events \ heard
  /\ notes' = notes \cup Drafts(e)
  /\ heard' = heard \cup {e}
  /\ UNCHANGED <<ride, events>>

PlanNext ==
  \/ \E to \in Statuses : Transition(to)
  \/ EndRequested \/ Arriving
  \/ \E sub \in {"STOP_ARRIVED", "NEXT_STOP"} : CircuitNotice(sub)
  \/ \E status \in {"FAILED", "SUCCESS"} : PaymentUpdated(status)
  \/ \E f \in Refunds, status \in {"PENDING", "PROCESSED", "FAILED"} : RefundUpdated(f, status)
  \/ \E e \in events : Notify(e)

-----------------------------------------------------------------------------
(* The centre of one person.                                               *)

Unread == {n \in Notes : record[n].state = "unread"}
unreadCount == Cardinality(Unread)
\* A write makes the numbers on their way old.
Aged == {[c EXCEPT !.fresh = c.value = Unknown] : c \in counts}

-----------------------------------------------------------------------------
\* notify: one draft after another; a draft told before is passed over, one that cannot be stored
\* is logged and skipped.
Duplicate(n) == record[n].state # None
Record(h) ==
  /\ batch[h].pc = "idle" /\ batch[h].todo # <<>>
  /\ LET n == Head(batch[h].todo)
         next == [batch[h] EXCEPT !.todo = Tail(@)] IN
     \/ /\ Duplicate(n)
        /\ batch' = [batch EXCEPT ![h] = next]
        /\ UNCHANGED <<record, counts, tally>>
     \/ /\ ~Duplicate(n)
        /\ record' = [record EXCEPT ![n] = [NoRecord EXCEPT !.state = "unread"]]
        /\ batch' = [batch EXCEPT ![h] = [next EXCEPT !.created = @ \cup {n}]]
        /\ counts' = Aged /\ UNCHANGED tally
     \/ /\ tally.failures < MaxFailures
        /\ batch' = [batch EXCEPT ![h] = next]
        /\ tally' = [tally EXCEPT !.failures = @ + 1]
        /\ UNCHANGED <<record, counts>>
  /\ UNCHANGED <<deliver, active, pushed, app>>

\* Then every record of the batch is delivered, each on its own.
StartDelivery(h) ==
  /\ batch[h].pc = "idle" /\ batch[h].todo = <<>>
  /\ batch' = [batch EXCEPT ![h].pc = "done"]
  /\ deliver' = [n \in Notes |-> IF n \in batch[h].created THEN [NoDelivery EXCEPT !.pc = "announce"]
                                 ELSE deliver[n]]
  /\ UNCHANGED <<record, active, pushed, counts, app, tally>>

-----------------------------------------------------------------------------
\* unreadCount, awaited: the number waits to be sent, under the name of who asked.
Counted(who) == counts' = counts \cup {[of |-> who, value |-> unreadCount, fresh |-> TRUE]}
\* emitToUser: the open app shows what arrives.
Emit(c) ==
  /\ app' = [badge |-> c.value, late |-> ~c.fresh]
  /\ counts' = counts \ {c}

Announce(n) ==
  /\ deliver[n].pc = "announce"
  /\ Counted(n) /\ deliver' = [deliver EXCEPT ![n].pc = "counted"]
  /\ UNCHANGED <<record, batch, active, pushed, app, tally>>
\* The record is announced; without a push service, or a phone, that is all.
Created(n) ==
  \E c \in counts :
    /\ c.of = n /\ deliver[n].pc = "counted" /\ Emit(c)
    /\ deliver' = [deliver EXCEPT ![n] =
         IF ~Configured THEN [@ EXCEPT !.pc = "SKIPPED"]
         ELSE [@ EXCEPT !.pc = IF active = {} THEN "NO_DEVICES" ELSE "push", !.tokens = active]]
    /\ UNCHANGED <<record, batch, active, pushed, tally>>

\* push.send: it never throws; some phones get the message, the tokens of some others are dead.
Push(n) ==
  /\ deliver[n].pc = "push"
  /\ \E got \in SUBSET deliver[n].tokens : \E gone \in SUBSET (deliver[n].tokens \ got) :
       /\ deliver' = [deliver EXCEPT ![n] = [@ EXCEPT !.pc = "pushed", !.got = got, !.gone = gone]]
       /\ pushed' = [pushed EXCEPT ![n] = [p \in Devices |-> IF p \in got THEN @[p] + 1 ELSE @[p]]]
  /\ UNCHANGED <<record, batch, active, counts, app, tally>>
Retire(n) ==
  /\ deliver[n].pc = "pushed"
  /\ active' = active \ deliver[n].gone
  /\ deliver' = [deliver EXCEPT ![n].pc = "retired"]
  /\ UNCHANGED <<record, batch, pushed, counts, app, tally>>

\* setPush: what became of it is stored on the record.
StatusOf(d) ==
  IF d.pc # "retired" THEN d.pc
  ELSE IF d.got = d.tokens THEN "SENT" ELSE IF d.got # {} THEN "PARTIAL" ELSE "FAILED"
SetPush(n) ==
  /\ deliver[n].pc \in {"retired", "SKIPPED", "NO_DEVICES"}
  /\ record' = [record EXCEPT ![n].status = StatusOf(deliver[n]),
                              ![n].sent = Cardinality(deliver[n].got),
                              ![n].failed = Cardinality(deliver[n].tokens \ deliver[n].got)]
  /\ deliver' = [deliver EXCEPT ![n] = [NoDelivery EXCEPT !.pc = "done"]]
  /\ UNCHANGED <<batch, active, pushed, counts, app, tally>>

\* An await of the delivery fails: it is logged, and the delivery not tried again.
DeliveryFails(n) ==
  /\ deliver[n].pc \in {"announce", "pushed", "retired"} /\ tally.failures < MaxFailures
  /\ deliver' = [deliver EXCEPT ![n] = [NoDelivery EXCEPT !.pc = "lost"]]
  /\ tally' = [tally EXCEPT !.failures = @ + 1]
  /\ UNCHANGED <<record, batch, active, pushed, counts, app>>

-----------------------------------------------------------------------------
\* markRead and markAllRead: one conditional write; then the number is counted and sent, unawaited.
Reads(S, who) ==
  /\ tally.reads < MaxReads /\ ~\E c \in counts : c.of = who
  /\ record' = [n \in Notes |-> IF n \in S \cap Unread THEN [record[n] EXCEPT !.state = "read"]
                                ELSE record[n]]
  /\ tally' = [tally EXCEPT !.reads = @ + 1]
  /\ counts' = Aged \cup {[of |-> who, value |-> Unknown, fresh |-> TRUE]}
  /\ UNCHANGED <<batch, deliver, active, pushed, app>>
MarkRead(n) == record[n].state # None /\ Reads({n}, n \o "Read")
MarkAllRead == Reads(Notes, "all")
\* publishUnreadCount: a count that fails is not sent.
PublishCount ==
  \E c \in counts :
    /\ c.value = Unknown
    /\ \/ /\ counts' = (counts \ {c}) \cup {[c EXCEPT !.value = unreadCount]}
          /\ UNCHANGED tally
       \/ /\ tally.failures < MaxFailures
          /\ counts' = counts \ {c} /\ tally' = [tally EXCEPT !.failures = @ + 1]
    /\ UNCHANGED <<record, batch, deliver, active, pushed, app>>
UnreadCount ==
  \E c \in counts :
    /\ c.of \notin Notes /\ c.value # Unknown /\ Emit(c)
    /\ UNCHANGED <<record, batch, deliver, active, pushed, tally>>

\* list: the person opens the centre, and the app shows what the API answers.
List ==
  /\ app' = [badge |-> unreadCount, late |-> FALSE]
  /\ app' # app
  /\ UNCHANGED <<record, batch, deliver, active, pushed, counts, tally>>

\* The process restarts: what it was doing is gone, and the apps connect again.
Crash ==
  /\ tally.crashes < MaxCrashes
  /\ batch' = [h \in Handlers |-> [batch[h] EXCEPT !.pc = "done"]]
  /\ deliver' = [n \in Notes |-> IF deliver[n].pc \in {"idle", "done"} THEN deliver[n]
                                 ELSE [NoDelivery EXCEPT !.pc = "lost"]]
  /\ counts' = {} /\ app' = [app EXCEPT !.badge = Unknown]
  /\ tally' = [tally EXCEPT !.crashes = @ + 1]
  /\ UNCHANGED <<record, active, pushed>>

CentreNext ==
  \/ \E h \in Handlers : Record(h) \/ StartDelivery(h)
  \/ \E n \in Notes :
       Announce(n) \/ Created(n) \/ Push(n) \/ Retire(n) \/ SetPush(n) \/ DeliveryFails(n) \/ MarkRead(n)
  \/ MarkAllRead \/ PublishCount \/ UnreadCount \/ List \/ Crash

Next ==
  \/ PlanNext /\ UNCHANGED centreVars
  \/ CentreNext /\ UNCHANGED noticeVars

Spec == Init /\ [][Next]_<<noticeVars, centreVars>>

-----------------------------------------------------------------------------
\* Type invariant: notifications go to the people of the ride; the outcome of a push is one of
\* PushStatus; a number in flight was counted.
TypeOK ==
  /\ ride.status \in Statuses /\ ride.driver \in Drivers \cup {Nobody} /\ ride.version <= MaxVersion
  /\ heard \subseteq events /\ \A n \in notes : n.to \in People
  /\ \A n \in Notes :
       /\ record[n].state \in {None, "unread", "read"} /\ record[n].status \in PushStatus
       /\ deliver[n].tokens \subseteq Devices /\ deliver[n].got \subseteq deliver[n].tokens
  /\ active \subseteq Devices /\ \A c \in counts : c.value \in 0..Cardinality(Notes) \cup {Unknown}

\* Whoever ends a ride is not told of it (the plan's rule), also when the ride had moved between
\* drivers before.
CauserIsNotTold ==
  \A n \in notes : n.key[2] = "CANCELLED" =>
    n.to # (IF ride.by = "CUSTOMER" THEN Customer ELSE IF ride.by = "DRIVER" THEN ride.driver ELSE Nobody)

\* Once every event is handled, the others who are on an ended ride have heard how it ended, in
\* whatever order the events were handled.
EndIsHeard ==
  Terminal(ride.status) /\ heard = events =>
    \A u \in {Customer, ride.driver} \ {Nobody} :
      \/ ride.by = "CUSTOMER" /\ u = Customer
      \/ ride.by = "DRIVER" /\ u = ride.driver
      \/ \E n \in notes : n.to = u /\ n.key[2] = ride.status

\* Every state a ride was committed in is told apart: a driver offered the ride twice is asked
\* twice, and a payment that fails again is told again (the version in the key).
EveryOfferIsHeard ==
  \A e \in heard : e.kind = "ride" /\ e.sub = "DRIVER_ASSIGNED" =>
    /\ [to |-> e.driver, key |-> Key(e)] \in notes
    /\ \A f \in heard : f # e => Key(f) # Key(e)

\* The badge settles on the number of unread notifications: every record and every reading is
\* followed by a number counted after it, unless a failure ate it or the last number sent had
\* been counted before a write whose own number overtook it (publishUnreadCount and deliver do
\* not wait for each other).
Quiet ==
  /\ counts = {} /\ \A n \in Notes : deliver[n].pc \in {"idle", "done", "lost"}
  /\ \A h \in Handlers : batch[h].pc = "done" \/ batch[h].created = {}
BadgeSettles ==
  Quiet /\ tally.failures = 0 /\ ~app.late /\ app.badge # Unknown => app.badge = unreadCount

\* A person is told of an event once, on each phone, however many handlers replay it and whatever
\* fails in between (the unique dedupe key; nothing pushes a record again).
PushedOnce == \A n \in Notes, p \in Devices : pushed[n][p] <= 1

\* What is stored of a push is what happened to it: SENT, PARTIAL and FAILED count the phones it
\* reached, SKIPPED and NO_DEVICES reached none, and a push that reached a phone is PENDING only
\* if its delivery was cut short.
StatusIsTrue ==
  \A n \in Notes :
    LET reached == Cardinality({p \in Devices : pushed[n][p] > 0}) IN
    CASE record[n].status = "PENDING" -> reached > 0 => deliver[n].pc # "done"
      [] record[n].status = "SENT" -> record[n].sent = reached /\ record[n].failed = 0 /\ reached > 0
      [] record[n].status = "PARTIAL" -> record[n].sent = reached /\ record[n].failed > 0 /\ reached > 0
      [] OTHER -> reached = 0

\* A record is the last thing lost: whatever was announced or pushed is in the centre.
RecordComesFirst == \A n \in Notes : record[n].state = None => deliver[n].pc = "idle"
-----------------------------------------------------------------------------
(* Proofs, for any ride, handlers, notifications and phones: what is told is what the plan makes of  *)
(* events that are the ride's own; what the person's centre stores and shows follows from what each  *)
(* handler has done so far, whichever of them failed.                                                *)

\* Drivers are told apart from the customer and from nobody, the person has finitely many
\* notifications and phones, and the handlers are given drafts of them.
WhoAndWhat ==
  /\ Customer \notin Drivers /\ Nobody \notin Drivers /\ MaxVersion \in Nat
  /\ IsFiniteSet(Notes) /\ IsFiniteSet(Devices)
  /\ \A h \in Handlers : Batches[h] \in Seq(Notes)

-----------------------------------------------------------------------------
(* The plan.                                                               *)

RideTypes ==
  ride \in [status : Statuses, version : 0..MaxVersion, driver : Drivers \cup {Nobody},
            by : RideActorType \cup {None}, paid : {None, "FAILED", "SUCCESS"}]

\* What is on the bus is told apart by its key, names a driver of the ride, and an ending is that of
\* the ride.
OfTheRide(e) ==
  /\ e.driver \in Drivers \cup {Nobody}
  /\ e.sub = "CANCELLED" => e.kind = "ride"
  /\ e.kind = "ride" =>
       /\ e.sub \in Statuses /\ e.key \in 1..ride.version
       /\ e.sub = "DRIVER_ASSIGNED" => e.driver \in Drivers
       /\ Terminal(e.sub) => ride.status = e.sub /\ e.driver = ride.driver /\ e.by = ride.by
EventsAreOfTheRide ==
  /\ \A e \in events : OfTheRide(e)
  /\ \A e, f \in events : e.kind = "ride" /\ f.kind = "ride" /\ e.key = f.key => e = f

\* The end of the ride is on the bus, and without a driver there is none to tell.
EndIsOnTheBus ==
  /\ Terminal(ride.status) =>
       \E e \in events : /\ e.kind = "ride" /\ e.sub = ride.status
                         /\ e.driver = ride.driver /\ e.by = ride.by
  /\ ride.status \in {"SEARCHING", "NO_DRIVER_AVAILABLE"} => ride.driver = Nobody

\* What people were told is what the plan makes of the events handled.
NotesAreThePlan ==
  /\ heard \subseteq events
  /\ \A e \in heard : Drafts(e) \subseteq notes
  /\ \A n \in notes : \E e \in heard : n \in Drafts(e)

PlanInv == RideTypes /\ EventsAreOfTheRide /\ EndIsOnTheBus /\ NotesAreThePlan

LEMMA StatusesAre ==
  /\ Statuses = {"SEARCHING", "DRIVER_ASSIGNED", "DRIVER_ACCEPTED", "DRIVER_ARRIVED", "RIDE_STARTED",
                 "COMPLETED", "CANCELLED", "NO_DRIVER_AVAILABLE"}
  /\ \A s \in Statuses : RIDE_TRANSITIONS[s] \subseteq Statuses
  /\ \A s \in Statuses : Terminal(s) <=> s \in {"COMPLETED", "CANCELLED", "NO_DRIVER_AVAILABLE"}
  <1>1. Statuses = {"SEARCHING", "DRIVER_ASSIGNED", "DRIVER_ACCEPTED", "DRIVER_ARRIVED",
                    "RIDE_STARTED", "COMPLETED", "CANCELLED", "NO_DRIVER_AVAILABLE"}
    BY DEF Statuses, RIDE_TRANSITIONS
  <1> QED BY <1>1 DEF RIDE_TRANSITIONS, Terminal

LEMMA PlanBegins == WhoAndWhat /\ Init => PlanInv
  <1> SUFFICES ASSUME WhoAndWhat, Init PROVE PlanInv
    OBVIOUS
  <1>1. RideTypes
    BY StatusesAre DEF Init, RideTypes, WhoAndWhat
  <1> QED BY <1>1, StatusesAre DEF Init, PlanInv, EventsAreOfTheRide, EndIsOnTheBus, NotesAreThePlan

\* A step that puts an event of another kind than "ride" on the bus, or none.
LEMMA OtherEvents ==
  ASSUME PlanInv, ride' \in [status : Statuses, version : 0..MaxVersion,
           driver : Drivers \cup {Nobody}, by : RideActorType \cup {None}, paid : {None, "FAILED", "SUCCESS"}],
         ride'.status = ride.status, ride'.driver = ride.driver, ride'.by = ride.by,
         ride'.version >= ride.version, NEW e, events' = events \cup {e}, UNCHANGED <<heard, notes>>,
         e.kind # "ride", e.sub # "CANCELLED", e.driver = ride'.driver
  PROVE  PlanInv'
  <1> USE DEF PlanInv
  <1>1. RideTypes'
    BY DEF RideTypes
  <1>2. \A f \in events : OfTheRide(f)'
    <2> SUFFICES ASSUME NEW f \in events PROVE OfTheRide(f)'
      OBVIOUS
    <2>1. OfTheRide(f)
      BY DEF EventsAreOfTheRide
    <2>2. 1..ride.version \subseteq 1..ride'.version
      BY <1>1 DEF RideTypes
    <2> QED BY <2>1, <2>2 DEF OfTheRide
  <1>3. OfTheRide(e)'
    BY <1>1 DEF OfTheRide, RideTypes
  <1>4. EventsAreOfTheRide'
    BY <1>2, <1>3 DEF EventsAreOfTheRide
  <1>5. EndIsOnTheBus'
    BY DEF EndIsOnTheBus
  <1>6. NotesAreThePlan'
    BY DEF NotesAreThePlan
  <1> QED BY <1>1, <1>4, <1>5, <1>6

LEMMA TransitionKeeps ==
  ASSUME WhoAndWhat, PlanInv, NEW to \in Statuses, Transition(to)
  PROVE  PlanInv'
  <1> USE DEF PlanInv
  <1>1. PICK d \in Drivers, by \in RideActorType :
          /\ ride.version < MaxVersion
          /\ ride' = [[ride EXCEPT !.status = to,
                                  !.driver = CASE to = "DRIVER_ASSIGNED" -> d [] to = "SEARCHING" -> Nobody
                                               [] OTHER -> @,
                                  !.by = IF to = "CANCELLED" THEN by ELSE @] EXCEPT !.version = @ + 1]
    BY DEF Transition, Moves
  <1>0. PICK e : e = [kind |-> "ride", sub |-> to, key |-> ride'.version, driver |-> ride'.driver,
                      by |-> ride'.by]
    OBVIOUS
  <1>2. events' = events \cup {e} /\ UNCHANGED <<heard, notes>> /\ to \in RIDE_TRANSITIONS[ride.status]
    BY <1>0 DEF Transition, Emits, Event
  <1>3. /\ ride'.status = to /\ ride'.version = ride.version + 1
        /\ ride'.driver = (IF to = "DRIVER_ASSIGNED" THEN d ELSE IF to = "SEARCHING" THEN Nobody ELSE ride.driver)
        /\ ride'.by = (IF to = "CANCELLED" THEN by ELSE ride.by)
        /\ RideTypes' /\ ride.version \in Nat
    <2> DEFINE driver == CASE to = "DRIVER_ASSIGNED" -> d [] to = "SEARCHING" -> Nobody
                           [] OTHER -> ride.driver
               who == IF to = "CANCELLED" THEN by ELSE ride.by
    <2>1. ride' = [ride EXCEPT !.status = to, !.driver = driver, !.by = who,
                               !.version = ride.version + 1]
      BY <1>1 DEF RideTypes
    <2>2. /\ driver = (IF to = "DRIVER_ASSIGNED" THEN d
                       ELSE IF to = "SEARCHING" THEN Nobody ELSE ride.driver)
          /\ driver \in Drivers \cup {Nobody} /\ who \in RideActorType \cup {None}
          /\ ride.version + 1 \in 0..MaxVersion /\ ride.version \in Nat
      BY <1>1 DEF RideTypes, WhoAndWhat
    <2> HIDE DEF driver
    <2> QED BY <2>1, <2>2 DEF RideTypes
  <1>4. /\ e.kind = "ride" /\ e.sub = to /\ e.key = ride'.version /\ e.driver = ride'.driver /\
           e.by = ride'.by
        /\ ride.status \in Statuses /\ ~Terminal(ride.status)
        /\ ride.status = "SEARCHING" => to # "SEARCHING"
        /\ to = "NO_DRIVER_AVAILABLE" => ride.status = "SEARCHING"
    BY <1>0, <1>2, StatusesAre DEF RideTypes, Terminal, RIDE_TRANSITIONS
  <1>5. \A f \in events : OfTheRide(f)' /\ (f.kind = "ride" => f.key # e.key)
    <2> SUFFICES ASSUME NEW f \in events PROVE OfTheRide(f)' /\ (f.kind = "ride" => f.key # e.key)
      OBVIOUS
    <2>1. OfTheRide(f)
      BY DEF EventsAreOfTheRide
    <2>2. f.kind = "ride" => ~Terminal(f.sub)
      BY <2>1, <1>4 DEF OfTheRide
    <2>3. f.kind = "ride" => f.key \in 1..ride'.version /\ f.key # e.key
      BY <2>1, <1>3, <1>4 DEF OfTheRide
    <2> QED BY <2>1, <2>2, <2>3 DEF OfTheRide
  <1>6. OfTheRide(e)'
    <2>1. e.driver \in Drivers \cup {Nobody} /\ e.key \in 1..ride'.version
      BY <1>3, <1>4 DEF RideTypes
    <2>2. to = "DRIVER_ASSIGNED" => e.driver \in Drivers
      BY <1>3, <1>4
    <2> QED BY <1>3, <1>4, <2>1, <2>2 DEF OfTheRide
  <1>7. EventsAreOfTheRide'
    <2>1. \A f \in events' : OfTheRide(f)'
      BY <1>2, <1>5, <1>6
    <2>2. \A f, g \in events' : f.kind = "ride" /\ g.kind = "ride" /\ f.key = g.key => f = g
      BY <1>2, <1>5 DEF EventsAreOfTheRide
    <2> QED BY <2>1, <2>2 DEF EventsAreOfTheRide
  <1>8. EndIsOnTheBus'
    BY <1>2, <1>3, <1>4 DEF EndIsOnTheBus
  <1>9. NotesAreThePlan'
    BY <1>2 DEF NotesAreThePlan
  <1> QED BY <1>3, <1>7, <1>8, <1>9

LEMMA PlanStep == WhoAndWhat /\ PlanInv /\ [PlanNext]_noticeVars => PlanInv'
  <1> SUFFICES ASSUME WhoAndWhat, PlanInv, [PlanNext]_noticeVars PROVE PlanInv'
    OBVIOUS
  <1>1. CASE UNCHANGED noticeVars
    BY <1>1 DEF noticeVars, PlanInv, RideTypes, EventsAreOfTheRide, OfTheRide, EndIsOnTheBus,
                NotesAreThePlan, Drafts, Key, Recipients, RideRecipients, Cancelled, Assigned,
                PaymentRecipients, RefundRecipients, CircuitRecipients
  <1>2. ASSUME NEW r, ride' = [r EXCEPT !.version = r.version + 1], ride.version < MaxVersion,
               r = ride \/ \E p \in {"FAILED", "SUCCESS"} : r = [ride EXCEPT !.paid = p]
        PROVE  /\ ride' \in [status : Statuses, version : 0..MaxVersion,
                             driver : Drivers \cup {Nobody}, by : RideActorType \cup {None},
                             paid : {None, "FAILED", "SUCCESS"}]
               /\ ride'.status = ride.status /\ ride'.driver = ride.driver /\ ride'.by = ride.by
               /\ ride'.version >= ride.version
    BY <1>2 DEF PlanInv, RideTypes, WhoAndWhat
  <1>3. CASE EndRequested
    <2>0. PICK e : e = Event("END_OTP", None, ride'.version)
      OBVIOUS
    <2>1. e.kind # "ride" /\ e.sub # "CANCELLED" /\ e.driver = ride'.driver
      BY <2>0 DEF Event, None
    <2>2. events' = events \cup {e} /\ UNCHANGED <<heard, notes>>
      BY <2>0, <1>3 DEF EndRequested, Emits
    <2> QED BY <1>2, <1>3, <2>1, <2>2, OtherEvents DEF EndRequested, Moves
  <1>4. CASE Arriving
    <2>0. PICK e : e = Event("ARRIVING", None, 0)
      OBVIOUS
    <2>1. e.kind # "ride" /\ e.sub # "CANCELLED" /\ e.driver = ride'.driver
      BY <2>0 DEF Event, None
    <2>2. events' = events \cup {e} /\ UNCHANGED <<heard, notes>> /\ ride' = ride
      BY <2>0, <1>4 DEF Arriving, Emits
    <2>3. ride.version >= ride.version
      BY DEF PlanInv, RideTypes
    <2> QED BY <2>1, <2>2, <2>3, OtherEvents DEF PlanInv, RideTypes
  <1>5. ASSUME NEW sub \in {"STOP_ARRIVED", "NEXT_STOP"}, CircuitNotice(sub) PROVE PlanInv'
    <2>0. PICK e : e = Event("circuit", sub, 0)
      OBVIOUS
    <2>1. e.kind # "ride" /\ e.sub # "CANCELLED" /\ e.driver = ride'.driver
      BY <2>0 DEF Event
    <2>2. events' = events \cup {e} /\ UNCHANGED <<heard, notes>>
      BY <2>0, <1>5 DEF CircuitNotice, Emits
    <2> QED BY <1>2, <1>5, <2>1, <2>2, OtherEvents DEF CircuitNotice, Moves
  <1>6. ASSUME NEW status \in {"FAILED", "SUCCESS"}, PaymentUpdated(status) PROVE PlanInv'
    <2>0. PICK e : e = Event("payment", status, ride'.version)
      OBVIOUS
    <2>1. e.kind # "ride" /\ e.sub # "CANCELLED" /\ e.driver = ride'.driver
      BY <2>0 DEF Event
    <2>2. events' = events \cup {e} /\ UNCHANGED <<heard, notes>>
      BY <2>0, <1>6 DEF PaymentUpdated, Emits
    <2> QED BY <1>2, <1>6, <2>1, <2>2, OtherEvents DEF PaymentUpdated, Moves
  <1>7. ASSUME NEW f \in Refunds, NEW status \in {"PENDING", "PROCESSED", "FAILED"}, RefundUpdated(f, status)
        PROVE  PlanInv'
    <2>0. PICK e : e = Event("refund", status, f)
      OBVIOUS
    <2>1. e.kind # "ride" /\ e.sub # "CANCELLED" /\ e.driver = ride'.driver
      BY <2>0 DEF Event
    <2>2. events' = events \cup {e} /\ UNCHANGED <<heard, notes>> /\ ride' = ride
      BY <2>0, <1>7 DEF RefundUpdated, Emits
    <2>3. ride.version >= ride.version
      BY DEF PlanInv, RideTypes
    <2> QED BY <2>1, <2>2, <2>3, OtherEvents DEF PlanInv, RideTypes
  <1>8. ASSUME NEW e \in events, Notify(e) PROVE PlanInv'
    <2>1. RideTypes' /\ EventsAreOfTheRide' /\ EndIsOnTheBus'
      BY <1>8 DEF Notify, PlanInv, RideTypes, EventsAreOfTheRide, OfTheRide, EndIsOnTheBus
    <2>2. \A f : Drafts(f)' = Drafts(f)
      BY DEF Drafts, Key, Recipients, RideRecipients, Cancelled, Assigned,
             PaymentRecipients, RefundRecipients, CircuitRecipients
    <2>3. NotesAreThePlan'
      BY <1>8, <2>2 DEF Notify, PlanInv, NotesAreThePlan
    <2> QED BY <2>1, <2>3 DEF PlanInv
  <1> QED BY <1>1, <1>3, <1>4, <1>5, <1>6, <1>7, <1>8, TransitionKeeps DEF PlanNext

LEMMA PlanShows ==
  WhoAndWhat /\ PlanInv => CauserIsNotTold /\ EndIsHeard /\ EveryOfferIsHeard
  <1> SUFFICES ASSUME WhoAndWhat, PlanInv PROVE CauserIsNotTold /\ EndIsHeard /\ EveryOfferIsHeard
    OBVIOUS
  <1> USE DEF PlanInv
  <1>0. \A e, n : n \in Drafts(e) => n.to \in Recipients(e) /\ n.key = <<e.kind, e.sub, e.key>> /\
        n.key[2] = e.sub
    BY DEF Drafts, Key
  <1>1. CauserIsNotTold
    <2> SUFFICES ASSUME NEW n \in notes, n.key[2] = "CANCELLED"
                 PROVE  n.to # (IF ride.by = "CUSTOMER" THEN Customer
                                ELSE IF ride.by = "DRIVER" THEN ride.driver ELSE Nobody)
      BY DEF CauserIsNotTold
    <2>1. PICK e \in heard : n \in Drafts(e)
      BY DEF NotesAreThePlan
    <2>2. e \in events /\ e.sub = "CANCELLED" /\ e.kind = "ride" /\ n.to \in Recipients(e)
      BY <1>0, <2>1 DEF NotesAreThePlan, EventsAreOfTheRide, OfTheRide
    <2>3. e.driver = ride.driver /\ e.by = ride.by /\ ride.driver \in Drivers \cup {Nobody}
      BY <2>2, StatusesAre DEF EventsAreOfTheRide, OfTheRide
    <2>4. Recipients(e) = Cancelled(e)
      BY <2>2 DEF Recipients, RideRecipients
    <2> QED BY <2>2, <2>3, <2>4 DEF Cancelled, Assigned, WhoAndWhat, Customer, Nobody
  <1>2. EndIsHeard
    <2> SUFFICES ASSUME Terminal(ride.status), heard = events, NEW u \in {Customer, ride.driver} \ {Nobody},
                        ~(ride.by = "CUSTOMER" /\ u = Customer), ~(ride.by = "DRIVER" /\ u = ride.driver)
                 PROVE  \E n \in notes : n.to = u /\ n.key[2] = ride.status
      BY DEF EndIsHeard
    <2>1. PICK e \in heard : /\ e.kind = "ride" /\ e.sub = ride.status
                             /\ e.driver = ride.driver /\ e.by = ride.by
      BY DEF EndIsOnTheBus
    <2>2. u \in RideRecipients(e)
      <3>1. ride.status \in {"COMPLETED", "CANCELLED", "NO_DRIVER_AVAILABLE"}
        BY StatusesAre DEF RideTypes
      <3>2. CASE ride.status = "COMPLETED"
        BY <2>1, <3>2 DEF RideRecipients, Assigned
      <3>3. CASE ride.status = "CANCELLED"
        BY <2>1, <3>3 DEF RideRecipients, Cancelled, Assigned
      <3>4. CASE ride.status = "NO_DRIVER_AVAILABLE"
        BY <2>1, <3>4 DEF RideRecipients, EndIsOnTheBus
      <3> QED BY <3>1, <3>2, <3>3, <3>4
    <2>3. Recipients(e) = RideRecipients(e)
      BY <2>1 DEF Recipients
    <2>4. [to |-> u, key |-> Key(e)] \in Drafts(e) /\ Key(e)[2] = e.sub
      BY <2>2, <2>3 DEF Drafts, Key
    <2> QED BY <2>1, <2>4 DEF NotesAreThePlan
  <1>3. EveryOfferIsHeard
    <2> SUFFICES ASSUME NEW e \in heard, e.kind = "ride", e.sub = "DRIVER_ASSIGNED"
                 PROVE  /\ [to |-> e.driver, key |-> Key(e)] \in notes
                        /\ \A f \in heard : f # e => Key(f) # Key(e)
      BY DEF EveryOfferIsHeard
    <2>1. e \in events /\ e.driver \in Drivers
      BY DEF NotesAreThePlan, EventsAreOfTheRide, OfTheRide
    <2>2. e.driver \in Recipients(e)
      BY <2>1 DEF Recipients, RideRecipients, Assigned, WhoAndWhat
    <2>3. [to |-> e.driver, key |-> Key(e)] \in notes
      BY <2>2 DEF Drafts, NotesAreThePlan
    <2>4. ASSUME NEW f \in heard, Key(f) = Key(e) PROVE f = e
      BY <2>1, <2>4 DEF Key, NotesAreThePlan, EventsAreOfTheRide
    <2> QED BY <2>3, <2>4
  <1> QED BY <1>1, <1>2, <1>3

-----------------------------------------------------------------------------
(* The centre and the phones.                                              *)

NoteRecord ==
  [state : {None, "unread", "read"}, status : PushStatus, sent : Nat, failed : Nat]
HandlerWork == [pc : {"idle", "done"}, todo : Seq(Notes), created : SUBSET Notes]
Steps ==
  {"idle", "announce", "counted", "push", "pushed", "retired", "SKIPPED", "NO_DEVICES", "done", "lost"}
NoteDelivery ==
  [pc : Steps, tokens : SUBSET Devices, got : SUBSET Devices, gone : SUBSET Devices]
Numbers == 0..Cardinality(Notes) \cup {Unknown}
CentreTypes ==
  /\ record \in [Notes -> NoteRecord]
  /\ batch \in [Handlers -> HandlerWork]
  /\ deliver \in [Notes -> NoteDelivery]
  /\ \A n \in Notes : deliver[n].got \subseteq deliver[n].tokens
  /\ \A n \in Notes : deliver[n].pc \in {"announce", "counted"} => deliver[n].got = {}
  /\ active \subseteq Devices
  /\ pushed \in [Notes -> [Devices -> Nat]]
  /\ \A c \in counts : /\ c = [of |-> c.of, value |-> c.value, fresh |-> c.fresh]
                       /\ c.value \in Numbers /\ c.fresh \in BOOLEAN
  /\ app \in [badge : Numbers, late : BOOLEAN]
  /\ tally \in [reads : Nat, failures : Nat, crashes : Nat]

\* A number that is fresh, once counted, is the number of unread notifications.
CountsAreHonest ==
  \A c \in counts : /\ c.value = Unknown => c.fresh
                    /\ c.fresh /\ c.value # Unknown => c.value = unreadCount
\* The badge is right, or a number counted after the last write is on its way, or will be counted.
Coming ==
  \/ \E c \in counts : c.fresh
  \/ \E n \in Notes : deliver[n].pc = "announce"
  \/ \E h \in Handlers : batch[h].pc = "idle" /\ batch[h].created # {}
BadgeIsComing ==
  tally.failures = 0 /\ ~app.late /\ app.badge # Unknown => app.badge = unreadCount \/ Coming
CountInv == CountsAreHonest /\ BadgeIsComing

\* A note is created by one handler, recorded before it is delivered, and delivered by that handler.
BatchInv ==
  /\ \A h \in Handlers : \A n \in batch[h].created :
       /\ record[n].state # None
       /\ batch[h].pc = "idle" => deliver[n].pc = "idle"
       /\ \A k \in Handlers : n \in batch[k].created => k = h
  /\ \A n \in Notes : record[n].state = None => deliver[n].pc = "idle"

\* A phone is reached at most once, when the push is sent, and what is stored in the end is that.
Reached(n) == {p \in Devices : pushed[n][p] > 0}
Truth(n) ==
  LET reached == Cardinality(Reached(n)) IN
  CASE record[n].status = "SENT" -> record[n].sent = reached /\ record[n].failed = 0 /\ reached > 0
    [] record[n].status = "PARTIAL" -> record[n].sent = reached /\ record[n].failed > 0 /\ reached > 0
    [] OTHER -> reached = 0
PushOf(n) ==
  /\ \A p \in Devices : pushed[n][p] \in {0, 1}
  /\ deliver[n].pc \in {"idle", "announce", "counted", "push", "SKIPPED", "NO_DEVICES"} =>
       \A p \in Devices : pushed[n][p] = 0
  /\ deliver[n].pc \in {"pushed", "retired"} =>
       \A p \in Devices : pushed[n][p] = IF p \in deliver[n].got THEN 1 ELSE 0
  /\ deliver[n].pc \in {"push", "pushed", "retired"} => deliver[n].tokens # {}
  /\ deliver[n].pc = "done" => record[n].status # "PENDING" /\ Truth(n)
  /\ deliver[n].pc # "done" => record[n].status = "PENDING"
PushInv == \A n \in Notes : PushOf(n)

CentreInv == CentreTypes /\ CountInv /\ BatchInv /\ PushInv

LEMMA OneDelivery ==
  ASSUME CentreTypes, NEW n \in Notes
  PROVE  /\ deliver[n] \in NoteDelivery /\ deliver[n].pc \in Steps
         /\ deliver[n].tokens \in SUBSET Devices /\ deliver[n].gone \in SUBSET Devices
         /\ deliver[n].got \in SUBSET deliver[n].tokens
         /\ deliver[n].pc \in {"announce", "counted"} => deliver[n].got = {}
  <1>1. deliver[n] \in NoteDelivery
    BY DEF CentreTypes
  <1>2. deliver[n].got \subseteq deliver[n].tokens
    BY DEF CentreTypes
  <1>3. deliver[n].pc \in {"announce", "counted"} => deliver[n].got = {}
    BY DEF CentreTypes
  <1> QED BY <1>1, <1>2, <1>3 DEF NoteDelivery

LEMMA Tallies ==
  ASSUME CentreTypes PROVE tally.failures \in Nat /\ tally.failures <= tally.failures
  BY DEF CentreTypes

LEMMA CountedIsANumber == WhoAndWhat => unreadCount \in Numbers
  <1> SUFFICES ASSUME WhoAndWhat PROVE unreadCount \in Numbers
    OBVIOUS
  <1>1. Unread \subseteq Notes /\ IsFiniteSet(Notes)
    BY DEF Unread, WhoAndWhat
  <1>2. Cardinality(Unread) \in Nat /\ Cardinality(Unread) <= Cardinality(Notes) /\
        Cardinality(Notes) \in Nat
    BY <1>1, FS_Subset, FS_CardinalityType
  <1> QED BY <1>2 DEF unreadCount, Numbers

LEMMA CentreBegins == WhoAndWhat /\ Init => CentreInv
  <1> SUFFICES ASSUME WhoAndWhat, Init PROVE CentreInv
    OBVIOUS
  <1>1. 0 \in Numbers
    <2>1. Cardinality(Notes) \in Nat
      BY FS_CardinalityType DEF WhoAndWhat
    <2> QED BY <2>1 DEF Numbers
  <1>2. CentreTypes
    <2>1. record \in [Notes -> NoteRecord]
      BY DEF Init, NoRecord, NoteRecord, PushStatus
    <2>2. batch \in [Handlers -> HandlerWork]
      BY DEF Init, HandlerWork, WhoAndWhat
    <2>3. deliver \in [Notes -> NoteDelivery] /\ \A n \in Notes : deliver[n].got = {}
      BY DEF Init, NoDelivery, NoteDelivery, Steps
    <2> QED BY <1>1, <2>1, <2>2, <2>3 DEF Init, CentreTypes
  <1>3. CountInv
    <2>1. Unread = {}
      BY DEF Init, Unread, NoRecord, None
    <2>2. unreadCount = 0
      BY <2>1, FS_EmptySet DEF unreadCount
    <2> QED BY <2>2 DEF Init, CountInv, CountsAreHonest, BadgeIsComing
  <1>4. BatchInv
    BY DEF Init, BatchInv, NoDelivery
  <1>5. PushInv
    BY DEF Init, PushInv, PushOf, NoDelivery, NoRecord
  <1> QED BY <1>2, <1>3, <1>4, <1>5 DEF CentreInv

-----------------------------------------------------------------------------
\* What leaves the number of unread ones, the numbers on their way and the badge alone, and keeps
\* coming what was.
LEMMA CountsStay ==
  ASSUME CountInv, CentreTypes, CentreTypes', UNCHANGED <<counts, app>>,
         \A n \in Notes : record'[n].state = record[n].state,
         tally.failures <= tally'.failures,
         tally'.failures = 0 => (Coming => Coming')
  PROVE  CountInv'
  <1>1. unreadCount' = unreadCount
    <2>1. Unread' = Unread
      BY DEF Unread
    <2> QED BY <2>1 DEF unreadCount
  <1>2. tally'.failures = 0 => tally.failures = 0
    BY DEF CentreTypes
  <1> QED BY <1>1, <1>2 DEF CountInv, CountsAreHonest, BadgeIsComing

\* A number goes out to the app.
LEMMA EmitKeeps ==
  ASSUME CountInv, CentreTypes, NEW c \in counts, Emit(c), UNCHANGED <<record, tally, batch>>,
         \A n \in Notes : deliver[n].pc = "announce" => deliver'[n].pc = "announce"
  PROVE  /\ CountInv' /\ app' \in [badge : Numbers, late : BOOLEAN]
         /\ \A d \in counts' : /\ d = [of |-> d.of, value |-> d.value, fresh |-> d.fresh]
                               /\ d.value \in Numbers /\ d.fresh \in BOOLEAN
  <1>1. app' = [badge |-> c.value, late |-> ~c.fresh] /\ counts' = counts \ {c}
    BY DEF Emit
  <1>2. c.value \in Numbers /\ c.fresh \in BOOLEAN
    BY DEF CentreTypes
  <1>3. unreadCount' = unreadCount
    BY DEF unreadCount, Unread
  <1>4. CountsAreHonest'
    BY <1>1, <1>3 DEF CountInv, CountsAreHonest
  <1>5. ~app'.late /\ app'.badge # Unknown => app'.badge = unreadCount
    BY <1>1, <1>2 DEF CountInv, CountsAreHonest
  <1>6. BadgeIsComing'
    BY <1>3, <1>5 DEF BadgeIsComing
  <1> QED BY <1>1, <1>2, <1>4, <1>6 DEF CountInv, CentreTypes

-----------------------------------------------------------------------------
LEMMA TruthStays ==
  ASSUME NEW n \in Notes, pushed'[n] = pushed[n], record'[n].status = record[n].status,
         record'[n].sent = record[n].sent, record'[n].failed = record[n].failed, Truth(n)
  PROVE  Truth(n)'
  <1>1. Reached(n)' = Reached(n)
    BY DEF Reached
  <1> QED BY <1>1 DEF Truth

LEMMA PushStays ==
  ASSUME NEW n \in Notes, PushOf(n), pushed'[n] = pushed[n], record'[n].status = record[n].status,
         record'[n].sent = record[n].sent, record'[n].failed = record[n].failed,
         \/ deliver'[n] = deliver[n]
         \/ /\ deliver'[n].pc \in {"idle", "announce", "counted", "push", "SKIPPED", "NO_DEVICES"}
            /\ deliver[n].pc \in {"idle", "announce", "counted", "push", "SKIPPED", "NO_DEVICES"}
            /\ deliver'[n].pc = "push" => deliver'[n].tokens # {}
         \/ deliver'[n].pc = "lost" /\ deliver[n].pc # "done"
  PROVE  PushOf(n)'
  <1>1. Truth(n) => Truth(n)'
    BY TruthStays
  <1> QED BY <1>1 DEF PushOf

LEMMA RecordKeeps ==
  ASSUME WhoAndWhat, CentreInv, NEW h \in Handlers, Record(h)
  PROVE  CentreInv'
  <1> USE DEF CentreInv
  <1> DEFINE n == Head(batch[h].todo)
             next == [batch[h] EXCEPT !.todo = Tail(batch[h].todo)]
  <1>1. /\ batch[h].pc = "idle" /\ UNCHANGED <<deliver, active, pushed, app>>
        /\ \/ /\ batch' = [batch EXCEPT ![h] = next]
              /\ UNCHANGED <<record, counts>>
              /\ UNCHANGED tally \/ tally' = [tally EXCEPT !.failures = @ + 1]
           \/ /\ ~Duplicate(n)
              /\ record' = [record EXCEPT ![n] = [NoRecord EXCEPT !.state = "unread"]]
              /\ batch' = [batch EXCEPT ![h] = [next EXCEPT !.created = @ \cup {n}]]
              /\ counts' = Aged /\ UNCHANGED tally
    BY DEF Record
  <1>2. n \in Notes /\ next \in HandlerWork /\ next.pc = "idle" /\ next.created = batch[h].created
    <2>1. batch[h] \in HandlerWork /\ batch[h].todo \in Seq(Notes) /\ batch[h].todo # <<>>
      BY DEF CentreTypes, HandlerWork, Record
    <2>2. Head(batch[h].todo) \in Notes /\ Tail(batch[h].todo) \in Seq(Notes)
      BY <2>1
    <2> QED BY <1>1, <2>1, <2>2 DEF HandlerWork
  <1> HIDE DEF n, next
  <1>3. CASE /\ batch' = [batch EXCEPT ![h] = next]
             /\ UNCHANGED <<record, counts>>
             /\ UNCHANGED tally \/ tally' = [tally EXCEPT !.failures = @ + 1]
    <2>0. /\ tally' \in [reads : Nat, failures : Nat, crashes : Nat]
          /\ tally.failures <= tally'.failures
      BY <1>3 DEF CentreTypes
    <2>1. CentreTypes'
      BY <1>1, <1>2, <1>3, <2>0 DEF CentreTypes
    <2>2. \A k \in Handlers : batch'[k].pc = batch[k].pc /\ batch'[k].created = batch[k].created
      BY <1>1, <1>2, <1>3 DEF CentreTypes
    <2>3. Coming' <=> Coming
      BY <1>1, <1>3, <2>2 DEF Coming
    <2>4. CountInv'
      BY <1>1, <1>3, <2>0, <2>1, <2>3, CountsStay
    <2>5. BatchInv'
      BY <1>1, <1>3, <2>2 DEF BatchInv
    <2>6. PushInv'
      BY <1>1, <1>3, PushStays DEF PushInv
    <2> QED BY <2>1, <2>4, <2>5, <2>6
  <1>4. CASE /\ ~Duplicate(n)
             /\ record' = [record EXCEPT ![n] = [NoRecord EXCEPT !.state = "unread"]]
             /\ batch' = [batch EXCEPT ![h] = [next EXCEPT !.created = @ \cup {n}]]
             /\ counts' = Aged /\ UNCHANGED tally
    <2> DEFINE new == [state |-> "unread", status |-> "PENDING", sent |-> 0, failed |-> 0]
    <2>1. record' = [record EXCEPT ![n] = new] /\ new \in NoteRecord
      <3>1. [NoRecord EXCEPT !.state = "unread"] = new
        BY DEF NoRecord
      <3> QED BY <1>4, <3>1 DEF NoteRecord, PushStatus
    <2>2. /\ record[n].state = None /\ deliver[n].pc = "idle"
          /\ record'[n].state = "unread" /\ record'[n].status = "PENDING"
          /\ \A m \in Notes : m # n => record'[m] = record[m]
      BY <1>2, <1>4, <2>1 DEF Duplicate, BatchInv, CentreTypes
    <2>3. \A k \in Handlers : /\ batch'[k].pc = batch[k].pc
                              /\ batch'[k].created = IF k = h THEN batch[h].created \cup {n}
                                                     ELSE batch[k].created
      BY <1>1, <1>2, <1>4 DEF CentreTypes, HandlerWork
    <2>4. \A k \in Handlers : n \notin batch[k].created
      BY <2>2 DEF BatchInv
    <2>5. \A c \in counts' : /\ c = [of |-> c.of, value |-> c.value, fresh |-> c.fresh]
                             /\ c.value \in Numbers /\ c.fresh \in BOOLEAN
                             /\ c.fresh <=> c.value = Unknown
      <3> SUFFICES ASSUME NEW c \in counts, NEW d, d = [c EXCEPT !.fresh = c.value = Unknown]
                   PROVE  /\ d = [of |-> d.of, value |-> d.value, fresh |-> d.fresh]
                          /\ d.value \in Numbers /\ d.fresh \in BOOLEAN /\ (d.fresh <=> d.value = Unknown)
        BY <1>4 DEF Aged
      <3>1. /\ c = [of |-> c.of, value |-> c.value, fresh |-> c.fresh] /\ c.value \in Numbers
        BY DEF CentreTypes
      <3>2. d = [of |-> c.of, value |-> c.value, fresh |-> c.value = Unknown]
        BY <3>1
      <3> QED BY <3>1, <3>2
    <2>6. CentreTypes'
      <3>1. [next EXCEPT !.created = @ \cup {n}] \in HandlerWork
        BY <1>2 DEF HandlerWork
      <3>2. batch' \in [Handlers -> HandlerWork]
        BY <1>4, <3>1 DEF CentreTypes
      <3>3. record' \in [Notes -> NoteRecord]
        BY <2>1 DEF CentreTypes
      <3> QED BY <1>1, <1>4, <2>5, <3>2, <3>3 DEF CentreTypes
    <2>7. CountInv'
      <3>1. CountsAreHonest'
        BY <2>5 DEF CountsAreHonest
      <3>2. Coming'
        BY <1>1, <2>3 DEF Coming
      <3> QED BY <3>1, <3>2 DEF CountInv, BadgeIsComing
    <2>8. BatchInv'
      <3>1. ASSUME NEW k \in Handlers, NEW m \in batch'[k].created
            PROVE  /\ record'[m].state # None
                   /\ batch'[k].pc = "idle" => deliver'[m].pc = "idle"
                   /\ \A j \in Handlers : m \in batch'[j].created => j = k
        <4>1. CASE m = n
          BY <1>1, <1>2, <2>2, <2>3, <2>4, <4>1 DEF None
        <4>2. CASE m # n
          <5>1. m \in batch[k].created /\ m \in Notes
            <6>1. batch[k].created \subseteq Notes /\ batch[h].created \subseteq Notes
              BY DEF CentreTypes, HandlerWork
            <6> QED BY <2>3, <4>2, <6>1
          <5>2. /\ record[m].state # None
                /\ batch[k].pc = "idle" => deliver[m].pc = "idle"
                /\ \A j \in Handlers : m \in batch[j].created => j = k
            BY <5>1 DEF BatchInv
          <5>3. \A j \in Handlers : m \in batch'[j].created => m \in batch[j].created
            BY <2>3, <4>2
          <5> QED BY <1>1, <2>2, <2>3, <4>2, <5>1, <5>2, <5>3
        <4> QED BY <4>1, <4>2
      <3>2. \A m \in Notes : record'[m].state = None => deliver'[m].pc = "idle"
        BY <1>1, <2>2 DEF BatchInv, None
      <3> QED BY <3>1, <3>2 DEF BatchInv
    <2>9. PushInv'
      <3> SUFFICES ASSUME NEW m \in Notes PROVE PushOf(m)'
        BY DEF PushInv
      <3>1. CASE m # n
        BY <1>1, <2>2, <3>1, PushStays DEF PushInv
      <3>2. CASE m = n
        BY <1>1, <1>2, <2>2, <3>2 DEF PushInv, PushOf
      <3> QED BY <3>1, <3>2
    <2> QED BY <2>6, <2>7, <2>8, <2>9
  <1> QED BY <1>1, <1>3, <1>4

LEMMA StartDeliveryKeeps ==
  ASSUME WhoAndWhat, CentreInv, NEW h \in Handlers, StartDelivery(h)
  PROVE  CentreInv'
  <1> USE DEF CentreInv
  <1>1. /\ batch[h].pc = "idle" /\ batch' = [batch EXCEPT ![h].pc = "done"]
        /\ UNCHANGED <<record, active, pushed, counts, app, tally>>
    BY DEF StartDelivery
  <1>2. \A n \in Notes : deliver'[n] = IF n \in batch[h].created
                                       THEN [pc |-> "announce", tokens |-> {}, got |-> {}, gone |-> {}]
                                       ELSE deliver[n]
    <2>1. [NoDelivery EXCEPT !.pc = "announce"] = [pc |-> "announce", tokens |-> {}, got |-> {}, gone |-> {}]
      BY DEF NoDelivery
    <2>2. deliver' = [n \in Notes |-> IF n \in batch[h].created THEN [NoDelivery EXCEPT !.pc = "announce"]
                                      ELSE deliver[n]]
      BY DEF StartDelivery
    <2> QED BY <2>1, <2>2
  <1>3. \A n \in batch[h].created : n \in Notes /\ deliver[n].pc = "idle" /\ record[n].state # None
    BY <1>1 DEF BatchInv, CentreTypes, HandlerWork
  <1>4. \A k \in Handlers : /\ batch'[k].created = batch[k].created
                            /\ batch'[k].pc = IF k = h THEN "done" ELSE batch[k].pc
    BY <1>1 DEF CentreTypes, HandlerWork
  <1>5. CentreTypes'
    <2>1. deliver' \in [Notes -> NoteDelivery]
      <3>1. [pc |-> "announce", tokens |-> {}, got |-> {}, gone |-> {}] \in NoteDelivery
        BY DEF NoteDelivery, Steps
      <3>2. \A n \in Notes : deliver'[n] \in NoteDelivery
        BY <1>2, <3>1 DEF CentreTypes
      <3> QED BY <3>2 DEF StartDelivery
    <2>2. batch' \in [Handlers -> HandlerWork]
      BY <1>1 DEF CentreTypes, HandlerWork
    <2> QED BY <1>1, <1>2, <2>1, <2>2 DEF CentreTypes
  <1>6. CountInv'
    <2>1. Coming => Coming'
      <3>1. CASE \E n \in Notes : deliver[n].pc = "announce"
        BY <1>2, <3>1 DEF Coming
      <3>2. CASE batch[h].created # {}
        BY <1>2, <1>3, <3>2 DEF Coming
      <3>3. CASE \E k \in Handlers : k # h /\ batch[k].pc = "idle" /\ batch[k].created # {}
        BY <1>4, <3>3 DEF Coming
      <3>4. CASE \E c \in counts : c.fresh
        BY <1>1, <3>4 DEF Coming
      <3> QED BY <1>1, <3>1, <3>2, <3>3, <3>4 DEF Coming
    <2>2. tally.failures <= tally.failures
      BY DEF CentreTypes
    <2> QED BY <1>1, <1>5, <2>1, <2>2, CountsStay
  <1>7. BatchInv'
    <2>1. ASSUME NEW k \in Handlers, NEW m \in batch[k].created, k # h, batch[k].pc = "idle"
          PROVE  deliver'[m].pc = "idle"
      BY <1>2, <2>1 DEF BatchInv, CentreTypes, HandlerWork
    <2> QED BY <1>1, <1>2, <1>3, <1>4, <2>1 DEF BatchInv
  <1>8. PushInv'
    <2> SUFFICES ASSUME NEW m \in Notes PROVE PushOf(m)'
      BY DEF PushInv
    <2>1. PushOf(m)
      BY DEF PushInv
    <2> QED BY <1>1, <1>2, <1>3, <2>1, PushStays
  <1> QED BY <1>5, <1>6, <1>7, <1>8

\* A step of one delivery that leaves its handler, the record and the phones as they are.
LEMMA DeliveryKeeps ==
  ASSUME CentreInv, NEW n \in Notes, NEW d \in NoteDelivery, d.got \subseteq d.tokens,
         deliver[n].pc # "idle", deliver' = [deliver EXCEPT ![n] = d],
         UNCHANGED <<record, batch, pushed>>, CountInv', CentreTypes',
         \/ /\ d.pc \in {"announce", "counted", "push", "SKIPPED", "NO_DEVICES"}
            /\ deliver[n].pc \in {"announce", "counted", "push", "SKIPPED", "NO_DEVICES"}
            /\ d.pc = "push" => d.tokens # {}
         \/ d.pc = "lost" /\ deliver[n].pc # "done"
  PROVE  CentreInv'
  <1> USE DEF CentreInv
  <1>1. deliver'[n] = d /\ \A m \in Notes : m # n => deliver'[m] = deliver[m]
    BY DEF CentreTypes
  <1>2. BatchInv'
    BY <1>1 DEF BatchInv, CentreTypes, HandlerWork
  <1>3. PushInv'
    <2> SUFFICES ASSUME NEW m \in Notes PROVE PushOf(m)'
      BY DEF PushInv
    <2>1. PushOf(m)
      BY DEF PushInv
    <2> QED BY <1>1, <2>1, PushStays
  <1> QED BY <1>2, <1>3

LEMMA AnnounceKeeps ==
  ASSUME WhoAndWhat, CentreInv, NEW n \in Notes, Announce(n)
  PROVE  CentreInv'
  <1> USE DEF CentreInv
  <1> DEFINE c == [of |-> n, value |-> unreadCount, fresh |-> TRUE]
             d == [deliver[n] EXCEPT !.pc = "counted"]
  <1>1. /\ deliver[n].pc = "announce" /\ counts' = counts \cup {c}
        /\ deliver' = [deliver EXCEPT ![n].pc = "counted"]
        /\ UNCHANGED <<record, batch, active, pushed, app, tally>>
    BY DEF Announce, Counted
  <1>2. d \in NoteDelivery /\ d.got \subseteq d.tokens /\ d.pc = "counted"
    BY OneDelivery DEF NoteDelivery, Steps
  <1>3. deliver' = [deliver EXCEPT ![n] = d]
    BY <1>1 DEF CentreTypes
  <1>4. unreadCount \in Numbers /\ unreadCount' = unreadCount
    <2>1. unreadCount' = unreadCount
      BY <1>1 DEF unreadCount, Unread
    <2> QED BY <2>1, CountedIsANumber
  <1>5. c = [of |-> c.of, value |-> c.value, fresh |-> c.fresh] /\ c.value = unreadCount /\ c.fresh
    OBVIOUS
  <1>0. d.got = {}
    BY <1>1, OneDelivery DEF NoteDelivery
  <1> HIDE DEF c, d
  <1>6. CentreTypes'
    <2>1. /\ deliver' \in [Notes -> NoteDelivery] /\ deliver'[n] = d
          /\ \A m \in Notes : m # n => deliver'[m] = deliver[m]
      BY <1>2, <1>3 DEF CentreTypes
    <2>2. \A m \in Notes : deliver'[m].got \subseteq deliver'[m].tokens
      BY <1>0, <1>2, <2>1 DEF CentreTypes
    <2>3. \A m \in Notes : deliver'[m].pc \in {"announce", "counted"} => deliver'[m].got = {}
      BY <1>0, <1>2, <2>1 DEF CentreTypes
    <2> QED BY <1>1, <1>4, <1>5, <2>1, <2>2, <2>3 DEF CentreTypes
  <1>7. CountInv'
    <2>1. CountsAreHonest'
      BY <1>1, <1>4, <1>5 DEF CountInv, CountsAreHonest
    <2>2. Coming'
      BY <1>1, <1>5 DEF Coming
    <2> QED BY <2>1, <2>2 DEF CountInv, BadgeIsComing
  <1> QED BY <1>1, <1>2, <1>3, <1>6, <1>7, DeliveryKeeps

LEMMA CreatedKeeps ==
  ASSUME WhoAndWhat, CentreInv, NEW n \in Notes, Created(n)
  PROVE  CentreInv'
  <1> USE DEF CentreInv
  <1> DEFINE d == IF ~Configured THEN [deliver[n] EXCEPT !.pc = "SKIPPED"]
                  ELSE [deliver[n] EXCEPT !.pc = IF active = {} THEN "NO_DEVICES" ELSE "push",
                                          !.tokens = active]
  <1>1. PICK c \in counts : deliver[n].pc = "counted" /\ Emit(c)
    BY DEF Created
  <1>2. deliver' = [deliver EXCEPT ![n] = d] /\ UNCHANGED <<record, batch, active, pushed, tally>>
    BY DEF Created
  <1>3. deliver[n] \in NoteDelivery /\ deliver[n].got = {} /\ active \subseteq Devices
    BY <1>1, OneDelivery DEF CentreTypes
  <1>4. /\ d \in NoteDelivery /\ d.got \subseteq d.tokens
        /\ d.pc \in {"SKIPPED", "NO_DEVICES", "push"}
        /\ d.pc = "push" => d.tokens # {}
    <2>1. CASE ~Configured
      BY <1>3, <2>1 DEF NoteDelivery, Steps
    <2>2. CASE Configured /\ active = {}
      BY <1>3, <2>2 DEF NoteDelivery, Steps
    <2>3. CASE Configured /\ active # {}
      BY <1>3, <2>3 DEF NoteDelivery, Steps
    <2> QED BY <2>1, <2>2, <2>3
  <1> HIDE DEF d
  <1>5. \A m \in Notes : m # n => deliver'[m] = deliver[m]
    BY <1>2 DEF CentreTypes
  <1>6. /\ CountInv' /\ app' \in [badge : Numbers, late : BOOLEAN]
        /\ \A e \in counts' : /\ e = [of |-> e.of, value |-> e.value, fresh |-> e.fresh]
                              /\ e.value \in Numbers /\ e.fresh \in BOOLEAN
    BY <1>1, <1>2, <1>5, EmitKeeps
  <1>7. CentreTypes'
    BY <1>2, <1>4, <1>6 DEF CentreTypes
  <1> QED BY <1>1, <1>2, <1>4, <1>6, <1>7, DeliveryKeeps

LEMMA PushKeeps ==
  ASSUME WhoAndWhat, CentreInv, NEW n \in Notes, Push(n)
  PROVE  CentreInv'
  <1> USE DEF CentreInv
  <1>1. PICK got \in SUBSET deliver[n].tokens, gone \in SUBSET deliver[n].tokens :
          /\ deliver' = [deliver EXCEPT ![n] = [deliver[n] EXCEPT !.pc = "pushed", !.got = got, !.gone = gone]]
          /\ pushed' = [pushed EXCEPT ![n] = [p \in Devices |-> IF p \in got THEN pushed[n][p] + 1
                                                                ELSE pushed[n][p]]]
    BY DEF Push
  <1>2. deliver[n].pc = "push" /\ UNCHANGED <<record, batch, active, counts, app, tally>>
    BY DEF Push
  <1>3. /\ deliver'[n].pc = "pushed" /\ deliver'[n].got = got /\ deliver'[n].tokens = deliver[n].tokens
        /\ deliver' \in [Notes -> NoteDelivery] /\ \A m \in Notes : m # n => deliver'[m] = deliver[m]
    <2>1. [deliver[n] EXCEPT !.pc = "pushed", !.got = got, !.gone = gone] \in NoteDelivery
      BY <1>1, OneDelivery DEF NoteDelivery, Steps
    <2> QED BY <1>1, <2>1, OneDelivery DEF CentreTypes, NoteDelivery
  <1>4. /\ \A m \in Notes : m # n => pushed'[m] = pushed[m]
        /\ \A p \in Devices : pushed'[n][p] = IF p \in got THEN pushed[n][p] + 1 ELSE pushed[n][p]
        /\ pushed' \in [Notes -> [Devices -> Nat]]
    <2> DEFINE row == [p \in Devices |-> IF p \in got THEN pushed[n][p] + 1 ELSE pushed[n][p]]
    <2>1. row \in [Devices -> Nat]
      BY DEF CentreTypes
    <2>2. \A p \in Devices : row[p] = IF p \in got THEN pushed[n][p] + 1 ELSE pushed[n][p]
      OBVIOUS
    <2>3. pushed' = [pushed EXCEPT ![n] = row]
      BY <1>1
    <2> HIDE DEF row
    <2> QED BY <2>1, <2>2, <2>3 DEF CentreTypes
  <1>5. CentreTypes'
    BY <1>1, <1>2, <1>3, <1>4 DEF CentreTypes
  <1>6. Coming => Coming'
    BY <1>2, <1>3 DEF Coming
  <1>7. CountInv'
    BY <1>2, <1>5, <1>6, CountsStay, Tallies
  <1>8. BatchInv'
    <2>1. \A h \in Handlers : batch[h].created \subseteq Notes
      BY DEF CentreTypes, HandlerWork
    <2> QED BY <1>2, <1>3, <2>1 DEF BatchInv
  <1>9. PushInv'
    <2> SUFFICES ASSUME NEW m \in Notes PROVE PushOf(m)'
      BY DEF PushInv
    <2>1. PushOf(m)
      BY DEF PushInv
    <2>2. CASE m # n
      BY <1>2, <1>3, <1>4, <2>1, <2>2, PushStays
    <2>3. CASE m = n
      BY <1>2, <1>3, <1>4, <2>1, <2>3 DEF PushOf
    <2> QED BY <2>2, <2>3
  <1> QED BY <1>5, <1>7, <1>8, <1>9

LEMMA RetireKeeps ==
  ASSUME WhoAndWhat, CentreInv, NEW n \in Notes, Retire(n)
  PROVE  CentreInv'
  <1> USE DEF CentreInv
  <1>1. /\ deliver[n].pc = "pushed" /\ active' = active \ deliver[n].gone
        /\ deliver' = [deliver EXCEPT ![n].pc = "retired"]
        /\ UNCHANGED <<record, batch, pushed, counts, app, tally>>
    BY DEF Retire
  <1>2. /\ deliver'[n].pc = "retired" /\ deliver'[n].got = deliver[n].got
        /\ deliver'[n].tokens = deliver[n].tokens
        /\ deliver' \in [Notes -> NoteDelivery] /\ \A m \in Notes : m # n => deliver'[m] = deliver[m]
    BY <1>1 DEF CentreTypes, NoteDelivery, Steps
  <1>3. CentreTypes'
    BY <1>1, <1>2 DEF CentreTypes
  <1>4. Coming => Coming'
    BY <1>1, <1>2 DEF Coming
  <1>5. CountInv'
    BY <1>1, <1>3, <1>4, CountsStay, Tallies
  <1>6. BatchInv'
    <2>1. \A h \in Handlers : batch[h].created \subseteq Notes
      BY DEF CentreTypes, HandlerWork
    <2> QED BY <1>1, <1>2, <2>1 DEF BatchInv
  <1>7. PushInv'
    <2> SUFFICES ASSUME NEW m \in Notes PROVE PushOf(m)'
      BY DEF PushInv
    <2>1. PushOf(m)
      BY DEF PushInv
    <2>2. CASE m # n
      BY <1>1, <1>2, <2>1, <2>2, PushStays
    <2>3. CASE m = n
      BY <1>1, <1>2, <2>1, <2>3 DEF PushOf
    <2> QED BY <2>2, <2>3
  <1> QED BY <1>3, <1>5, <1>6, <1>7

\* How many phones a push reached, and how many it did not.
LEMMA PhonesAreCounted ==
  ASSUME WhoAndWhat, NEW tokens \in SUBSET Devices, NEW got \in SUBSET tokens
  PROVE  /\ Cardinality(got) \in Nat /\ Cardinality(tokens \ got) \in Nat
         /\ got = {} <=> Cardinality(got) = 0
         /\ got # tokens <=> Cardinality(tokens \ got) > 0
  <1>1. IsFiniteSet(got) /\ IsFiniteSet(tokens \ got)
    BY FS_Subset DEF WhoAndWhat
  <1>2. /\ Cardinality(got) \in Nat /\ Cardinality(tokens \ got) \in Nat
        /\ got = {} <=> Cardinality(got) = 0
        /\ tokens \ got = {} <=> Cardinality(tokens \ got) = 0
    BY <1>1, FS_EmptySet, FS_CardinalityType
  <1>3. got # tokens <=> tokens \ got # {}
    OBVIOUS
  <1> QED BY <1>2, <1>3

LEMMA SetPushKeeps ==
  ASSUME WhoAndWhat, CentreInv, NEW n \in Notes, SetPush(n)
  PROVE  CentreInv'
  <1> USE DEF CentreInv
  <1> DEFINE got == deliver[n].got
             tokens == deliver[n].tokens
  <1>1. /\ deliver[n].pc \in {"retired", "SKIPPED", "NO_DEVICES"}
        /\ record' = [record EXCEPT ![n].status = StatusOf(deliver[n]),
                                   ![n].sent = Cardinality(got), ![n].failed = Cardinality(tokens \ got)]
        /\ deliver' = [deliver EXCEPT ![n] = [NoDelivery EXCEPT !.pc = "done"]]
        /\ UNCHANGED <<batch, active, pushed, counts, app, tally>>
    BY DEF SetPush
  <1>2. /\ tokens \in SUBSET Devices /\ got \in SUBSET tokens
        /\ Cardinality(got) \in Nat /\ Cardinality(tokens \ got) \in Nat
        /\ got = {} <=> Cardinality(got) = 0
        /\ got # tokens <=> Cardinality(tokens \ got) > 0
    <2>1. tokens \in SUBSET Devices /\ got \in SUBSET tokens
      BY OneDelivery
    <2> QED BY <2>1, PhonesAreCounted
  <1>3. StatusOf(deliver[n]) = IF deliver[n].pc # "retired" THEN deliver[n].pc
                               ELSE IF got = tokens THEN "SENT" ELSE IF got # {} THEN "PARTIAL" ELSE "FAILED"
    BY DEF StatusOf
  <1>4. StatusOf(deliver[n]) \in PushStatus
    BY <1>1, <1>3 DEF PushStatus
  <1> HIDE DEF got, tokens
  <1>5. /\ record'[n].state = record[n].state /\ record'[n].status = StatusOf(deliver[n])
        /\ record'[n].sent = Cardinality(got) /\ record'[n].failed = Cardinality(tokens \ got)
        /\ record' \in [Notes -> NoteRecord] /\ \A m \in Notes : m # n => record'[m] = record[m]
    <2> DEFINE new == [record[n] EXCEPT !.status = StatusOf(deliver[n]), !.sent = Cardinality(got),
                                        !.failed = Cardinality(tokens \ got)]
    <2>1. /\ new \in NoteRecord /\ new.state = record[n].state /\ new.status = StatusOf(deliver[n])
          /\ new.sent = Cardinality(got) /\ new.failed = Cardinality(tokens \ got)
      BY <1>2, <1>4 DEF CentreTypes, NoteRecord
    <2>2. record' = [record EXCEPT ![n] = new]
      BY <1>1 DEF CentreTypes
    <2> HIDE DEF new
    <2> QED BY <2>1, <2>2 DEF CentreTypes
  <1>6. /\ deliver'[n].pc = "done" /\ deliver'[n].got = {} /\ deliver'[n].tokens = {}
        /\ deliver' \in [Notes -> NoteDelivery] /\ \A m \in Notes : m # n => deliver'[m] = deliver[m]
    <2> DEFINE new == [pc |-> "done", tokens |-> {}, got |-> {}, gone |-> {}]
    <2>1. [NoDelivery EXCEPT !.pc = "done"] = new
      BY DEF NoDelivery
    <2>2. new \in NoteDelivery
      BY DEF NoteDelivery, Steps
    <2> QED BY <1>1, <2>1, <2>2 DEF CentreTypes
  <1>7. CentreTypes'
    BY <1>1, <1>5, <1>6 DEF CentreTypes
  <1>8. CountInv'
    <2>1. Coming => Coming'
      BY <1>1, <1>6 DEF Coming
    <2>2. \A m \in Notes : record'[m].state = record[m].state
      BY <1>5
    <2> QED BY <1>1, <1>7, <2>1, <2>2, CountsStay, Tallies
  <1>9. BatchInv'
    <2>1. \A m \in Notes : record'[m].state = record[m].state
      BY <1>5
    <2>2. record[n].state # None
      BY <1>1 DEF BatchInv
    <2>3. \A h \in Handlers : n \in batch[h].created => batch[h].pc # "idle"
      BY <1>1 DEF BatchInv
    <2> QED BY <1>1, <1>6, <2>1, <2>2, <2>3 DEF BatchInv, CentreTypes, HandlerWork
  <1>10. PushInv'
    <2> SUFFICES ASSUME NEW m \in Notes PROVE PushOf(m)'
      BY DEF PushInv
    <2>1. PushOf(m)
      BY DEF PushInv
    <2>2. CASE m # n
      BY <1>1, <1>5, <1>6, <2>1, <2>2, PushStays
    <2>3. CASE m = n
      <3>1. Reached(n)' = IF deliver[n].pc = "retired" THEN got ELSE {}
        BY <1>1, <1>2, <2>1, <2>3 DEF PushOf, Reached, got
      <3>2. Cardinality(Reached(n)') = IF deliver[n].pc = "retired" THEN Cardinality(got) ELSE 0
        BY <3>1, FS_EmptySet
      <3>3. deliver[n].pc = "retired" => tokens # {}
        BY <2>1, <2>3 DEF PushOf, tokens
      <3>4. Truth(n)'
        <4>1. CASE deliver[n].pc # "retired"
          BY <1>1, <1>3, <1>5, <3>2, <4>1 DEF Truth
        <4>2. CASE deliver[n].pc = "retired" /\ got = tokens
          <5>1. got # {} /\ Cardinality(got) > 0 /\ Cardinality(tokens \ got) = 0
            BY <1>2, <3>3, <4>2
          <5> QED BY <1>3, <1>5, <3>2, <4>2, <5>1 DEF Truth
        <4>3. CASE deliver[n].pc = "retired" /\ got # tokens /\ got # {}
          <5>1. Cardinality(got) > 0 /\ Cardinality(tokens \ got) > 0
            BY <1>2, <4>3
          <5> QED BY <1>3, <1>5, <3>2, <4>3, <5>1 DEF Truth
        <4>4. CASE deliver[n].pc = "retired" /\ got # tokens /\ got = {}
          BY <1>2, <1>3, <1>5, <3>2, <4>4 DEF Truth
        <4> QED BY <4>1, <4>2, <4>3, <4>4
      <3>5. record'[n].status # "PENDING"
        BY <1>1, <1>3, <1>5
      <3>6. \A p \in Devices : pushed'[n][p] \in {0, 1}
        BY <1>1, <2>1, <2>3 DEF PushOf
      <3> QED BY <1>6, <2>3, <3>4, <3>5, <3>6 DEF PushOf
    <2> QED BY <2>2, <2>3
  <1> QED BY <1>7, <1>8, <1>9, <1>10

LEMMA DeliveryFailsKeeps ==
  ASSUME WhoAndWhat, CentreInv, NEW n \in Notes, DeliveryFails(n)
  PROVE  CentreInv'
  <1> USE DEF CentreInv
  <1> DEFINE d == [pc |-> "lost", tokens |-> {}, got |-> {}, gone |-> {}]
  <1>1. /\ deliver[n].pc \in {"announce", "pushed", "retired"}
        /\ tally' = [tally EXCEPT !.failures = @ + 1]
        /\ UNCHANGED <<record, batch, active, pushed, counts, app>>
    BY DEF DeliveryFails
  <1>2. deliver' = [deliver EXCEPT ![n] = d]
    <2>1. [NoDelivery EXCEPT !.pc = "lost"] = d
      BY DEF NoDelivery
    <2> QED BY <2>1 DEF DeliveryFails
  <1>3. d \in NoteDelivery /\ d.got = {} /\ d.tokens = {} /\ d.pc = "lost"
    BY DEF NoteDelivery, Steps
  <1> HIDE DEF d
  <1>4. /\ tally' \in [reads : Nat, failures : Nat, crashes : Nat]
        /\ tally.failures <= tally'.failures /\ tally'.failures # 0
    BY <1>1 DEF CentreTypes
  <1>5. CentreTypes'
    <2>1. /\ deliver' \in [Notes -> NoteDelivery] /\ deliver'[n] = d
          /\ \A m \in Notes : m # n => deliver'[m] = deliver[m]
      BY <1>2, <1>3 DEF CentreTypes
    <2>2. \A m \in Notes : deliver'[m].got \subseteq deliver'[m].tokens
      BY <1>3, <2>1 DEF CentreTypes
    <2>3. \A m \in Notes : deliver'[m].pc \in {"announce", "counted"} => deliver'[m].got = {}
      BY <1>3, <2>1 DEF CentreTypes
    <2> QED BY <1>1, <1>4, <2>1, <2>2, <2>3 DEF CentreTypes
  <1>6. CountInv'
    BY <1>1, <1>4, <1>5, CountsStay
  <1> QED BY <1>1, <1>2, <1>3, <1>5, <1>6, DeliveryKeeps

-----------------------------------------------------------------------------
\* A step that leaves the batches, the deliveries, the phones and what is stored of a push alone.
LEMMA ReadingKeeps ==
  ASSUME CentreInv, CentreTypes', CountInv', UNCHANGED <<batch, deliver, pushed>>,
         \A n \in Notes : /\ record'[n].status = record[n].status /\ record'[n].sent = record[n].sent
                          /\ record'[n].failed = record[n].failed
                          /\ record'[n].state = None <=> record[n].state = None
  PROVE  CentreInv'
  <1> USE DEF CentreInv
  <1>1. BatchInv'
    <2>1. \A h \in Handlers : batch[h].created \subseteq Notes
      BY DEF CentreTypes, HandlerWork
    <2> QED BY <2>1 DEF BatchInv
  <1>2. PushInv'
    BY PushStays DEF PushInv
  <1> QED BY <1>1, <1>2

LEMMA Ageing ==
  ASSUME CentreTypes
  PROVE  \A c \in Aged : /\ c = [of |-> c.of, value |-> c.value, fresh |-> c.fresh]
                         /\ c.value \in Numbers /\ c.fresh \in BOOLEAN
                         /\ c.fresh <=> c.value = Unknown
  <1> SUFFICES ASSUME NEW c \in counts, NEW d, d = [c EXCEPT !.fresh = c.value = Unknown]
               PROVE  /\ d = [of |-> d.of, value |-> d.value, fresh |-> d.fresh]
                      /\ d.value \in Numbers /\ d.fresh \in BOOLEAN /\ (d.fresh <=> d.value = Unknown)
    BY DEF Aged
  <1>1. c = [of |-> c.of, value |-> c.value, fresh |-> c.fresh] /\ c.value \in Numbers
    BY DEF CentreTypes
  <1>2. d = [of |-> c.of, value |-> c.value, fresh |-> c.value = Unknown]
    BY <1>1
  <1> QED BY <1>1, <1>2

LEMMA ReadsKeeps ==
  ASSUME WhoAndWhat, CentreInv, NEW S, NEW who, Reads(S, who)
  PROVE  CentreInv'
  <1> USE DEF CentreInv
  <1>1. /\ tally' = [tally EXCEPT !.reads = @ + 1]
        /\ counts' = Aged \cup {[of |-> who, value |-> Unknown, fresh |-> TRUE]}
        /\ UNCHANGED <<batch, deliver, active, pushed, app>>
    BY DEF Reads
  <1>6. PICK new : /\ new = [of |-> new.of, value |-> new.value, fresh |-> new.fresh]
                   /\ new.value = Unknown /\ new.fresh /\ new.fresh \in BOOLEAN
                   /\ new = [of |-> who, value |-> Unknown, fresh |-> TRUE]
    OBVIOUS
  <1>2. \A n \in Notes : /\ record'[n].status = record[n].status /\ record'[n].sent = record[n].sent
                         /\ record'[n].failed = record[n].failed
                         /\ record'[n].state = None <=> record[n].state = None
                         /\ record'[n] \in NoteRecord
    <2> SUFFICES ASSUME NEW n \in Notes
                 PROVE  /\ record'[n].status = record[n].status /\ record'[n].sent = record[n].sent
                        /\ record'[n].failed = record[n].failed
                        /\ record'[n].state = None <=> record[n].state = None
                        /\ record'[n] \in NoteRecord
      OBVIOUS
    <2>1. record[n] \in NoteRecord
      BY DEF CentreTypes
    <2>2. record'[n] = IF n \in S \cap Unread THEN [record[n] EXCEPT !.state = "read"] ELSE record[n]
      BY DEF Reads
    <2>3. n \in Unread => record[n].state = "unread"
      BY DEF Unread
    <2> QED BY <2>1, <2>2, <2>3 DEF NoteRecord, None
  <1>3. \A c \in counts' : /\ c = [of |-> c.of, value |-> c.value, fresh |-> c.fresh]
                           /\ c.value \in Numbers /\ c.fresh \in BOOLEAN
                           /\ c.fresh <=> c.value = Unknown
    <2>1. Unknown \in Numbers
      BY DEF Numbers
    <2> QED BY <1>1, <1>6, <2>1, Ageing
  <1>4. CentreTypes'
    <2>1. record' \in [Notes -> NoteRecord]
      BY <1>2 DEF Reads
    <2>2. tally' \in [reads : Nat, failures : Nat, crashes : Nat]
      BY <1>1 DEF CentreTypes
    <2> QED BY <1>1, <1>3, <2>1, <2>2 DEF CentreTypes
  <1>5. CountInv'
    <2>1. CountsAreHonest'
      BY <1>3 DEF CountsAreHonest
    <2>2. Coming'
      BY <1>1, <1>6 DEF Coming
    <2> QED BY <2>1, <2>2 DEF CountInv, BadgeIsComing
  <1> QED BY <1>1, <1>2, <1>4, <1>5, ReadingKeeps

LEMMA PublishCountKeeps ==
  ASSUME WhoAndWhat, CentreInv, PublishCount
  PROVE  CentreInv'
  <1> USE DEF CentreInv
  <1>1. PICK c \in counts :
          /\ c.value = Unknown
          /\ \/ /\ counts' = (counts \ {c}) \cup {[c EXCEPT !.value = unreadCount]}
                /\ UNCHANGED tally
             \/ /\ counts' = counts \ {c} /\ tally' = [tally EXCEPT !.failures = @ + 1]
          /\ UNCHANGED <<record, batch, deliver, active, pushed, app>>
    BY DEF PublishCount
  <1>0. PICK d : d = [c EXCEPT !.value = unreadCount]
    OBVIOUS
  <1>2. /\ d = [of |-> d.of, value |-> d.value, fresh |-> d.fresh]
        /\ d.value = unreadCount /\ d.fresh /\ d.fresh \in BOOLEAN
    <2>1. PICK who, old, fresh : c = [of |-> who, value |-> old, fresh |-> fresh]
      BY DEF CentreTypes
    <2>2. fresh /\ fresh \in BOOLEAN
      BY <1>1, <2>1 DEF CentreTypes, CountInv, CountsAreHonest
    <2>3. d = [of |-> who, value |-> unreadCount, fresh |-> fresh]
      BY <1>0, <2>1
    <2> QED BY <2>2, <2>3
  <1>3. unreadCount \in Numbers /\ unreadCount' = unreadCount
    <2>1. unreadCount' = unreadCount
      BY <1>1 DEF unreadCount, Unread
    <2> QED BY <2>1, CountedIsANumber
  <1>4. CASE counts' = (counts \ {c}) \cup {d} /\ UNCHANGED tally
    <2>1. CentreTypes'
      BY <1>1, <1>2, <1>3, <1>4 DEF CentreTypes
    <2>2. CountsAreHonest'
      BY <1>2, <1>3, <1>4 DEF CountInv, CountsAreHonest
    <2>3. Coming'
      BY <1>2, <1>4 DEF Coming
    <2>4. CountInv'
      BY <2>2, <2>3 DEF CountInv, BadgeIsComing
    <2> QED BY <1>1, <2>1, <2>4, ReadingKeeps
  <1>5. CASE counts' = counts \ {c} /\ tally' = [tally EXCEPT !.failures = @ + 1]
    <2>1. tally' \in [reads : Nat, failures : Nat, crashes : Nat] /\ tally'.failures # 0
      BY <1>5 DEF CentreTypes
    <2>2. CentreTypes'
      BY <1>1, <1>5, <2>1 DEF CentreTypes
    <2>3. CountInv'
      BY <1>1, <1>3, <1>5, <2>1 DEF CountInv, CountsAreHonest, BadgeIsComing
    <2> QED BY <1>1, <2>2, <2>3, ReadingKeeps
  <1> QED BY <1>0, <1>1, <1>4, <1>5

LEMMA UnreadCountKeeps ==
  ASSUME WhoAndWhat, CentreInv, UnreadCount
  PROVE  CentreInv'
  <1> USE DEF CentreInv
  <1>1. PICK c \in counts : Emit(c) /\ UNCHANGED <<record, batch, deliver, active, pushed, tally>>
    BY DEF UnreadCount
  <1>2. /\ CountInv' /\ app' \in [badge : Numbers, late : BOOLEAN]
        /\ \A e \in counts' : /\ e = [of |-> e.of, value |-> e.value, fresh |-> e.fresh]
                              /\ e.value \in Numbers /\ e.fresh \in BOOLEAN
    BY <1>1, EmitKeeps
  <1>3. CentreTypes'
    BY <1>1, <1>2 DEF CentreTypes
  <1> QED BY <1>1, <1>2, <1>3, ReadingKeeps

LEMMA ListKeeps ==
  ASSUME WhoAndWhat, CentreInv, List
  PROVE  CentreInv'
  <1> USE DEF CentreInv
  <1>1. /\ app' = [badge |-> unreadCount, late |-> FALSE]
        /\ UNCHANGED <<record, batch, deliver, active, pushed, counts, tally>>
    BY DEF List
  <1>2. unreadCount \in Numbers /\ unreadCount' = unreadCount
    <2>1. unreadCount' = unreadCount
      BY <1>1 DEF unreadCount, Unread
    <2> QED BY <2>1, CountedIsANumber
  <1>3. CentreTypes'
    BY <1>1, <1>2 DEF CentreTypes
  <1>4. CountInv'
    BY <1>1, <1>2 DEF CountInv, CountsAreHonest, BadgeIsComing
  <1> QED BY <1>1, <1>3, <1>4, ReadingKeeps

LEMMA CrashKeeps ==
  ASSUME WhoAndWhat, CentreInv, Crash
  PROVE  CentreInv'
  <1> USE DEF CentreInv
  <1> DEFINE lost == [pc |-> "lost", tokens |-> {}, got |-> {}, gone |-> {}]
  <1>1. /\ counts' = {} /\ app' = [app EXCEPT !.badge = Unknown]
        /\ tally' = [tally EXCEPT !.crashes = @ + 1]
        /\ UNCHANGED <<record, active, pushed>>
    BY DEF Crash
  <1>2. \A h \in Handlers : /\ batch'[h].pc = "done" /\ batch'[h].created = batch[h].created
                            /\ batch'[h] \in HandlerWork
    <2> SUFFICES ASSUME NEW h \in Handlers
                 PROVE  /\ batch'[h].pc = "done" /\ batch'[h].created = batch[h].created
                        /\ batch'[h] \in HandlerWork
      OBVIOUS
    <2>1. batch[h] \in HandlerWork /\ batch'[h] = [batch[h] EXCEPT !.pc = "done"]
      BY DEF Crash, CentreTypes
    <2> QED BY <2>1 DEF HandlerWork
  <1>3. \A n \in Notes : deliver'[n] = IF deliver[n].pc \in {"idle", "done"} THEN deliver[n] ELSE lost
    <2>1. [NoDelivery EXCEPT !.pc = "lost"] = lost
      BY DEF NoDelivery
    <2> QED BY <2>1 DEF Crash
  <1>4. lost \in NoteDelivery /\ lost.got = {} /\ lost.tokens = {} /\ lost.pc = "lost"
    BY DEF NoteDelivery, Steps
  <1> HIDE DEF lost
  <1>5. CentreTypes'
    <2>1. deliver' \in [Notes -> NoteDelivery]
      <3>1. \A n \in Notes : deliver'[n] \in NoteDelivery
        BY <1>3, <1>4 DEF CentreTypes
      <3> QED BY <3>1 DEF Crash
    <2>2. \A m \in Notes : deliver'[m].got \subseteq deliver'[m].tokens
      BY <1>3, <1>4 DEF CentreTypes
    <2>3. \A m \in Notes : deliver'[m].pc \in {"announce", "counted"} => deliver'[m].got = {}
      BY <1>3, <1>4 DEF CentreTypes
    <2>4. batch' \in [Handlers -> HandlerWork]
      BY <1>2 DEF Crash
    <2>5. app' \in [badge : Numbers, late : BOOLEAN]
      BY <1>1 DEF CentreTypes, Numbers
    <2>6. tally' \in [reads : Nat, failures : Nat, crashes : Nat]
      BY <1>1 DEF CentreTypes
    <2> QED BY <1>1, <2>1, <2>2, <2>3, <2>4, <2>5, <2>6 DEF CentreTypes
  <1>6. CountInv'
    <2>1. app'.badge = Unknown
      BY <1>1 DEF CentreTypes
    <2> QED BY <1>1, <2>1 DEF CountInv, CountsAreHonest, BadgeIsComing
  <1>7. BatchInv'
    <2>1. \A h \in Handlers : batch[h].created \subseteq Notes
      BY DEF CentreTypes, HandlerWork
    <2> QED BY <1>1, <1>2, <1>3, <2>1 DEF BatchInv
  <1>8. PushInv'
    <2> SUFFICES ASSUME NEW m \in Notes PROVE PushOf(m)'
      BY DEF PushInv
    <2>1. PushOf(m)
      BY DEF PushInv
    <2> QED BY <1>1, <1>3, <1>4, <2>1, PushStays
  <1> QED BY <1>5, <1>6, <1>7, <1>8

LEMMA CentreStep == WhoAndWhat /\ CentreInv /\ [CentreNext]_centreVars => CentreInv'
  <1> SUFFICES ASSUME WhoAndWhat, CentreInv, [CentreNext]_centreVars PROVE CentreInv'
    OBVIOUS
  <1>1. CASE UNCHANGED centreVars
    <2>1. CentreTypes' /\ CountInv'
      BY <1>1 DEF centreVars, CentreInv, CentreTypes, CountInv, CountsAreHonest, BadgeIsComing,
                  Coming, unreadCount, Unread
    <2> QED BY <1>1, <2>1, ReadingKeeps DEF centreVars
  <1>2. ASSUME NEW n \in Notes, MarkRead(n) PROVE CentreInv'
    BY <1>2, ReadsKeeps DEF MarkRead
  <1>3. CASE MarkAllRead
    BY <1>3, ReadsKeeps DEF MarkAllRead
  <1> QED BY <1>1, <1>2, <1>3, RecordKeeps, StartDeliveryKeeps, AnnounceKeeps, CreatedKeeps,
             PushKeeps, RetireKeeps, SetPushKeeps, DeliveryFailsKeeps, PublishCountKeeps,
             UnreadCountKeeps, ListKeeps, CrashKeeps DEF CentreNext

-----------------------------------------------------------------------------
NoticesInv == PlanInv /\ CentreInv

LEMMA NoticesBegin == WhoAndWhat /\ Init => NoticesInv
  BY PlanBegins, CentreBegins DEF NoticesInv

LEMMA NoticesStep ==
  WhoAndWhat /\ NoticesInv /\ [Next]_<<noticeVars, centreVars>> => NoticesInv'
  <1> SUFFICES ASSUME WhoAndWhat, NoticesInv, [Next]_<<noticeVars, centreVars>> PROVE NoticesInv'
    OBVIOUS
  <1>1. [PlanNext]_noticeVars /\ [CentreNext]_centreVars
    BY DEF Next
  <1> QED BY <1>1, PlanStep, CentreStep DEF NoticesInv

LEMMA NoticesShow ==
  ASSUME WhoAndWhat, NoticesInv
  PROVE  /\ TypeOK /\ CauserIsNotTold /\ EndIsHeard /\ EveryOfferIsHeard
         /\ BadgeSettles /\ RecordComesFirst /\ PushedOnce /\ StatusIsTrue
  <1> USE DEF NoticesInv
  <1>1. TypeOK
    <2>1. \A n \in notes : n.to \in People
      <3> SUFFICES ASSUME NEW n \in notes PROVE n.to \in People
        OBVIOUS
      <3>1. PICK e \in heard : n \in Drafts(e)
        BY DEF PlanInv, NotesAreThePlan
      <3>2. e.driver \in Drivers \cup {Nobody}
        BY DEF PlanInv, NotesAreThePlan, EventsAreOfTheRide, OfTheRide
      <3>3. Recipients(e) \subseteq {Customer} \cup Assigned(e)
        BY DEF Recipients, RideRecipients, Cancelled, PaymentRecipients, RefundRecipients,
               CircuitRecipients
      <3>4. n.to \in Recipients(e)
        BY <3>1 DEF Drafts
      <3> QED BY <3>2, <3>3, <3>4 DEF Assigned, People
    <2>2. /\ ride.status \in Statuses /\ ride.driver \in Drivers \cup {Nobody}
          /\ ride.version <= MaxVersion /\ heard \subseteq events
      BY DEF PlanInv, RideTypes, NotesAreThePlan, WhoAndWhat
    <2>3. \A n \in Notes :
            /\ record[n].state \in {None, "unread", "read"} /\ record[n].status \in PushStatus
            /\ deliver[n].tokens \subseteq Devices /\ deliver[n].got \subseteq deliver[n].tokens
      <3> SUFFICES ASSUME NEW n \in Notes
                   PROVE  /\ record[n].state \in {None, "unread", "read"} /\ record[n].status \in PushStatus
                          /\ deliver[n].tokens \subseteq Devices
                          /\ deliver[n].got \subseteq deliver[n].tokens
        OBVIOUS
      <3>1. record[n] \in NoteRecord
        BY DEF CentreInv, CentreTypes
      <3> QED BY <3>1, OneDelivery DEF CentreInv, NoteRecord
    <2>4. active \subseteq Devices /\ \A c \in counts : c.value \in 0..Cardinality(Notes) \cup {Unknown}
      BY DEF CentreInv, CentreTypes, Numbers
    <2> QED BY <2>1, <2>2, <2>3, <2>4 DEF TypeOK
  <1>2. CauserIsNotTold /\ EndIsHeard /\ EveryOfferIsHeard
    BY PlanShows
  <1>3. BadgeSettles
    <2> SUFFICES ASSUME Quiet, tally.failures = 0, ~app.late, app.badge # Unknown
                 PROVE  app.badge = unreadCount
      BY DEF BadgeSettles
    <2>1. ~Coming
      BY DEF Quiet, Coming
    <2> QED BY <2>1 DEF CentreInv, CountInv, BadgeIsComing
  <1>4. RecordComesFirst
    BY DEF RecordComesFirst, CentreInv, BatchInv
  <1>5. PushedOnce
    BY DEF PushedOnce, CentreInv, PushInv, PushOf
  <1>6. StatusIsTrue
    <2> SUFFICES ASSUME NEW n \in Notes
                 PROVE  LET reached == Cardinality({p \in Devices : pushed[n][p] > 0}) IN
                        CASE record[n].status = "PENDING" -> reached > 0 => deliver[n].pc # "done"
                          [] record[n].status = "SENT" ->
                               record[n].sent = reached /\ record[n].failed = 0 /\ reached > 0
                          [] record[n].status = "PARTIAL" ->
                               record[n].sent = reached /\ record[n].failed > 0 /\ reached > 0
                          [] OTHER -> reached = 0
      BY DEF StatusIsTrue
    <2>1. PushOf(n)
      BY DEF CentreInv, PushInv
    <2>2. CASE record[n].status = "PENDING"
      BY <2>1, <2>2 DEF PushOf
    <2>3. CASE record[n].status # "PENDING"
      <3>1. Truth(n)
        BY <2>1, <2>3 DEF PushOf
      <3> QED BY <2>3, <3>1 DEF Truth, Reached
    <2> QED BY <2>2, <2>3
  <1> QED BY <1>1, <1>2, <1>3, <1>4, <1>5, <1>6

\* For any drivers, refunds, handlers, notifications and phones, whatever order events are handled
\* in and whatever fails: who ends a ride is not told and the others are, every offer is told apart,
\* the badge settles on what is unread, what was pushed is recorded, once, and its status is true.
THEOREM PeopleAreTold ==
  ASSUME WhoAndWhat
  PROVE  Spec => [](/\ TypeOK /\ CauserIsNotTold /\ EndIsHeard /\ EveryOfferIsHeard /\ BadgeSettles
                    /\ RecordComesFirst /\ PushedOnce /\ StatusIsTrue)
  <1>1. Init => NoticesInv
    BY NoticesBegin
  <1>2. NoticesInv /\ [Next]_<<noticeVars, centreVars>> => NoticesInv'
    BY NoticesStep
  <1>3. NoticesInv => /\ TypeOK /\ CauserIsNotTold /\ EndIsHeard /\ EveryOfferIsHeard /\ BadgeSettles
                      /\ RecordComesFirst /\ PushedOnce /\ StatusIsTrue
    BY NoticesShow
  <1> QED BY <1>1, <1>2, <1>3, PTL DEF Spec
=============================================================================
