----------------------------- MODULE Realtime -----------------------------
(***************************************************************************)
(* Live updates of one ride: a committed change queues a publication, the  *)
(* publications of the ride run one after another, and each recipient's    *)
(* sockets get the recipient's own view and join or leave the ride's room. *)
(* Sockets connect, recover, ask for the room and drop meanwhile; the API  *)
(* may restart.  The apps keep the newest view they were sent and read the *)
(* ride over REST after every connect.  Wording, the driver's position and *)
(* limits per socket are left out.                                         *)
(*                                                                         *)
(* The chain of a ride's publications is a Map of one process              *)
(* (ride-events.service.ts:43, 261-276), so this is the deployment with a  *)
(* single API instance, which restarts; two instances that change one ride *)
(* would publish side by side, and are not modelled.                       *)
(***************************************************************************)
EXTENDS Integers, Sequences

CONSTANTS
  Drivers, Sockets, UserOf,   \* UserOf[s]: the driver, or "customer"
  Handlers,                   \* requests that change the ride, at most this many at once
  Starts,                     \* where the ride is when the API starts: [status, driver]
  MaxVersion, MaxFailures, MaxRestarts, MaxConnects

VARIABLES
  ride,      \* [status, driver, rejected, version, code]
  handler,   \* [pc, task]
  queue,     \* the publications that wait
  running,   \* the one that has read what it sends, or Idle
  socket,    \* [pc, room, found, armed]
  app,       \* [version, status, phone, code]: the view that is shown; version 0: none
  count,     \* [failures, restarts, connects]
  past       \* [sent, overlap, disorder, closed, late, lost]: history, for the properties

realtimeVars == <<ride, handler, queue, running, socket, app, count, past>>

None == "none"
RIDE_TRANSITIONS ==
  [SEARCHING |-> {"DRIVER_ASSIGNED", "CANCELLED", "NO_DRIVER_AVAILABLE"},
   DRIVER_ASSIGNED |-> {"DRIVER_ACCEPTED", "SEARCHING", "CANCELLED"},
   DRIVER_ACCEPTED |-> {"DRIVER_ARRIVED", "CANCELLED"},
   DRIVER_ARRIVED |-> {"RIDE_STARTED", "CANCELLED"},
   RIDE_STARTED |-> {"COMPLETED"},
   COMPLETED |-> {}, CANCELLED |-> {}, NO_DRIVER_AVAILABLE |-> {}]
RideStatus == DOMAIN RIDE_TRANSITIONS
isTerminal(status) == RIDE_TRANSITIONS[status] = {}
ENGAGED == {"DRIVER_ACCEPTED", "DRIVER_ARRIVED", "RIDE_STARTED"}
\* What a change other than a transition requires of the ride.
Change == [OTP_REFRESHED |-> "DRIVER_ARRIVED", END_REQUESTED |-> "RIDE_STARTED",
           END_CANCELLED |-> "RIDE_STARTED", PAYMENT_UPDATED |-> "COMPLETED"]

\* phone: the other's number is in it; of the customer also the driver's position.
View == [version : 0..MaxVersion, status : RideStatus \cup {None}, phone : BOOLEAN, code : 0..MaxVersion]
NoView == [version |-> 0, status |-> None, phone |-> FALSE, code |-> 0]
Idle == [pc |-> "idle"]
Off == [pc |-> "off", room |-> FALSE, found |-> FALSE, armed |-> FALSE]

Init ==
  /\ \E start \in Starts :
       ride = [status |-> start.status, driver |-> start.driver, rejected |-> {}, version |-> 1,
               code |-> IF start.status = "DRIVER_ARRIVED" THEN 1 ELSE 0]
  /\ handler = [h \in Handlers |-> Idle]
  /\ queue = <<>> /\ running = Idle
  /\ socket = [s \in Sockets |-> Off]
  /\ app = [s \in Sockets |-> NoView]
  /\ count = [failures |-> 0, restarts |-> 0, connects |-> 0]
  /\ past = [sent |-> 0, overlap |-> FALSE, disorder |-> FALSE, closed |-> FALSE, late |-> {}, lost |-> FALSE]

-----------------------------------------------------------------------------
(* Changes of the ride                                                     *)

\* The task of a transition holds the ride as committed, but for the code; the others name what happened.
Commit(h, to, driver) ==
  /\ handler[h].pc = "idle" /\ to \in RIDE_TRANSITIONS[ride.status] /\ ride.version < MaxVersion
  /\ driver = None <=> (to \in {"SEARCHING", "NO_DRIVER_AVAILABLE"} \/ (to = "CANCELLED" /\ ride.driver = None))
  /\ to \notin {"DRIVER_ASSIGNED", "SEARCHING"} => driver = ride.driver
  /\ driver \notin ride.rejected
  /\ LET new == [status |-> to, driver |-> driver, version |-> ride.version + 1,
                 rejected |-> ride.rejected \cup (IF to = "SEARCHING" THEN {ride.driver} ELSE {}),
                 code |-> IF to = "DRIVER_ARRIVED" THEN ride.version + 1 ELSE 0] IN
     /\ ride' = new
     /\ handler' = [handler EXCEPT ![h] = [pc |-> "recording", task |->
          [kind |-> "transition", ride |-> [new EXCEPT !.code = 0], previous |-> IF to = "SEARCHING" THEN ride.driver ELSE None]]]
  /\ past' = [past EXCEPT !.overlap = @ \/ \E g \in Handlers : handler[g].pc = "recording"]
  /\ UNCHANGED <<queue, running, socket, app, count>>

Alter(h, kind) ==
  /\ handler[h].pc = "idle" /\ ride.status = Change[kind] /\ ride.version < MaxVersion
  /\ ride' = [ride EXCEPT !.version = @ + 1, !.code = IF kind \in {"OTP_REFRESHED", "END_REQUESTED"} THEN ride.version + 1 ELSE 0]
  /\ handler' = [handler EXCEPT ![h] = [pc |-> "recording", task |-> [kind |-> kind]]]
  /\ UNCHANGED <<queue, running, socket, app, count, past>>

\* The history entry is written, or fails and is logged; then the change is announced.
Enqueue(h) ==
  /\ handler[h].pc = "recording"
  /\ queue' = Append(queue, handler[h].task)
  /\ handler' = [handler EXCEPT ![h] = Idle]
  /\ UNCHANGED <<ride, running, socket, app, count, past>>

-----------------------------------------------------------------------------
(* Publications                                                            *)

base(r) == [version |-> r.version, status |-> r.status, phone |-> FALSE, code |-> 0]
forCustomer(r) == [base(r) EXCEPT !.phone = r.status \in ENGAGED, !.code = r.code]
forDriver(r) == [base(r) EXCEPT !.phone = r.status \in ENGAGED]
\* A transition tells of the ride as it was committed; the code is looked up.
withOtp(r) == IF r.status = "DRIVER_ARRIVED" /\ ride.status = "DRIVER_ARRIVED" THEN ride ELSE r
PlansDriver(status) == status \notin {"SEARCHING", "NO_DRIVER_AVAILABLE"}
InRideRoom(status, user) == ~isTerminal(status) /\ (user = "customer" \/ status \in ENGAGED)
RoomOf(status, user) == IF InRideRoom(status, user) THEN "join" ELSE "leave"

\* [to: what each recipient gets, close]: the deliveries a task sends.
Delivery(user, room, view) == [user |-> user, room |-> room, view |-> view]
TransitionDeliveries(task) ==
  LET r == task.ride IN
  {Delivery("customer", RoomOf(r.status, "customer"), forCustomer(withOtp(r)))}
    \cup {Delivery(d, RoomOf(r.status, d), forDriver(r)) :
            d \in IF PlansDriver(r.status) THEN {r.driver} \ {None} ELSE {}}
    \cup {Delivery(d, "leave", NoView) : d \in {task.previous} \ {None}}
\* A new code to start with is the customer's only; the other changes are told to both.
RefreshDeliveries == {Delivery("customer", "join", forCustomer(ride))}
ChangeDeliveries ==
  {Delivery("customer", "keep", forCustomer(ride))}
    \cup {Delivery(d, "keep", forDriver(ride)) : d \in {ride.driver} \ {None}}
\* The ride is read again: a code that no longer matters is not told; a payment always is.
StillMatters(kind) == kind = "PAYMENT_UPDATED" \/ ride.status = Change[kind]
Deliveries(task) ==
  CASE task.kind = "transition" -> TransitionDeliveries(task)
    [] task.kind # "transition" /\ ~StillMatters(task.kind) -> {}
    [] task.kind = "OTP_REFRESHED" /\ StillMatters(task.kind) -> RefreshDeliveries
    [] OTHER -> ChangeDeliveries

Chained(i) == i = 1   \* the oldest publication of the ride is the next
Publish(i) ==
  /\ i \in 1..Len(queue) /\ Chained(i) /\ running = Idle
  /\ running' = [task |-> queue[i], to |-> Deliveries(queue[i])]
  /\ queue' = SubSeq(queue, 1, i - 1) \o SubSeq(queue, i + 1, Len(queue))
  /\ UNCHANGED <<ride, handler, socket, app, count, past>>
PublishFails ==
  /\ queue # <<>> /\ running = Idle /\ count.failures < MaxFailures
  /\ queue' = Tail(queue) /\ count' = [count EXCEPT !.failures = @ + 1]
  /\ past' = [past EXCEPT !.lost = TRUE]
  /\ UNCHANGED <<ride, handler, running, socket, app>>

\* A socket is found by its user's room once it has joined that, or by the ride's.
Connected(s) == socket[s].pc # "off"
Members == {s \in Sockets : Connected(s) /\ socket[s].room}
\* The app shows a view that is not older than its own; a withdrawn offer goes away.
Shows(old, view) ==
  CASE view.version = 0 -> NoView
    [] view.version > 0 /\ view.version >= old.version -> view
    [] OTHER -> old
Deliver ==
  /\ running # Idle
  /\ LET For(s) == {d \in running.to : d.user = UserOf[s]}
         Room(s) == IF For(s) = {} THEN socket[s].room
                    ELSE \E d \in For(s) : d.room = "join" \/ (d.room = "keep" /\ socket[s].room)
         closes == running.task.kind = "transition" /\ isTerminal(running.task.ride.status)
         version == IF running.task.kind = "transition" THEN running.task.ride.version ELSE past.sent IN
     /\ socket' = [s \in Sockets |->
          IF Connected(s) THEN [socket[s] EXCEPT !.room = Room(s) /\ ~closes] ELSE socket[s]]
     /\ app' = [s \in Sockets |->
          IF Connected(s) /\ For(s) # {} THEN Shows(app[s], (CHOOSE d \in For(s) : TRUE).view) ELSE app[s]]
     /\ past' = [past EXCEPT !.closed = @ \/ closes, !.disorder = @ \/ version < past.sent, !.sent = version]
  /\ running' = Idle
  /\ UNCHANGED <<ride, handler, queue, count>>

-----------------------------------------------------------------------------
(* Sockets                                                                 *)

\* Whose ride it is, and whether its room is open to them now.
Owner(user) == user = "customer" \/ ride.driver = user
Access(user) == Owner(user) /\ (IF user = "customer" THEN ~isTerminal(ride.status) ELSE ride.status \in ENGAGED)
Enters(s, was) == [past EXCEPT !.late = IF past.closed /\ was THEN @ \cup {s} ELSE @]

\* The handshake is over, the rooms of a recovered session are back and the user's room is joined.
Connect(s, recovered) ==
  /\ socket[s].pc = "off" /\ count.connects < MaxConnects
  /\ count' = [count EXCEPT !.connects = @ + 1]
  /\ socket' = [socket EXCEPT ![s] = [pc |-> "joined", room |-> recovered /\ socket[s].room,
                                      found |-> FALSE, armed |-> FALSE]]
  /\ past' = Enters(s, recovered /\ socket[s].room)
  /\ UNCHANGED <<ride, handler, queue, running, app>>
activeRideIds(s) ==
  /\ socket[s].pc = "joined"
  /\ socket' = [socket EXCEPT ![s].pc = "read", ![s].found = Access(UserOf[s])]
  /\ UNCHANGED <<ride, handler, queue, running, app, count, past>>
JoinRooms(s) ==
  /\ socket[s].pc = "read"
  /\ socket' = [socket EXCEPT ![s] = [pc |-> "ready", room |-> @.room \/ @.found, found |-> FALSE, armed |-> TRUE]]
  /\ past' = Enters(s, socket[s].found)
  /\ UNCHANGED <<ride, handler, queue, running, app, count>>
\* The app reads its ride after session.ready: its own view, or that it has none.
Sync(s) ==
  /\ socket[s].pc = "ready"
  /\ socket' = [socket EXCEPT ![s].pc = "open"]
  /\ app' = [app EXCEPT ![s] =
       IF ~Owner(UserOf[s]) THEN NoView
       ELSE Shows(@, IF UserOf[s] = "customer" THEN forCustomer(ride) ELSE forDriver(ride))]
  /\ UNCHANGED <<ride, handler, queue, running, count, past>>
JoinRide(s) ==
  /\ socket[s].pc = "open" /\ Access(UserOf[s])
  /\ socket' = [socket EXCEPT ![s].pc = "asked"]
  /\ UNCHANGED <<ride, handler, queue, running, app, count, past>>
Joined(s) ==
  /\ socket[s].pc = "asked"
  /\ socket' = [socket EXCEPT ![s].pc = "open", ![s].room = TRUE]
  /\ past' = Enters(s, TRUE)
  /\ UNCHANGED <<ride, handler, queue, running, app, count>>
LeaveRide(s) ==
  /\ socket[s].pc = "open" /\ socket[s].room
  /\ socket' = [socket EXCEPT ![s].room = FALSE]
  /\ UNCHANGED <<ride, handler, queue, running, app, count, past>>
\* A dropped connection: the session remembers the room for a while, the timer is cleared.
Disconnect(s) ==
  /\ Connected(s)
  /\ socket' = [socket EXCEPT ![s] = [Off EXCEPT !.room = socket[s].room]]
  /\ UNCHANGED <<ride, handler, queue, running, app, count, past>>
\* The token behind the socket expires: the server ends the connection.
TokenExpires(s) ==
  /\ socket[s].armed
  /\ socket' = [socket EXCEPT ![s] = Off]
  /\ UNCHANGED <<ride, handler, queue, running, app, count, past>>
Restart ==
  /\ count.restarts < MaxRestarts /\ count' = [count EXCEPT !.restarts = @ + 1]
  /\ handler' = [h \in Handlers |-> Idle] /\ queue' = <<>> /\ running' = Idle
  /\ socket' = [s \in Sockets |-> Off]
  /\ UNCHANGED <<ride, app, past>>

Next ==
  \/ \E h \in Handlers :
       \/ \E to \in RideStatus, d \in Drivers \cup {None} : Commit(h, to, d)
       \/ \E kind \in DOMAIN Change : Alter(h, kind)
       \/ Enqueue(h)
  \/ \E i \in 1..MaxVersion : Publish(i)
  \/ PublishFails \/ Deliver \/ Restart
  \/ \E s \in Sockets :
       \/ Connect(s, TRUE) \/ Connect(s, FALSE) \/ activeRideIds(s) \/ JoinRooms(s) \/ Sync(s)
       \/ JoinRide(s) \/ Joined(s) \/ LeaveRide(s) \/ Disconnect(s) \/ TokenExpires(s)

Spec == Init /\ [][Next]_realtimeVars

-----------------------------------------------------------------------------
\* Type invariant.
TypeOK ==
  /\ ride.status \in RideStatus /\ ride.driver \in Drivers \cup {None}
  /\ ride.version \in 1..MaxVersion /\ ride.code \in 0..MaxVersion
  /\ \A h \in Handlers : handler[h].pc \in {"idle", "recording"}
  /\ \A i \in 1..Len(queue) : queue[i].kind \in DOMAIN Change \cup {"transition"}
  /\ socket \in [Sockets -> [pc : {"off", "joined", "read", "ready", "open", "asked"}, room : BOOLEAN,
                             found : BOOLEAN, armed : BOOLEAN]]
  /\ app \in [Sockets -> View] /\ past.late \subseteq Sockets

Quiet == queue = <<>> /\ running = Idle /\ \A h \in Handlers : handler[h].pc = "idle"

\* Once nothing is being published, every app that is connected and has read its ride shows the
\* ride as it is, with the standing code for its customer, in whatever order changes, publications,
\* connects, drops and restarts came: unless a publication failed.  (The driver is not told of a
\* new code, so of the version it changes.  Whose offer was withdrawn is told without a version,
\* so of that driver only when no two changes were recorded at once.)
AppsConverge ==
  Quiet /\ ~past.lost =>
    \A s \in Sockets : socket[s].pc \in {"open", "asked"} =>
      IF UserOf[s] = "customer" THEN app[s] = forCustomer(ride)
      ELSE IF ride.driver = UserOf[s] THEN [app[s] EXCEPT !.version = ride.version] = forDriver(ride)
      ELSE past.overlap \/ app[s] = NoView

\* "strictly ordered per ride through a promise chain" (ride-events.service.ts:37): the transitions of a ride are
\* sent in the order they were committed in, unless two were being recorded at the same time.
SentInOrder == past.disorder => past.overlap

\* "Everyone leaves a ride's room once the ride is over" (realtime.service.ts:88): but for a socket
\* that was let in on a read from before, or recovered with it, and for changes out of order.
EndedRoomEmpties == past.closed /\ ~past.overlap => Members \subseteq past.late

\* The room, and with it the driver's position, is only ever the customer's and the driver's who
\* has accepted: a driver who is merely offered the ride is not a member (ride-room-access.service.ts:21).
RoomIsTheirs ==
  \A s \in Members : UserOf[s] # "customer" => ride.driver = UserOf[s] /\ ride.status \notin {"SEARCHING", "DRIVER_ASSIGNED"}

\* "A socket must not outlive the access token it was opened with" (realtime.gateway.ts:230): also
\* one that was recovered has its timer set once it is ready.
TimersAreSet == \A s \in Sockets : socket[s].pc \in {"ready", "open", "asked"} => socket[s].armed
=============================================================================
