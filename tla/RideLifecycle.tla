--------------------------- MODULE RideLifecycle ----------------------------
(***************************************************************************)
(* What the ride API promises its users, with every request taking effect  *)
(* at once: a ride walks the edges of RIDE_TRANSITIONS, a customer has one *)
(* open ride, and a driver is offered a ride only while holding no other,  *)
(* keeps the ride they accepted to its end and is never swapped for        *)
(* another.                                                                *)
(***************************************************************************)
CONSTANTS Rides, Drivers, CustomerOf, NoDriver
VARIABLES status, driverOf

Open == {"SEARCHING", "DRIVER_ASSIGNED", "DRIVER_ACCEPTED", "DRIVER_ARRIVED",
         "RIDE_STARTED"}
Unstarted == Open \ {"RIDE_STARTED"}
IsOpen(r) == status[r] \in Open

Free(d) == \A r \in Rides : IsOpen(r) => driverOf[r] # d

Init == /\ status = [r \in Rides |-> "NONE"]
        /\ driverOf = [r \in Rides |-> NoDriver]

Move(r, from, to) == /\ status[r] = from
                     /\ status' = [status EXCEPT ![r] = to]

Book(r) == /\ \A s \in Rides : CustomerOf[s] = CustomerOf[r] => ~IsOpen(s)
           /\ Move(r, "NONE", "SEARCHING")
           /\ UNCHANGED driverOf

Offer(r, d) == /\ Free(d)
               /\ Move(r, "SEARCHING", "DRIVER_ASSIGNED")
               /\ driverOf' = [driverOf EXCEPT ![r] = d]

Withdraw(r) == /\ Move(r, "DRIVER_ASSIGNED", "SEARCHING")
               /\ driverOf' = [driverOf EXCEPT ![r] = NoDriver]

Advance(r) == /\ \/ Move(r, "DRIVER_ASSIGNED", "DRIVER_ACCEPTED")
                 \/ Move(r, "DRIVER_ACCEPTED", "DRIVER_ARRIVED")
                 \/ Move(r, "DRIVER_ARRIVED", "RIDE_STARTED")
                 \/ Move(r, "RIDE_STARTED", "COMPLETED")
              /\ UNCHANGED driverOf

Cancel(r) == /\ \E from \in Unstarted : Move(r, from, "CANCELLED")
             /\ UNCHANGED driverOf

Expire(r) == Move(r, "SEARCHING", "NO_DRIVER_AVAILABLE") /\ UNCHANGED driverOf

Next == \E r \in Rides :
          \/ Book(r) \/ Withdraw(r) \/ Advance(r) \/ Cancel(r) \/ Expire(r)
          \/ \E d \in Drivers : Offer(r, d)

Spec == Init /\ [][Next]_<<status, driverOf>>
=============================================================================
