--------------------------- MODULE MCRideDispatch ---------------------------
(* Small instances of RideDispatch for TLC. *)
EXTENDS RideDispatch, TLC

\* Every ride is booked by a customer of its own.
OwnCustomer == [r \in Rides |-> r]

\* One ride is booked by a customer of its own, all others by one customer.
Loner == CHOOSE r \in Rides : TRUE
LonersAndOthers == [r \in Rides |-> IF r = Loner THEN "c2" ELSE "c1"]

\* Bound: two rides are booked; two of one customer only while no driver is online.
Booked == {r \in Rides : status[r] # "NONE"}
TwoRidesBooked ==
  /\ Cardinality(Booked) <= 2
  /\ Cardinality(Booked \ {Loner}) = 2 => \A d \in Drivers : ~online[d]

Symmetry == Permutations(Rides \ {Loner}) \cup Permutations(Drivers) \cup Permutations(Calls)
=============================================================================
