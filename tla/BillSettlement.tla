--------------------------- MODULE BillSettlement ---------------------------
(***************************************************************************)
(* What the payments API promises for one ride: its bill is settled once,  *)
(* in cash or by one Razorpay payment, and never again by another; every   *)
(* other capture can only be flagged; the driver is credited once, after   *)
(* the bill is settled.                                                    *)
(***************************************************************************)
CONSTANTS Pays, NoPay
VARIABLES cash, paidBy, duplicates, credited

Unsettled == ~cash /\ paidBy = NoPay

Init == cash = FALSE /\ paidBy = NoPay /\ duplicates = {} /\ credited = FALSE

SettleInCash == /\ Unsettled
                /\ cash' = TRUE
                /\ UNCHANGED <<paidBy, duplicates, credited>>

SettleBy(g) == /\ Unsettled
               /\ paidBy' = g
               /\ UNCHANGED <<cash, duplicates, credited>>

Flag(g) == /\ ~Unsettled /\ g # paidBy
           /\ duplicates' = duplicates \cup {g}
           /\ UNCHANGED <<cash, paidBy, credited>>

Credit == /\ ~Unsettled
          /\ credited' = TRUE
          /\ UNCHANGED <<cash, paidBy, duplicates>>

Next == SettleInCash \/ Credit \/ \E g \in Pays : SettleBy(g) \/ Flag(g)

Spec == Init /\ [][Next]_<<cash, paidBy, duplicates, credited>>
=============================================================================
