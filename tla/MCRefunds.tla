----------------------------- MODULE MCRefunds ------------------------------
(* Small instances of Refunds for TLC. *)
EXTENDS Refunds, TLC

\* Two units were paid with a promotion for a fare of three.
PromotedRide == [gross |-> 3, commission |-> 1]

\* Bound: refunds that admins request, one of which may grow old before the other
\* is asked for, or one request next to a dashboard refund and a handler that
\* dies, where what is requested is the whole payment.
Requested == {k \in Keys : refund[k].status # "NONE" \/ \E p \in Calls : call[p].ref = k}
AtRazorpay == {g \in GwRefunds : gateway[g].status # "none"}
FromDashboard == {g \in AtRazorpay : gateway[g].for = NoRefund}
RequestsOrDashboard ==
  \/ FromDashboard = {} /\ failures = 0 /\ (Cardinality(Requested) = 2 => aged = {})
  \/ /\ Cardinality(Requested) <= 1 /\ Cardinality(AtRazorpay) <= 1
     /\ \A k \in Requested : refund[k].status # "NONE" => refund[k].amount = Paid
     /\ \A g \in FromDashboard : gateway[g].amount = Paid

Symmetry == Permutations(Keys) \cup Permutations(Externals) \cup
            Permutations(GwRefunds) \cup Permutations(Calls)
=============================================================================
