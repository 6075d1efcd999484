SPECIFICATION Spec
CONSTANTS
 Requests={r1}
 Phones={n1,n2,n3}
 MaxContacts=2
 MaxMade=3
INVARIANTS ExactlyOnePrimary
CHECK_DEADLOCK FALSE
