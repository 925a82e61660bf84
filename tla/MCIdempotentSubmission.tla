----------------------- MODULE MCIdempotentSubmission -----------------------
EXTENDS IdempotentSubmission, FiniteSets

\* Three requests: the winner of a key, one that races it, and one that comes
\* when either of them was answered or lost.
ASSUME BoundsAssumption == Cardinality(Submissions) = 3 /\ TicketKeys # {} /\ JobKeys # {}
=============================================================================
