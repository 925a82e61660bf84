--------------------------- MODULE MCAttachments ---------------------------
EXTENDS Attachments, FiniteSets

\* A limit of two chunks has a file that is partly written, one that is full and one
\* that is too large.  One upload may meet a failure and its cleanup a second, while
\* the other, or a download, meets a third.
ASSUME BoundsAssumption == MaxSize = 2 /\ MaxFaults = Cardinality(Uploads) + 1
=============================================================================
