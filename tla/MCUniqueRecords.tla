-------------------------- MODULE MCUniqueRecords --------------------------
EXTENDS UniqueRecords, TLC

CONSTANTS a, b, c, A

\* Three values let two records exchange two of them; one has a second spelling.
AsStored == [s \in Spellings |-> IF s = A THEN a ELSE s]

\* Handlers are alike, and so are records, and values with one spelling.
Symmetric == Permutations(Requests) \cup Permutations(Records) \cup Permutations({b, c})
=============================================================================
