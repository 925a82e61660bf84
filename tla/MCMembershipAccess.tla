------------------------- MODULE MCMembershipAccess -------------------------
EXTENDS MembershipAccess, TLC

\* The handlers are alike.
Symmetric == Permutations(Requests)
=============================================================================
