-------------------------- MODULE MCTicketWorkflow --------------------------
EXTENDS TicketWorkflow, TLC

\* Handlers are alike; so are the members other than the owner.
Symmetric == Permutations(Requests) \cup Permutations(Members \ {Owner})
=============================================================================
