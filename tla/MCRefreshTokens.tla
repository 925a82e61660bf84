--------------------------- MODULE MCRefreshTokens ---------------------------
EXTENDS RefreshTokens, TLC

\* Handlers are alike, and so are ids.
Symmetric == Permutations(Requests) \cup Permutations(Tokens)
=============================================================================
