-------------------------- MODULE MCBackgroundJobs --------------------------
EXTENDS BackgroundJobs, TLC

\* Workers, and dispatchers, are interchangeable; the jobs of one kind too.
Symmetric == Permutations(Workers) \cup Permutations(Dispatchers)
=============================================================================
