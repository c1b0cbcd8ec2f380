--------------------------- MODULE MCRateLimiter ---------------------------
EXTENDS RateLimiter, TLC

Symmetry == Permutations(Keys) \cup Permutations(Requests) \cup Permutations(Servers)
=============================================================================
