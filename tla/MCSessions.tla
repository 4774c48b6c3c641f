----------------------------- MODULE MCSessions -----------------------------
EXTENDS SessionsRotation, TLC
CONSTANTS t1, t2, r1, r2, k1, k2

\* Tabs, requests and calls are alike.
Alike == Permutations({t1, t2}) \cup Permutations({r1, r2}) \cup Permutations({k1, k2})

\* Bound: the last pair is made by a refresh; a login that made it could not be
\* followed by one.
LastIsRefreshed == login'[MaxPairs] # MaxPairs
=============================================================================
