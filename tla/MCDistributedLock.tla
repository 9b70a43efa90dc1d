------------------------ MODULE MCDistributedLock ------------------------
EXTENDS DistributedLock, TLC
CONSTANTS c1, c2, a, b, k1

\* One client per server.
OneEach == (c1 :> a) @@ (c2 :> b)
==========================================================================
