------------------------- MODULE MCPermanentStore -------------------------
EXTENDS PermanentStore, TLC
CONSTANTS s1, s2, w1, w2, c1, c2, c3, b1, b2

TwoBlocks == (c1 :> b1) @@ (c2 :> b1) @@ (c3 :> b2)
===========================================================================
