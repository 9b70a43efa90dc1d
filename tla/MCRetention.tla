---------------------------- MODULE MCRetention ----------------------------
EXTENDS Retention, TLC
CONSTANTS s1, s2, w1, w2, b1, b2,
          c1, c2, c3,                       \* beacon blocks
          state, badBlock, badBlob, trace, execBadBlock

Kind ==
  [i \in Items |->
     CASE i = state        -> "beacon_state"
       [] i = badBlock     -> "beacon_bad_block"
       [] i = badBlob      -> "beacon_bad_blob"
       [] i = trace        -> "execution_block_trace"
       [] i = execBadBlock -> "execution_bad_block"
       [] OTHER            -> "beacon_block"]

Block == [c \in Copies |-> IF c = c3 THEN b2 ELSE b1]

\* Servers and copies of one block are interchangeable (safety runs only).
Symmetry == Permutations(Servers) \cup Permutations(Copies \ {c3})
============================================================================
