---- MODULE MCBadFiles ----
EXTENDS BadFiles
CONSTANTS block1, block2, other, blob1, blob2, hash1, hash2

Kind ==
  [i \in Items |->
     CASE i \in {blob1, blob2} -> "bad_blob"
       [] i \in {hash1, hash2} -> "execution_bad_block"
       [] OTHER                -> "bad_block"]
===========================
