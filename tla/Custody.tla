------------------------------ MODULE Custody ------------------------------
(***************************************************************************)
(* What the permanent store and the retention watcher promise of beacon    *)
(* blocks on top of Archive: "ensures that at least one copy of each block *)
(* per network is retained" (permanent_store.go).  Several items are       *)
(* copies of one block.  One of them is kept for good before any of them   *)
(* is discarded.  Retention implements this specification.                 *)
(***************************************************************************)
EXTENDS Archive

CONSTANTS Blocks, Copies, BlockOf   \* the items that are blocks, and the block of each

VARIABLE kept                       \* blocks with a copy at their permanent location

cvars == <<content, rows, kept>>

CInit == Init /\ kept = {}

\* A copy that is there and listed is copied to the permanent location.
Keep(b) ==
  /\ \E c \in Copies : BlockOf[c] = b /\ content[c] # None /\ rows[c] > 0
  /\ kept' = kept \cup {b}
  /\ UNCHANGED <<content, rows>>

DiscardSpare(i) ==
  /\ i \in Copies => BlockOf[i] \in kept
  /\ Discard(i)

CNext ==
  \/ \E i \in Items : (Upload(i) \/ Record(i) \/ DiscardSpare(i) \/ Forget(i)) /\ UNCHANGED kept
  \/ \E b \in Blocks : Keep(b)

CSpec == CInit /\ [][CNext]_cvars

-----------------------------------------------------------------------------
(* What follows *)

\* There is an object of the block somewhere.
Available(b) == b \in kept \/ \E c \in Copies : BlockOf[c] = b /\ content[c] # None

\* A listed copy means that its block is available.
ListedIsAvailable == \A c \in Copies : rows[c] > 0 => Available(BlockOf[c])

\* A block that was once available stays so, whatever is purged.
StaysAvailable == \A b \in Blocks : Available(b) => Available(b)'

NeverLost == [][StaysAvailable]_cvars
=============================================================================
