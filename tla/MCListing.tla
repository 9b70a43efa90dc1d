------------------------------ MODULE MCListing ------------------------------
(***************************************************************************)
(* Instances of Listing for TLC: a session is a listing and two of its     *)
(* columns that the user touches, so that every column of every listing is *)
(* in play in some session.                                                *)
(***************************************************************************)
EXTENDS Listing

\* The row of buttons keeps its promise (proved for any number of pages in
\* ListingProofs).
ASSUME ButtonsUpToTwelve ==
  \A total \in 1..12 : \A current \in 1..total : ButtonsAreRight(current, total)

Session(kind, columns, net, acts, edits, faults) ==
  [kind |-> kind, columns |-> columns, network |-> net, steps |-> acts,
   changes |-> edits, failures |-> faults]

EveryColumn ==
  {Session(s[1], {s[2]}, "a", 2, 0, 0) : s \in UNION {{k} \X Columns(k) : k \in Kinds}}

TwoFilters == Session("beacon_state", {"slot", "node"}, "a", 2, 0, 0)
ThreePages == Session("beacon_bad_block", {"node", "node_version"}, "a", 3, 0, 0)
LongSession == Session("beacon_bad_blob", {"index"}, "a", 3, 0, 0)
RowsChange == Session("execution_block_trace", {"block_number"}, "a", 2, 1, 0)
RequestsFail == Session("execution_bad_block", {"block_hash"}, "a", 2, 0, 1)
NetworkArrives == Session("beacon_block", {"block_root"}, "", 2, 0, 0)

AllSessions ==
  EveryColumn \cup {TwoFilters, ThreePages, LongSession, RowsChange, RequestsFail, NetworkArrives}
=============================================================================
