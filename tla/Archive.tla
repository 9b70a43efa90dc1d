------------------------------ MODULE Archive ------------------------------
(***************************************************************************)
(* What agents and server together promise of everything they collect,     *)
(* with queues, processors, failures and retention loops left out: an item *)
(* has one location in the object store and rows in the server's database, *)
(* its object is there before a row is, and goes before its rows do.       *)
(* Capture, BadFiles and Retention implement this specification, each for  *)
(* its part of the items' lives.                                           *)
(***************************************************************************)
EXTENDS Naturals

CONSTANTS
  Items,      \* what there is to collect
  Truth,      \* the data that may lie at the location of each item
  None,       \* an empty location
  Unique,     \* items that get one row only
  Purgeable   \* items that are deleted again

VARIABLES
  content,    \* what lies at the location of each item
  rows        \* rows of each item: 0, 1, or 2 for several

Data == UNION {Truth[i] : i \in Items}

ATypeOK == content \in [Items -> Data \cup {None}] /\ rows \in [Items -> 0 .. 2]

Init ==
  /\ content = [i \in Items |-> None]
  /\ rows = [i \in Items |-> 0]

Upload(i) ==
  /\ \E d \in Truth[i] : content' = [content EXCEPT ![i] = d]
  /\ UNCHANGED rows

\* A row is for an object that is there.
Record(i) ==
  /\ content[i] # None
  /\ i \in Unique => rows[i] = 0
  /\ rows' = [rows EXCEPT ![i] = IF @ < 2 THEN @ + 1 ELSE @]
  /\ UNCHANGED content

\* The object goes while a row still leads to it ...
Discard(i) ==
  /\ i \in Purgeable
  /\ rows[i] > 0
  /\ content' = [content EXCEPT ![i] = None]
  /\ UNCHANGED rows

\* ... and the rows go when there is no object left.
Forget(i) ==
  /\ i \in Purgeable
  /\ content[i] = None
  /\ rows' = [rows EXCEPT ![i] = 0]
  /\ UNCHANGED content

Next == \E i \in Items : Upload(i) \/ Record(i) \/ Discard(i) \/ Forget(i)

Spec == Init /\ [][Next]_<<content, rows>>

-----------------------------------------------------------------------------
(* What follows, for everything that implements it *)

\* No location ever holds what belongs to another item.
Truthful == \A i \in Items : content[i] \in Truth[i] \cup {None}

\* What is never deleted can be downloaded as soon as it is listed.
Downloadable == \A i \in Items \ Purgeable : rows[i] > 0 => content[i] # None

\* Unique items are listed once.
ListedOnce == \A i \in Unique : rows[i] <= 1

\* An object that nothing lists any more is not left behind.
NothingLeft == \A i \in Items : rows[i] > 0 /\ rows'[i] = 0 => content'[i] = None

NothingLeftBehind == [][NothingLeft]_<<content, rows>>
=============================================================================
