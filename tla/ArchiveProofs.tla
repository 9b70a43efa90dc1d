--------------------------- MODULE ArchiveProofs ---------------------------
(***************************************************************************)
(* What every archive has, and what custody adds to it.  These are facts   *)
(* about the abstract specifications: through the theorems that Capture,   *)
(* BadFiles and Retention implement them they hold of the system.          *)
(***************************************************************************)
EXTENDS Custody, TLAPS

LEMMA InitTypeOK == Init => ATypeOK
BY DEF Init, ATypeOK

LEMMA NextTypeOK == ATypeOK /\ [Next]_<<content, rows>> => ATypeOK'
BY DEF ATypeOK, Next, Upload, Record, Discard, Forget, Data

LEMMA ArchiveTypeCorrect == Spec => []ATypeOK
BY InitTypeOK, NextTypeOK, PTL DEF Spec

-----------------------------------------------------------------------------
(* Archive *)

\* A step of an archive changes one item, in one of four ways.
LEMMA ItemSteps ==
  ASSUME ATypeOK, NEW i \in Items, Upload(i) \/ Record(i) \/ Discard(i) \/ Forget(i)
  PROVE  /\ \A j \in Items \ {i} : content'[j] = content[j] /\ rows'[j] = rows[j]
         /\ \/ content'[i] \in Truth[i] /\ rows'[i] = rows[i]
            \/ /\ content'[i] = content[i] /\ content[i] # None
               /\ rows'[i] > 0 /\ (i \in Unique => rows'[i] = 1)
            \/ i \in Purgeable /\ content'[i] = None /\ rows'[i] = rows[i]
            \/ i \in Purgeable /\ content'[i] = None /\ content[i] = None /\ rows'[i] = 0
BY DEF ATypeOK, Upload, Record, Discard, Forget

\* Every location holds what belongs to it (CreateBeaconStateFileName and the
\* like, with the uploads).
THEOREM ArchiveIsTruthful == Spec => []Truthful
<1>1. Init => Truthful
  BY DEF Init, Truthful
<1>2. ATypeOK /\ Truthful /\ [Next]_<<content, rows>> => Truthful'
  <2> SUFFICES ASSUME ATypeOK, Truthful, [Next]_<<content, rows>> PROVE Truthful'
    OBVIOUS
  <2>1. ASSUME NEW i \in Items, Upload(i) \/ Record(i) \/ Discard(i) \/ Forget(i)
        PROVE  Truthful'
    BY <2>1, ItemSteps DEF Truthful
  <2>2. CASE UNCHANGED <<content, rows>>
    BY <2>2 DEF Truthful
  <2> QED
    BY <2>1, <2>2 DEF Next
<1> QED
  BY <1>1, <1>2, ArchiveTypeCorrect, PTL DEF Spec

\* What is listed and never deleted can be downloaded, if no item's data is
\* the mark of an empty location.
THEOREM ArchiveIsDownloadable ==
  ASSUME None \notin Data
  PROVE  Spec => []Downloadable
<1>1. Init => Downloadable
  BY DEF Init, Downloadable
<1>2. ATypeOK /\ Downloadable /\ [Next]_<<content, rows>> => Downloadable'
  <2> SUFFICES ASSUME ATypeOK, Downloadable, [Next]_<<content, rows>> PROVE Downloadable'
    OBVIOUS
  <2>1. ASSUME NEW i \in Items, Upload(i) \/ Record(i) \/ Discard(i) \/ Forget(i)
        PROVE  Downloadable'
    <3>1. None \notin Truth[i]
      BY DEF Data
    <3> QED
      BY <2>1, <3>1, ItemSteps DEF Downloadable
  <2>2. CASE UNCHANGED <<content, rows>>
    BY <2>2 DEF Downloadable
  <2> QED
    BY <2>1, <2>2 DEF Next
<1> QED
  BY <1>1, <1>2, ArchiveTypeCorrect, PTL DEF Spec

\* A unique item has one row at most.
THEOREM ArchiveListsOnce ==
  ASSUME Unique \subseteq Items
  PROVE  Spec => []ListedOnce
<1>1. Init => ListedOnce
  <2> SUFFICES ASSUME Init, NEW i \in Unique PROVE rows[i] <= 1
    BY DEF ListedOnce
  <2>1. rows[i] = 0
    BY DEF Init
  <2> QED
    BY <2>1
<1>2. ATypeOK /\ ListedOnce /\ [Next]_<<content, rows>> => ListedOnce'
  <2> SUFFICES ASSUME ATypeOK, ListedOnce, [Next]_<<content, rows>> PROVE ListedOnce'
    OBVIOUS
  <2>1. ASSUME NEW i \in Items, Upload(i) \/ Record(i) \/ Discard(i) \/ Forget(i)
        PROVE  ListedOnce'
    BY <2>1, ItemSteps DEF ListedOnce
  <2>2. CASE UNCHANGED <<content, rows>>
    BY <2>2 DEF ListedOnce
  <2> QED
    BY <2>1, <2>2 DEF Next
<1> QED
  BY <1>1, <1>2, ArchiveTypeCorrect, PTL DEF Spec

\* The last row of an item goes only when its object is gone: nothing is left
\* behind that no record leads to (the purge functions).
THEOREM ArchiveLeavesNothing == Spec => NothingLeftBehind
<1>1. ATypeOK /\ [Next]_<<content, rows>> => [NothingLeft]_<<content, rows>>
  <2> SUFFICES ASSUME ATypeOK, Next PROVE NothingLeft
    OBVIOUS
  <2> PICK i \in Items : Upload(i) \/ Record(i) \/ Discard(i) \/ Forget(i)
    BY DEF Next
  <2> QED
    BY ItemSteps DEF NothingLeft, ATypeOK
<1> QED
  BY <1>1, ArchiveTypeCorrect, PTL DEF Spec, NothingLeftBehind

-----------------------------------------------------------------------------
(* Custody *)

\* With the permanent locations out of sight, custody is an archive.
THEOREM CustodyIsArchive == CSpec => Spec
<1>1. CInit => Init
  BY DEF CInit
<1>2. [CNext]_cvars => [Next]_<<content, rows>>
  BY DEF CNext, Next, Keep, DiscardSpare, cvars
<1> QED
  BY <1>1, <1>2, PTL DEF CSpec, Spec

\* A step of custody keeps what is kept, and empties the location of a copy
\* only if its block is kept.
LEMMA CustodySteps ==
  ASSUME ATypeOK, None \notin Data, [CNext]_cvars
  PROVE  /\ kept \subseteq kept'
         /\ \A c \in Items : content[c] # None /\ c \in Copies =>
              content'[c] # None \/ BlockOf[c] \in kept
<1>1. ASSUME NEW i \in Items, Upload(i) \/ Record(i) \/ DiscardSpare(i) \/ Forget(i),
             UNCHANGED kept
      PROVE  \A c \in Items : content[c] # None /\ c \in Copies =>
               content'[c] # None \/ BlockOf[c] \in kept
  <2>1. None \notin Truth[i]
    BY DEF Data
  <2> QED
    BY <1>1, <2>1 DEF ATypeOK, Upload, Record, DiscardSpare, Discard, Forget
<1> QED
  BY <1>1 DEF CNext, Keep, cvars

\* Blocks are never lost: one that is available, by a copy in the store or by
\* its permanent object, stays available through every purge
\* (purgeOldBeaconBlocks with processBlock).
THEOREM CustodyLosesNothing ==
  ASSUME None \notin Data, Copies \subseteq Items
  PROVE  CSpec => NeverLost
<1>1. ATypeOK /\ [CNext]_cvars => [StaysAvailable]_cvars
  <2> SUFFICES ASSUME ATypeOK, [CNext]_cvars, NEW b \in Blocks, Available(b)
               PROVE  Available(b)'
    BY DEF StaysAvailable
  <2> QED
    BY CustodySteps DEF Available
<1> QED
  BY <1>1, CustodyIsArchive, ArchiveTypeCorrect, PTL DEF CSpec, NeverLost

\* Every block with a listed copy is available.
THEOREM CustodyListsAvailable ==
  ASSUME None \notin Data, Copies \subseteq Items, BlockOf \in [Copies -> Blocks]
  PROVE  CSpec => []ListedIsAvailable
<1>1. CInit => ListedIsAvailable
  BY DEF CInit, Init, ListedIsAvailable
<1>2. ATypeOK /\ ListedIsAvailable /\ [CNext]_cvars => ListedIsAvailable'
  <2> SUFFICES ASSUME ATypeOK, ListedIsAvailable, [CNext]_cvars,
                      NEW c \in Copies, rows'[c] > 0
               PROVE  Available(BlockOf[c])'
    BY DEF ListedIsAvailable
  <2>1. CASE Available(BlockOf[c])
    BY <2>1, CustodySteps DEF Available
  <2>2. CASE ~Available(BlockOf[c])
    <3>1. ~(rows[c] > 0) /\ content[c] = None
      BY <2>2 DEF ListedIsAvailable, Available
    <3>2. ASSUME NEW i \in Items, Upload(i) \/ Record(i) \/ DiscardSpare(i) \/ Forget(i)
          PROVE  FALSE
      BY <3>1, <3>2, ItemSteps DEF DiscardSpare
    <3>3. UNCHANGED rows
      BY <3>2 DEF CNext, Keep, cvars
    <3> QED
      BY <3>1, <3>3
  <2> QED
    BY <2>1, <2>2
<1> QED
  BY <1>1, <1>2, CustodyIsArchive, ArchiveTypeCorrect, PTL DEF CSpec
=============================================================================
