--------------------------- MODULE BadFilesProofs ---------------------------
(***************************************************************************)
(* What is proved of the collection of bad blocks and blobs for every set  *)
(* of files and hashes, every mixture and number of failures, every        *)
(* beacon client and every configuration.                                  *)
(***************************************************************************)
EXTENDS BadFiles, TLAPS

USE DEF config

\* The part of the type that speaks of the processors.
ProcessorsOK ==
  /\ pc \in [Kinds -> {"idle", "next", "list", "save", "create", "remove"}]
  /\ todo \in [Kinds -> SUBSET Items]
  /\ \A k \in Kinds : \A i \in todo[k] : KindOf[i] = k
  /\ item \in [Kinds -> Items \cup {NoItem}]
  /\ \A k \in Kinds : item[k] = NoItem <=> pc[k] \in {"idle", "next"}
  /\ \A k \in Kinds : item[k] # NoItem => KindOf[item[k]] = k
  /\ data \in [Kinds -> 0 .. MaxDumps]

\* What a step does to a processor with an item in hand: put it down, or take
\* it to the next step.
MoveOn(k, l) == Goto(k, l) /\ UNCHANGED <<todo, item, data>>

LEMMA ProcessorMoves ==
  ASSUME ProcessorsOK, NEW k \in Kinds,
         \/ Skip(k) \/ Return(k)
         \/ /\ pc[k] \notin {"idle", "next"}
            /\ \E l \in {"list", "save", "create", "remove"} : MoveOn(k, l)
  PROVE  ProcessorsOK'
<1> USE BadFilesAssumption DEF ProcessorsOK
<1>1. CASE Skip(k)
  BY <1>1 DEF Skip, Goto
<1>2. CASE Return(k)
  BY <1>2 DEF Return, Goto
<1>3. ASSUME pc[k] \notin {"idle", "next"}, NEW l \in {"list", "save", "create", "remove"},
             MoveOn(k, l)
      PROVE  ProcessorsOK'
  BY <1>3 DEF MoveOn, Goto
<1> QED
  BY <1>1, <1>2, <1>3

\* Whether a step succeeds or fails, failures stay within their bound.
LEMMA MishapsTyped ==
  ASSUME BTypeOK, NEW f, Succeeds \/ Fails(f)
  PROVE  mishaps' \in 0 .. MaxFaults
  BY BadFilesAssumption DEF BTypeOK, Succeeds, Fails

\* A processor between "list" and "remove" has an item of its kind in hand.
LEMMA HasItem ==
  ASSUME ProcessorsOK, NEW k \in Kinds, pc[k] \notin {"idle", "next"}
  PROVE  item[k] \in Items /\ KindOf[item[k]] = k
  BY DEF ProcessorsOK

\* Two processors never have the same item in hand.
LEMMA ItemsDiffer ==
  ASSUME ProcessorsOK, NEW j \in Kinds, NEW k \in Kinds, j # k, pc[k] \notin {"idle", "next"}
  PROVE  item[j] # item[k]
  BY BadFilesAssumption DEF ProcessorsOK

-----------------------------------------------------------------------------
(* Type correctness *)

LEMMA InitTypeOK == Init => BTypeOK
  BY BadFilesAssumption DEF Init, BTypeOK

\* The cases of a step of one processor, with what each does to the rest.
LEMMA TakeTypeOK ==
  ASSUME BTypeOK, NEW k \in Kinds, Take(k)
  PROVE  BTypeOK'
<1>1. mishaps' \in 0 .. MaxFaults
  BY MishapsTyped DEF Take
<1>2. requests' \in [Kinds -> 0 .. QueueCap]
  BY BadFilesAssumption DEF Take, BTypeOK
<1>3. Read(k) \subseteq {i \in Items : KindOf[i] = k}
  BY DEF Read, Matching
<1>4. ProcessorsOK'
  BY <1>3 DEF Take, BTypeOK, ProcessorsOK, At, Goto
<1> QED
  BY <1>1, <1>2, <1>4 DEF Take, BTypeOK, ProcessorsOK, clients, server

LEMMA PickTypeOK ==
  ASSUME BTypeOK, NEW k \in Kinds, Pick(k)
  PROVE  BTypeOK'
<1>1. PICK i \in todo[k] :
        /\ todo' = [todo EXCEPT ![k] = @ \ {i}]
        /\ \/ /\ item' = [item EXCEPT ![k] = i]
              /\ data' = [data EXCEPT ![k] = IF k \in FileKinds THEN source[i] ELSE dumps[i]]
              /\ Goto(k, "list")
           \/ UNCHANGED <<item, data, pc>>
  BY DEF Pick
<1>2. mishaps' \in 0 .. MaxFaults
  BY MishapsTyped DEF Pick
<1>3. i \in Items /\ i # NoItem /\ KindOf[i] = k
  BY BadFilesAssumption DEF BTypeOK
<1>4. (IF k \in FileKinds THEN source[i] ELSE dumps[i]) \in 0 .. MaxDumps
  BY <1>3 DEF BTypeOK
<1>5. ProcessorsOK'
  BY <1>1, <1>3, <1>4 DEF Pick, BTypeOK, ProcessorsOK, At, Goto
<1> QED
  BY <1>2, <1>5 DEF Pick, BTypeOK, ProcessorsOK, clients, server

LEMMA ItemStepTypeOK ==
  ASSUME BTypeOK, NEW k \in Kinds,
         EndOfRound(k) \/ List(k) \/ Save(k) \/ Create(k) \/ Remove(k) \/ Timeout(k)
  PROVE  BTypeOK'
<1>1. ProcessorsOK
  BY DEF BTypeOK, ProcessorsOK
<1>2. ProcessorsOK'
  <2>1. \/ Skip(k) \/ Return(k)
        \/ /\ pc[k] \notin {"idle", "next"}
           /\ \E l \in {"list", "save", "create", "remove"} : MoveOn(k, l)
    BY DEF EndOfRound, List, Save, Create, Remove, Timeout, MoveOn, At
  <2> QED
    BY <1>1, <2>1, ProcessorMoves
<1>3. mishaps' \in 0 .. MaxFaults
  BY MishapsTyped DEF EndOfRound, List, Save, Create, Remove, Timeout, Succeeds
<1>4. /\ source' \in [Items -> 0 .. MaxDumps]
      /\ objects' \in [Items -> 0 .. MaxDumps]
      /\ records' \in [Items -> 0 .. 2]
      /\ UNCHANGED <<config, dumps, requests>>
  <2>1. CASE EndOfRound(k) \/ List(k) \/ Timeout(k)
    BY <2>1 DEF EndOfRound, List, Timeout, BTypeOK, clients, server
  <2>2. CASE Save(k)
    BY <2>2 DEF Save, BTypeOK, clients
  <2>3. CASE Create(k)
    BY <2>3 DEF Create, AddRecord, BTypeOK, clients
  <2>4. CASE Remove(k)
    BY <2>4, BadFilesAssumption DEF Remove, BTypeOK, server
  <2> QED
    BY <2>1, <2>2, <2>3, <2>4
<1> QED
  BY <1>2, <1>3, <1>4 DEF BTypeOK, ProcessorsOK

LEMMA NextTypeOK == BTypeOK /\ [Next]_vars => BTypeOK'
<1> SUFFICES ASSUME BTypeOK, [Next]_vars PROVE BTypeOK'
  OBVIOUS
<1>1. ASSUME NEW i \in Items, Dump(i) \/ Forget(i) PROVE BTypeOK'
  BY <1>1, BadFilesAssumption DEF Dump, Forget, BTypeOK, processors, server
<1>2. ASSUME NEW k \in Kinds, Enqueue(k) PROVE BTypeOK'
  BY <1>2, BadFilesAssumption DEF Enqueue, BTypeOK, clients, processors, server
<1>3. ASSUME NEW k \in Kinds, Process(k) PROVE BTypeOK'
  BY <1>3, TakeTypeOK, PickTypeOK, ItemStepTypeOK DEF Process
<1>4. CASE Crash
  <2>1. mishaps' \in 0 .. MaxFaults
    BY <1>4, MishapsTyped DEF Crash
  <2> QED
    BY <1>4, <2>1, BadFilesAssumption DEF Crash, BTypeOK, clients, server
<1>5. CASE UNCHANGED vars
  BY <1>5 DEF vars, clients, processors, server, BTypeOK
<1> QED
  BY <1>1, <1>2, <1>3, <1>4, <1>5 DEF Next

\* Queues stay within their capacity, and a processor has an item of its own
\* kind in hand exactly while it works on one.
THEOREM BadFilesTypeCorrect == Spec => []BTypeOK
  BY InitTypeOK, NextTypeOK, PTL DEF Spec

-----------------------------------------------------------------------------
(* Files are kept until they are recorded, and records made once *)

InHand == {"list", "save", "create", "remove"}

\* What was seen, read or stored was dumped before; what is there is the latest.
Dumped ==
  /\ \A i \in Items : source[i] \in {0, dumps[i]} /\ objects[i] <= dumps[i]
  /\ \A k \in Kinds : \A i \in todo[k] : dumps[i] # 0
  /\ \A k \in Kinds : pc[k] \in InHand => data[k] # 0 /\ data[k] <= dumps[item[k]]

\* A record is made only of what is stored.
Stored ==
  /\ \A i \in Items : records[i] > 0 => objects[i] # 0
  /\ \A k \in Kinds : pc[k] = "create" => objects[item[k]] # 0

\* A file that is about to be deleted has a record; a block that is about to
\* be recorded has none.
Checked ==
  \A k \in Kinds :
    /\ pc[k] = "remove" => records[item[k]] > 0
    /\ k \notin FileKinds /\ pc[k] \in {"save", "create"} => records[item[k]] = 0

\* A file that is not there any more has a record.
GoneIsRecorded ==
  \A i \in Items : IsFile(i) /\ dumps[i] # 0 => source[i] # 0 \/ records[i] > 0

CollectInv == Dumped /\ Stored /\ Checked /\ GoneIsRecorded /\ OneRecord

LEMMA InitCollectInv == Init => CollectInv
  BY DEF Init, CollectInv, Dumped, Stored, Checked, GoneIsRecorded, OneRecord, InHand

LEMMA ClientsCollectInv ==
  ASSUME BTypeOK, CollectInv, NEW i \in Items, Dump(i) \/ Forget(i)
  PROVE  CollectInv'
  BY BadFilesAssumption
  DEF BTypeOK, CollectInv, Dumped, Stored, Checked, GoneIsRecorded, OneRecord, InHand, IsFile,
      Dump, Forget, processors, server, FileKinds

LEMMA TakeCollectInv ==
  ASSUME BTypeOK, CollectInv, NEW k \in Kinds, Take(k)
  PROVE  CollectInv'
<1>1. /\ pc[k] = "idle" /\ UNCHANGED <<clients, item, data, server>>
      /\ \A j \in Kinds \ {k} : pc'[j] = pc[j] /\ todo'[j] = todo[j]
      /\ pc'[k] \in {"idle", "next"}
      /\ \A i \in todo'[k] : i \in todo[k] \/ (i \in Items /\ source[i] # 0)
  BY DEF Take, At, Goto, Read, Matching, BTypeOK
<1> QED
  BY <1>1 DEF BTypeOK, CollectInv, Dumped, Stored, Checked, GoneIsRecorded, OneRecord,
              InHand, IsFile, clients, server

LEMMA PickCollectInv ==
  ASSUME BTypeOK, CollectInv, NEW k \in Kinds, Pick(k)
  PROVE  CollectInv'
<1>1. /\ UNCHANGED <<clients, server>> /\ pc[k] = "next"
      /\ \A j \in Kinds \ {k} : pc'[j] = pc[j] /\ item'[j] = item[j] /\ data'[j] = data[j]
      /\ \A j \in Kinds : todo'[j] \subseteq todo[j]
  BY DEF Pick, At, Goto, BTypeOK
<1>2. \/ pc'[k] = "next"
      \/ pc'[k] = "list" /\ data'[k] # 0 /\ data'[k] <= dumps[item'[k]]
  BY DEF Pick, At, Goto, BTypeOK, CollectInv, Dumped
<1> QED
  BY <1>1, <1>2 DEF BTypeOK, CollectInv, Dumped, Stored, Checked, GoneIsRecorded, OneRecord,
                    InHand, IsFile, clients, server

\* A step of the processor of kind k that puts its item down.
LEMMA PutDown ==
  ASSUME BTypeOK, NEW k \in Kinds, Skip(k) \/ Return(k)
  PROVE  /\ pc'[k] \in {"idle", "next"}
         /\ \A j \in Kinds \ {k} : pc'[j] = pc[j] /\ item'[j] = item[j] /\ data'[j] = data[j]
         /\ \A j \in Kinds : todo'[j] \subseteq todo[j]
  BY DEF BTypeOK, Skip, Return, Goto

LEMMA Advance ==
  ASSUME BTypeOK, NEW k \in Kinds, NEW l, Goto(k, l)
  PROVE  pc'[k] = l /\ \A j \in Kinds \ {k} : pc'[j] = pc[j]
  BY DEF BTypeOK, Goto

LEMMA ListCollectInv ==
  ASSUME BTypeOK, CollectInv, NEW k \in Kinds, List(k) \/ EndOfRound(k) \/ Timeout(k)
  PROVE  CollectInv'
<1>1. UNCHANGED <<clients, server>>
  BY DEF List, EndOfRound, Timeout
<1>2. /\ \A j \in Kinds \ {k} : pc'[j] = pc[j] /\ item'[j] = item[j] /\ data'[j] = data[j]
      /\ \A j \in Kinds : todo'[j] \subseteq todo[j]
      /\ \/ pc'[k] \in {"idle", "next"}
         \/ /\ pc[k] = "list" /\ item'[k] = item[k] /\ data'[k] = data[k]
            /\ \/ pc'[k] = "remove" /\ records[item[k]] > 0
               \/ pc'[k] = "save" /\ (records[item[k]] = 0 \/ k \in FileKinds)
  BY PutDown, Advance DEF List, EndOfRound, Timeout, At
<1> QED
  BY <1>1, <1>2 DEF BTypeOK, CollectInv, Dumped, Stored, Checked, GoneIsRecorded, OneRecord,
                    InHand, IsFile, clients, server

LEMMA SaveCollectInv ==
  ASSUME BTypeOK, CollectInv, NEW k \in Kinds, Save(k)
  PROVE  CollectInv'
<1>1. pc[k] = "save" /\ item[k] \in Items /\ data[k] # 0 /\ data[k] <= dumps[item[k]]
  BY HasItem DEF Save, At, BTypeOK, ProcessorsOK, CollectInv, Dumped, InHand
<1>2. /\ UNCHANGED <<clients, records>>
      /\ \A i \in Items : objects'[i] = objects[i] \/ (i = item[k] /\ objects'[i] = data[k])
  BY <1>1 DEF Save, BTypeOK
<1>3. /\ \A j \in Kinds \ {k} : pc'[j] = pc[j] /\ item'[j] = item[j] /\ data'[j] = data[j]
      /\ \A j \in Kinds : todo'[j] \subseteq todo[j]
      /\ \/ pc'[k] \in {"idle", "next"}
         \/ /\ pc'[k] = "create" /\ item'[k] = item[k] /\ data'[k] = data[k]
            /\ objects'[item[k]] # 0
  BY <1>1, PutDown, Advance DEF Save, BTypeOK
<1> QED
  BY <1>1, <1>2, <1>3 DEF BTypeOK, CollectInv, Dumped, Stored, Checked, GoneIsRecorded,
                          OneRecord, InHand, IsFile, clients

LEMMA CreateCollectInv ==
  ASSUME BTypeOK, CollectInv, NEW k \in Kinds, Create(k)
  PROVE  CollectInv'
<1>1. /\ pc[k] = "create" /\ item[k] \in Items /\ KindOf[item[k]] = k
      /\ objects[item[k]] # 0
  BY HasItem DEF Create, At, BTypeOK, ProcessorsOK, CollectInv, Stored
<1>2. /\ UNCHANGED <<clients, objects>>
      /\ \/ UNCHANGED records
         \/ ~AlreadyExists(k) /\ AddRecord(item[k])
  BY DEF Create
<1>3. /\ \A j \in Kinds \ {k} : pc'[j] = pc[j] /\ item'[j] = item[j] /\ data'[j] = data[j]
      /\ \A j \in Kinds : todo'[j] \subseteq todo[j]
      /\ \/ pc'[k] \in {"idle", "next"}
         \/ /\ pc'[k] = "remove" /\ item'[k] = item[k] /\ data'[k] = data[k]
            /\ k \in FileKinds /\ AddRecord(item[k])
  BY PutDown, Advance DEF Create
<1>4. ~AlreadyExists(k) => records[item[k]] = 0
  BY <1>1 DEF AlreadyExists, CollectInv, Checked, BTypeOK
<1>5. /\ \A i \in Items : records'[i] = records[i] \/ (i = item[k] /\ records'[i] = 1)
      /\ AddRecord(item[k]) => records'[item[k]] > 0
  BY <1>1, <1>2, <1>4 DEF AddRecord, BTypeOK
<1>6. \A j \in Kinds \ {k} : item[j] # item[k]
  BY <1>1, ItemsDiffer DEF BTypeOK, ProcessorsOK
<1>7. \A j \in Kinds : pc[j] \in InHand => item[j] \in Items
  BY HasItem DEF BTypeOK, ProcessorsOK, InHand
<1>8. Checked'
  BY <1>1, <1>3, <1>5, <1>6, <1>7 DEF Checked, CollectInv, InHand, BTypeOK
<1> QED
  BY <1>1, <1>2, <1>3, <1>5, <1>8
  DEF BTypeOK, CollectInv, Dumped, Stored, GoneIsRecorded, OneRecord, InHand, IsFile, clients

LEMMA RemoveCollectInv ==
  ASSUME BTypeOK, CollectInv, NEW k \in Kinds, Remove(k)
  PROVE  CollectInv'
<1>1. item[k] \in Items /\ records[item[k]] > 0
  BY HasItem DEF Remove, At, BTypeOK, ProcessorsOK, CollectInv, Checked
<1>2. /\ UNCHANGED <<dumps, server>> /\ Skip(k)
      /\ \A i \in Items : source'[i] = source[i] \/ (i = item[k] /\ source'[i] = 0)
  BY <1>1 DEF Remove, BTypeOK
<1>3. /\ \A j \in Kinds \ {k} : pc'[j] = pc[j] /\ item'[j] = item[j] /\ data'[j] = data[j]
      /\ \A j \in Kinds : todo'[j] \subseteq todo[j]
      /\ pc'[k] \in {"idle", "next"}
  BY <1>2, PutDown
<1> QED
  BY <1>1, <1>2, <1>3 DEF BTypeOK, CollectInv, Dumped, Stored, Checked, GoneIsRecorded,
                          OneRecord, InHand, IsFile, server

LEMMA NextCollectInv == BTypeOK /\ CollectInv /\ [Next]_vars => CollectInv'
<1> SUFFICES ASSUME BTypeOK, CollectInv, [Next]_vars PROVE CollectInv'
  OBVIOUS
<1> USE DEF CollectInv, Dumped, Stored, Checked, GoneIsRecorded, OneRecord, InHand
<1>1. ASSUME NEW k \in Kinds, Enqueue(k) PROVE CollectInv'
  BY <1>1 DEF Enqueue, clients, processors, server
<1>2. CASE Crash
  BY <1>2 DEF Crash, clients, server
<1>3. CASE UNCHANGED vars
  BY <1>3 DEF vars, clients, processors, server
<1>4. ASSUME NEW k \in Kinds, Process(k) PROVE CollectInv'
  BY <1>4, TakeCollectInv, PickCollectInv, ListCollectInv, SaveCollectInv, CreateCollectInv,
     RemoveCollectInv DEF Process
<1> QED
  BY <1>1, <1>2, <1>3, <1>4, ClientsCollectInv DEF Next

LEMMA CollectInvAlways == Spec => []CollectInv
  BY InitTypeOK, NextTypeOK, InitCollectInv, NextCollectInv, PTL DEF Spec

\* Nothing is recorded twice, whatever fails how often.
THEOREM BadDataRecordedOnce == Spec => []OneRecord
<1>1. CollectInv => OneRecord
  BY DEF CollectInv
<1> QED
  BY <1>1, CollectInvAlways, PTL

\* A file is deleted only when a version of it, the only one if it was written
\* once, is stored and recorded, however often names are written again.
THEOREM FilesAreKept == Spec => []NoFileLost
<1>1. BTypeOK /\ CollectInv => NoFileLost
  <2> SUFFICES ASSUME BTypeOK, CollectInv, NEW i \in Items, IsFile(i), dumps[i] > 0,
                      source[i] # dumps[i]
               PROVE  objects[i] \in 1 .. dumps[i] /\ records[i] > 0
    BY DEF NoFileLost
  <2>1. records[i] > 0 /\ objects[i] # 0 /\ objects[i] <= dumps[i]
    BY DEF BTypeOK, CollectInv, Dumped, Stored, GoneIsRecorded
  <2> QED
    BY <2>1 DEF BTypeOK
<1> QED
  BY <1>1, CollectInvAlways, BadFilesTypeCorrect, PTL

-----------------------------------------------------------------------------
(* The archive *)

\* The steps of an archive, spelt out for objects and records.
LEMMA ArchiveSteps ==
  ASSUME NEW i \in Items
  PROVE  /\ \A d \in 1 .. MaxDumps :
              objects' = [objects EXCEPT ![i] = d] /\ UNCHANGED records => Archive!Next
         /\ objects[i] # 0 /\ records[i] = 0 /\ AddRecord(i) /\ UNCHANGED objects => Archive!Next
<1>1. Archive!Upload(i) \/ Archive!Record(i) => Archive!Next
  BY DEF Archive!Next
<1> QED
  BY <1>1 DEF Archive!Upload, Archive!Record, AddRecord

\* The store and the database change only by a processor that uploads what it
\* read or records what it uploaded.
LEMMA NextArchives ==
  BTypeOK /\ CollectInv /\ [Next]_vars => [Archive!Next]_<<objects, records>>
<1> SUFFICES ASSUME BTypeOK, CollectInv, [Next]_vars PROVE Archive!Next \/ UNCHANGED server
  BY DEF server
<1>1. ASSUME NEW k \in Kinds, Save(k)
      PROVE  Archive!Next \/ UNCHANGED server
  <2>1. item[k] \in Items /\ data[k] \in 1 .. MaxDumps
    BY <1>1, HasItem DEF Save, At, BTypeOK, ProcessorsOK, CollectInv, Dumped, InHand
  <2> QED
    BY <1>1, <2>1, ArchiveSteps DEF Save, server
<1>2. ASSUME NEW k \in Kinds, Create(k)
      PROVE  Archive!Next \/ UNCHANGED server
  <2>1. item[k] \in Items /\ KindOf[item[k]] = k /\ objects[item[k]] # 0
    BY <1>2, HasItem DEF Create, At, BTypeOK, ProcessorsOK, CollectInv, Stored
  <2>2. ~AlreadyExists(k) => records[item[k]] = 0
    BY <1>2, <2>1 DEF Create, At, AlreadyExists, CollectInv, Checked, BTypeOK
  <2> QED
    BY <1>2, <2>1, <2>2, ArchiveSteps DEF Create, server
<1>3. ASSUME NEW k \in Kinds,
             Enqueue(k) \/ Take(k) \/ Pick(k) \/ EndOfRound(k) \/ List(k) \/ Remove(k) \/ Timeout(k)
      PROVE  UNCHANGED server
  BY <1>3 DEF Enqueue, Take, Pick, EndOfRound, List, Remove, Timeout
<1>4. CASE (\E i \in Items : Dump(i) \/ Forget(i)) \/ Crash \/ UNCHANGED vars
  BY <1>4 DEF Dump, Forget, Crash, vars
<1> QED
  BY <1>1, <1>2, <1>3, <1>4 DEF Next, Process

\* What an agent collects of bad blocks and blobs is an archive, in which every
\* item is listed once, through any number of rounds and failures: with
\* ArchiveProofs, whatever is listed can be downloaded.
THEOREM BadFilesRefineArchive == Spec => ImplementsArchive
<1>1. Init => Archive!Init
  BY DEF Init, Archive!Init
<1> QED
  BY <1>1, NextArchives, InitTypeOK, NextTypeOK, InitCollectInv, NextCollectInv, PTL
  DEF Spec, ImplementsArchive, Archive!Spec
=============================================================================
