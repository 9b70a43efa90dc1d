-------------------------- MODULE RetentionProofs --------------------------
(***************************************************************************)
(* What is proved of the retention loop composed with the permanent store, *)
(* for every number of servers, workers and items of all six kinds.        *)
(***************************************************************************)
EXTENDS Retention, PermanentStoreProofs

LEMMA NextKindTyped == "beacon_state" \in Kinds /\ \A k \in Kinds : NextKind[k] \in Kinds
<1>1. Kinds = {"beacon_state", "beacon_block", "beacon_bad_block", "beacon_bad_blob",
               "execution_block_trace", "execution_bad_block"}
  BY DEF Kinds, NextKind
<1> QED
  BY <1>1 DEF NextKind

\* The steps of one server's loop, of whatever kind it is at.
LEMMA WatcherSteps ==
  ASSUME NEW s \in Servers, RetentionWatcher(s)
  PROVE  \/ List(s) \/ EndOfList(s) \/ QueueOld(s) \/ Processed(s)
         \/ DeleteObject(s) \/ DeleteRecord(s)
         \/ \E i \in todo[s] \ Copies : Pick(s, i, "deleteObject") /\ UNCHANGED vars
  BY DEF RetentionWatcher, PurgeOldBeaconStates, PurgeOldBeaconBlocks, PurgeOldBeaconBadBlocks,
    PurgeOldBeaconBadBlobs, PurgeOldExecutionTraces, PurgeOldExecutionBadBlocks, Purge

\* A step of the composition is one of the store, or one of the loop.
LEMMA RNextSteps ==
  ASSUME [RNext]_rvars
  PROVE  \/ [StoreNext]_vars /\ UNCHANGED <<old, loop>>
         \/ \E i \in Items : IndexOther(i) \/ GrowOld(i)
         \/ \E s \in Servers : RetentionWatcher(s)
         \/ \E s \in Servers : RestartWatcher(s)
<1>1. CASE UNCHANGED rvars
  BY <1>1 DEF rvars
<1>2. CASE \E i \in Items : Save(i) /\ UNCHANGED <<old, loop>>
  BY <1>2 DEF StoreNext
<1>3. CASE \E s \in Servers : StoreStep(s) /\ UNCHANGED <<old, loop>>
  BY <1>3 DEF StoreStep, StoreNext, Next, Server
<1>4. CASE \E b \in Blocks : LockLapses(b) /\ UNCHANGED <<old, loop>>
  BY <1>4 DEF StoreNext, Next
<1> QED
  BY <1>1, <1>2, <1>3, <1>4 DEF RNext

-----------------------------------------------------------------------------
(* Type correctness *)

LoopOK ==
  /\ old \subseteq Items
  /\ step \in [Servers -> {"list", "next", "wait", "deleteObject", "deleteRecord"}]
  /\ kind \in [Servers -> Kinds]
  /\ todo \in [Servers -> SUBSET Items]
  /\ item \in [Servers -> Items \cup {NoItem}]
  /\ \A s \in Servers : item[s] = NoItem <=> step[s] \in {"list", "next"}

\* The list in hand is of the kind the loop is at: what makes the jobs that
\* QueueOld offers beacon blocks, which RTypeOK alone does not say.
OfKind ==
  \A s \in Servers :
    /\ \A i \in todo[s] : KindOf[i] = kind[s]
    /\ step[s] = "list" => todo[s] = {}

LEMMA WatcherOfKind ==
  ASSUME RTypeOK, OfKind, NEW s \in Servers, RetentionWatcher(s)
  PROVE  OfKind'
<1> USE DEF RTypeOK, OfKind
<1>1. CASE List(s)
  BY <1>1 DEF List
<1>2. CASE EndOfList(s)
  BY <1>2 DEF EndOfList
<1>3. CASE QueueOld(s) \/ \E i \in todo[s] \ Copies : Pick(s, i, "deleteObject")
  <2>1. PICK i \in todo[s], l \in {"wait", "deleteObject"} : Pick(s, i, l)
    BY <1>3 DEF QueueOld
  <2> QED
    BY <2>1 DEF Pick
<1>4. CASE Processed(s) \/ DeleteObject(s) \/ DeleteRecord(s)
  BY <1>4 DEF Processed, DeleteObject, DeleteRecord, Skip
<1> QED
  BY <1>1, <1>2, <1>3, <1>4, WatcherSteps

LEMMA PickTypeOK ==
  ASSUME LoopOK, NEW s \in Servers, NEW i \in Items, NEW l \in {"wait", "deleteObject"},
         Pick(s, i, l)
  PROVE  LoopOK'
  BY RetentionAssumption DEF LoopOK, Pick

LEMMA WatcherTypeOK ==
  ASSUME RTypeOK, OfKind, NEW s \in Servers, RetentionWatcher(s)
  PROVE  RTypeOK'
<1> USE DEF world, intake
<1>0. LoopOK /\ TypeOK /\ RTypeOK' = (LoopOK' /\ TypeOK')
  BY DEF LoopOK, RTypeOK
<1>1. ASSUME UNCHANGED vars PROVE TypeOK'
  BY <1>0, <1>1, StoreNextTypeOK
<1>2. CASE List(s)
  BY <1>0, <1>1, <1>2, NextKindTyped DEF List, LoopOK
<1>3. CASE EndOfList(s)
  BY <1>0, <1>1, <1>3, NextKindTyped DEF EndOfList, LoopOK
<1>4. CASE QueueOld(s)
  <2>1. PICK c \in todo[s] :
          /\ Pick(s, c, "wait")
          /\ Offer(s, [copy |-> c, waits |-> TRUE])
          /\ done' = [done EXCEPT ![s] = @ \ {c}]
    BY <1>4 DEF QueueOld
  <2>2. c \in Items /\ KindOf[c] = "beacon_block"
    BY <1>0, <1>4 DEF QueueOld, OfKind, LoopOK
  <2>3. [copy |-> c, waits |-> TRUE] \in Jobs
    BY <2>2, RetentionAssumption DEF Jobs
  <2>4. offers' \in [Servers -> SUBSET Jobs]
    BY <1>0, <2>1, <2>3, OffersTyped
  <2>5. TypeOK'
    BY <1>0, <1>4, <2>1, <2>4 DEF QueueOld, TypeOK, Lock!TypeOK
  <2> QED
    BY <1>0, <2>1, <2>2, <2>5, PickTypeOK
<1>5. CASE Processed(s)
  BY <1>0, <1>5 DEF Processed, LoopOK, TypeOK, Lock!TypeOK
<1>6. CASE DeleteObject(s)
  <2>1. TypeOK'
    BY <1>0, <1>6 DEF DeleteObject, TypeOK, Lock!TypeOK
  <2>2. LoopOK'
    BY <1>0, <1>6, RetentionAssumption DEF DeleteObject, Skip, LoopOK
  <2> QED
    BY <1>0, <2>1, <2>2
<1>7. CASE DeleteRecord(s)
  <2>1. TypeOK'
    BY <1>0, <1>7 DEF DeleteRecord, TypeOK, Lock!TypeOK
  <2>2. LoopOK'
    BY <1>0, <1>7, RetentionAssumption DEF DeleteRecord, Skip, LoopOK
  <2> QED
    BY <1>0, <2>1, <2>2
<1>8. ASSUME NEW i \in todo[s] \ Copies, Pick(s, i, "deleteObject"), UNCHANGED vars
      PROVE  RTypeOK'
  <2>1. i \in Items
    BY <1>0 DEF LoopOK
  <2> QED
    BY <1>0, <1>1, <1>8, <2>1, PickTypeOK
<1> QED
  BY <1>2, <1>3, <1>4, <1>5, <1>6, <1>7, <1>8, WatcherSteps

RTypeInv == RTypeOK /\ OfKind

LEMMA RInitTypeInv == RInit => RTypeInv
<1> SUFFICES ASSUME RInit PROVE RTypeInv
  OBVIOUS
<1>1. TypeOK
  BY InitTypeOK DEF RInit
<1> QED
  BY <1>1, NextKindTyped, RetentionAssumption DEF RInit, RTypeInv, RTypeOK, OfKind

LEMMA RNextTypeInv ==
  ASSUME RTypeInv, [RNext]_rvars
  PROVE  RTypeInv'
<1>0. LoopOK /\ TypeOK /\ OfKind /\ RTypeOK' = (LoopOK' /\ TypeOK')
  BY DEF LoopOK, RTypeOK, RTypeInv
<1>1. CASE [StoreNext]_vars /\ UNCHANGED <<old, loop>>
  <2>1. TypeOK'
    BY <1>0, <1>1, StoreNextTypeOK
  <2> QED
    BY <1>0, <1>1, <2>1 DEF RTypeInv, LoopOK, OfKind, loop
<1>2. ASSUME NEW i \in Items, IndexOther(i) \/ GrowOld(i)
      PROVE  RTypeInv'
  <2>1. CASE IndexOther(i)
    BY <1>0, <2>1 DEF IndexOther, RTypeInv, LoopOK, OfKind, loop, intake, TypeOK, Lock!TypeOK
  <2>2. CASE GrowOld(i)
    <3>1. TypeOK'
      BY <1>0, <2>2, StoreNextTypeOK DEF GrowOld
    <3> QED
      BY <1>0, <2>2, <3>1 DEF GrowOld, RTypeInv, LoopOK, OfKind, loop
  <2> QED
    BY <1>2, <2>1, <2>2
<1>3. ASSUME NEW s \in Servers, RetentionWatcher(s)
      PROVE  RTypeInv'
  BY <1>3, WatcherTypeOK, WatcherOfKind DEF RTypeInv
<1>4. ASSUME NEW s \in Servers, RestartWatcher(s)
      PROVE  RTypeInv'
  <2>1. TypeOK'
    BY <1>0, <1>4, IntakeTypeOK DEF RestartWatcher
  <2> QED
    BY <1>0, <1>4, <2>1, NextKindTyped, RetentionAssumption
    DEF RestartWatcher, RTypeInv, LoopOK, OfKind
<1> QED
  BY <1>1, <1>2, <1>3, <1>4, RNextSteps

\* Every reachable state of the composition is well typed; in particular only
\* beacon blocks are ever handed to the permanent store, and the loop has an
\* item in hand exactly between taking it and being done with it
\* (retention.go).
THEOREM RetentionTypeCorrect == RSpec => []RTypeOK
<1>1. RInit => RTypeInv
  BY RInitTypeInv
<1>2. RTypeInv /\ [RNext]_rvars => RTypeInv'
  BY RNextTypeInv
<1>3. RTypeInv => RTypeOK
  BY DEF RTypeInv
<1> QED
  BY <1>1, <1>2, <1>3, PTL DEF RSpec

-----------------------------------------------------------------------------
(* The object goes before the record *)

\* What a loop has listed was indexed then, and is not uploaded again.
Listed ==
  \A s \in Servers :
    /\ \A i \in todo[s] : phase[i] \in {"indexed", "purged"}
    /\ item[s] # NoItem => phase[item[s]] \in {"indexed", "purged"}

\* The object of a record about to be deleted is gone.
ObjectGone == \A s \in Servers : step[s] = "deleteRecord" => item[s] \notin stored

PurgeInv == RTypeInv /\ Listed /\ ObjectGone /\ NoOrphans

LEMMA RNextPurgeInv ==
  ASSUME PurgeInv, [RNext]_rvars
  PROVE  PurgeInv'
<1> USE DEF loop, world, intake
<1>0. RTypeInv' /\ RTypeOK /\ TypeOK /\ LoopOK
  BY RNextTypeInv DEF PurgeInv, RTypeInv, RTypeOK, LoopOK
<1>1. CASE [StoreNext]_vars /\ UNCHANGED <<old, loop>>
  BY <1>0, <1>1, StoreItems DEF PurgeInv, Listed, ObjectGone, NoOrphans, LoopOK
<1>2. ASSUME NEW i \in Items, IndexOther(i) \/ GrowOld(i)
      PROVE  PurgeInv'
  <2>1. /\ UNCHANGED <<stored, loop>>
        /\ \A j \in Items : phase'[j] = phase[j] \/ phase'[j] = "indexed"
    BY <1>0, <1>2 DEF IndexOther, GrowOld, vars, TypeOK
  <2> QED
    BY <1>0, <2>1 DEF PurgeInv, Listed, ObjectGone, NoOrphans, LoopOK
<1>3. ASSUME NEW s \in Servers, RetentionWatcher(s)
      PROVE  PurgeInv'
  <2>1. CASE List(s) \/ EndOfList(s)
    BY <1>0, <2>1 DEF List, EndOfList, vars, PurgeInv, Listed, ObjectGone, NoOrphans, LoopOK
  <2>2. CASE \/ QueueOld(s)
             \/ \E i \in todo[s] \ Copies : Pick(s, i, "deleteObject") /\ UNCHANGED vars
    <3>1. PICK i \in todo[s], l \in {"wait", "deleteObject"} : Pick(s, i, l)
      BY <2>2 DEF QueueOld
    <3>2. UNCHANGED <<phase, stored>>
      BY <2>2 DEF QueueOld, vars
    <3> QED
      BY <1>0, <3>1, <3>2 DEF Pick, PurgeInv, Listed, ObjectGone, NoOrphans, LoopOK
  <2>3. CASE Processed(s)
    BY <1>0, <2>3 DEF Processed, PurgeInv, Listed, ObjectGone, NoOrphans, LoopOK
  <2>4. CASE DeleteObject(s)
    BY <1>0, <2>4 DEF DeleteObject, Skip, PurgeInv, Listed, ObjectGone, NoOrphans, LoopOK
  <2>5. CASE DeleteRecord(s)
    <3>1. item[s] \in Items /\ item[s] \notin stored
      BY <1>0, <2>5 DEF DeleteRecord, LoopOK, PurgeInv, ObjectGone
    <3>2. /\ stored' = stored /\ todo' = todo
          /\ \A j \in Items : phase'[j] = phase[j] \/ (j = item[s] /\ phase'[j] = "purged")
          /\ step' = [step EXCEPT ![s] = "next"] /\ item' = [item EXCEPT ![s] = NoItem]
      BY <1>0, <2>5, <3>1 DEF DeleteRecord, Skip, TypeOK
    <3> QED
      BY <1>0, <3>1, <3>2 DEF PurgeInv, Listed, ObjectGone, NoOrphans, LoopOK
  <2> QED
    BY <1>3, <2>1, <2>2, <2>3, <2>4, <2>5, WatcherSteps
<1>4. ASSUME NEW s \in Servers, RestartWatcher(s)
      PROVE  PurgeInv'
  BY <1>0, <1>4
  DEF RestartWatcher, Restart, PurgeInv, Listed, ObjectGone, NoOrphans, LoopOK
<1> QED
  BY <1>1, <1>2, <1>3, <1>4, RNextSteps

LEMMA RInitPurgeInv == RInit => PurgeInv
<1> SUFFICES ASSUME RInit PROVE PurgeInv
  OBVIOUS
<1>1. RTypeInv
  BY RInitTypeInv
<1> QED
  BY <1>1 DEF RInit, Init, PurgeInv, Listed, ObjectGone, NoOrphans

\* No purge leaves an object without a record in the store: for all six kinds,
\* any number of servers purging the same records at once, and every fault
\* between the two deletions (retention.go).
THEOREM PurgeLeavesNoOrphans == RSpec => []NoOrphans
<1>1. RInit => PurgeInv
  BY RInitPurgeInv
<1>2. PurgeInv /\ [RNext]_rvars => PurgeInv'
  BY RNextPurgeInv
<1>3. PurgeInv => NoOrphans
  BY DEF PurgeInv
<1> QED
  BY <1>1, <1>2, <1>3, PTL DEF RSpec

-----------------------------------------------------------------------------
(* At least one copy *)

\* Faults after which processBlock does not return with its channel closed and
\* nothing made permanent.
CopiesSucceed == AtomicCopy /\ Faults \cap {"storeExists", "storeCopy", "giveUp"} = {}

\* c may be deleted: its block is permanent, or it is gone already.
Spent(c) == permanent[BlockOf[c]] = "whole" \/ c \notin stored

\* Everything in the permanent store's hands is, or was, indexed.
Submitted(j) == phase[j.copy] \in {"indexed", "purged"}

JobsSubmitted ==
  \A s \in Servers :
    /\ \A j \in offers[s] : Submitted(j)
    /\ \A n \in 1 .. Len(queue[s]) : Submitted(queue[s][n])
    /\ \A w \in Workers : pc[s][w] # "idle" => Submitted(job[s][w])

\* A worker that is through, a closed channel, and a loop about to delete a
\* block's object: that copy may be deleted.
WorkersDone ==
  \A s \in Servers, w \in Workers :
    pc[s][w] \in {"release", "close"} => Spent(job[s][w].copy)

ChannelsTrue ==
  \A s \in Servers : \A c \in done[s] :
    phase[c] \in {"indexed", "purged"} /\ Spent(c)

DeletesSpent ==
  \A s \in Servers : step[s] = "deleteObject" /\ item[s] \in Copies => Spent(item[s])

SavedStored == \A i \in Items : phase[i] = "saved" => i \in stored

CopyInv ==
  /\ PurgeInv /\ SoundInv /\ JobsSubmitted /\ WorkersDone /\ ChannelsTrue /\ DeletesSpent
  /\ SavedStored /\ AtLeastOneCopy

\* An item that was indexed stays so and its copy stays spent.
LEMMA StoreSpent ==
  ASSUME AtomicCopy, SoundInv, [StoreNext]_vars,
         NEW c \in Copies, phase[c] \in {"indexed", "purged"}
  PROVE  phase'[c] \in {"indexed", "purged"} /\ (Spent(c) => Spent(c)')
<1>1. c \in Items /\ BlockOf[c] \in Blocks
  BY StoreAssumption
<1> QED
  BY <1>1, StoreItems, PermanentStays DEF Spent, SoundInv

\* The worker's way to "release" and "close" passes a permanent object, or
\* finds its copy gone.
LEMMA WorkDone ==
  ASSUME CopiesSucceed, SoundInv, WorkersDone, NEW s \in Servers, NEW w \in Workers, Work(s, w),
         pc'[s][w] \in {"release", "close"}
  PROVE  /\ pc[s][w] # "idle" /\ job'[s][w] = job[s][w]
         /\ permanent[TheBlock(s, w)] = "whole" \/ job[s][w].copy \notin stored
<1> USE DEF world, intake, At, Goto
<1>0. WorkersOK /\ TypeOK
  BY DEF SoundInv, TypeOK, WorkersOK
<1>1. CASE CheckCache(s, w) \/ RecheckCache(s, w)
  BY <1>0, <1>1, HasBlock DEF CheckCache, RecheckCache, WorkersOK, SoundInv, CacheSound
<1>2. CASE CheckRow(s, w)
  BY <1>0, <1>2, HasBlock DEF CheckRow, WorkersOK, SoundInv, RecordSound
<1>3. CASE CheckStore(s, w)
  BY <1>0, <1>3 DEF CheckStore, WorkersOK, CopiesSucceed
<1>4. CASE RecordExisting(s, w) \/ RecordCopied(s, w)
  BY <1>0, <1>4 DEF RecordExisting, RecordCopied, WorkersOK, SoundInv, Witnessed
<1>5. CASE StartCopy(s, w) \/ FinishCopy(s, w)
  BY <1>0, <1>5 DEF StartCopy, FinishCopy, WorkersOK, CopiesSucceed
<1>6. CASE ReleaseLock(s, w)
  BY <1>0, <1>6 DEF ReleaseLock, WorkersOK, WorkersDone, Spent, TheBlock
<1>7. CASE Dequeue(s, w) \/ AcquireLock(s, w) \/ GiveUp(s, w) \/ CloseChannel(s, w)
  BY <1>0, <1>7 DEF Dequeue, AcquireLock, GiveUp, CloseChannel, WorkersOK, CopiesSucceed
<1> QED
  BY <1>1, <1>2, <1>3, <1>4, <1>5, <1>6, <1>7 DEF Work

\* A step of the store keeps what the retention loop relies on.
LEMMA StoreCopyInv ==
  ASSUME CopiesSucceed, CopyInv, [StoreNext]_vars,
         \A s \in Servers : step'[s] = "deleteObject" =>
           step[s] = "deleteObject" /\ item'[s] = item[s]
  PROVE  JobsSubmitted' /\ WorkersDone' /\ ChannelsTrue' /\ DeletesSpent' /\ SavedStored'
           /\ AtLeastOneCopy'
<1> USE DEF world, intake
<1>0. AtomicCopy /\ SoundInv /\ TypeOK /\ WorkersOK /\ LoopOK
  BY DEF CopiesSucceed, CopyInv, SoundInv, TypeOK, WorkersOK, PurgeInv, RTypeInv, RTypeOK, LoopOK
<1>1. ASSUME NEW c \in Copies, phase[c] \in {"indexed", "purged"}
      PROVE  phase'[c] \in {"indexed", "purged"} /\ (Spent(c) => Spent(c)')
  BY <1>0, <1>1, StoreSpent
<1>2. ASSUME NEW j \in Jobs, Submitted(j)
      PROVE  Submitted(j)'
  BY <1>1, <1>2 DEF Submitted, Jobs
<1>3. JobsSubmitted'
  <2> SUFFICES ASSUME NEW s \in Servers
               PROVE  /\ \A j \in offers'[s] : Submitted(j)'
                      /\ \A n \in 1 .. Len(queue'[s]) : phase'[queue'[s][n].copy] \in {"indexed", "purged"}
                      /\ \A w \in Workers : pc'[s][w] # "idle" =>
                           phase'[job'[s][w].copy] \in {"indexed", "purged"}
    BY DEF JobsSubmitted, Submitted
  <2>1. offers[s] \subseteq Jobs /\ queue[s] \in Seq(Jobs)
    BY <1>0 DEF TypeOK
  <2>2. \A n \in 1 .. Len(queue[s]) : queue[s][n] \in Jobs /\ Submitted(queue[s][n])
    BY <2>1 DEF CopyInv, JobsSubmitted
  <2>3. \A j \in offers'[s] : Submitted(j)'
    BY <1>0, <1>2, <2>1, StoreJobs DEF CopyInv, JobsSubmitted, Submitted
  <2>4. \A n \in 1 .. Len(queue'[s]) : phase'[queue'[s][n].copy] \in {"indexed", "purged"}
    BY <1>0, <1>2, <2>1, <2>2, StoreJobs DEF CopyInv, JobsSubmitted, Submitted
  <2>5. ASSUME NEW w \in Workers, pc'[s][w] # "idle"
        PROVE  phase'[job'[s][w].copy] \in {"indexed", "purged"}
    <3>1. CASE pc[s][w] # "idle" /\ job'[s][w] = job[s][w]
      BY <1>0, <1>1, <3>1, HasBlock DEF CopyInv, JobsSubmitted, Submitted
    <3>2. CASE queue[s] # <<>> /\ job'[s][w] = Head(queue[s])
      <4>1. job'[s][w] = queue[s][1] /\ 1 \in 1 .. Len(queue[s])
        BY <2>1, <3>2, HeadTailProperties, EmptySeq
      <4>2. job'[s][w] \in Jobs /\ Submitted(queue[s][1])
        BY <2>2, <4>1
      <4> QED
        BY <1>2, <2>2, <4>1 DEF Submitted
    <3> QED
      BY <1>0, <2>5, <3>1, <3>2, StoreJobs
  <2> QED
    BY <2>3, <2>4, <2>5
<1>4. WorkersDone'
  <2> SUFFICES ASSUME NEW s \in Servers, NEW w \in Workers, pc'[s][w] \in {"release", "close"}
               PROVE  Spent(job[s][w].copy)' /\ job'[s][w] = job[s][w]
    BY DEF WorkersDone, Spent
  <2>1. pc[s][w] # "idle" /\ job'[s][w] = job[s][w]
    BY <1>0, StoreJobs
  <2>2. job[s][w].copy \in Copies /\ phase[job[s][w].copy] \in {"indexed", "purged"}
    BY <1>0, <2>1, HasBlock DEF CopyInv, JobsSubmitted, Submitted
  <2>3. Spent(job[s][w].copy)
    <3>1. CASE pc[s][w] \in {"release", "close"}
      BY <3>1 DEF CopyInv, WorkersDone
    <3>2. ASSUME pc'[s][w] # pc[s][w]
          PROVE  Spent(job[s][w].copy)
      <4>1. PICK t \in Servers : Server(t) /\ (Restart(t) \/ \E v \in Workers : Work(t, v))
        BY <3>2 DEF StoreNext, Next, Server, Save, Send, CreateBeaconBlock, Stop, StopReturns,
          LockLapses, vars
      <4>2. CASE Restart(t)
        BY <1>0, <3>2, <4>2, RestartWorkers
      <4>3. ASSUME NEW v \in Workers, Work(t, v)
            PROVE  Spent(job[s][w].copy)
        <5>1. t = s /\ v = w
          BY <1>0, <3>2, <4>3, OtherWorkers
        <5> QED
          BY <1>0, <4>3, <5>1, WorkDone DEF CopyInv, Spent, TheBlock
      <4> QED
        BY <4>1, <4>2, <4>3
    <3> QED
      BY <3>1, <3>2
  <2>4. Spent(job[s][w].copy)'
    <3> DEFINE c == job[s][w].copy
    <3>1. job' [s][w].copy = c
      BY <2>1
    <3>2. permanent'[BlockOf[c]] = "whole" \/ c \notin stored'
      <4> HIDE DEF c
      <4>1. c \in Copies /\ phase[c] \in {"indexed", "purged"} /\ Spent(c)
        BY <2>2, <2>3 DEF c
      <4> QED
        BY <1>1, <4>1 DEF Spent
    <3> QED
      BY <3>1, <3>2 DEF Spent
  <2> QED
    BY <2>1, <2>4
<1>5. ChannelsTrue'
  <2> SUFFICES ASSUME NEW s \in Servers, NEW c \in done'[s]
               PROVE  c \in Copies /\ phase[c] \in {"indexed", "purged"} /\ Spent(c)
    BY <1>1 DEF ChannelsTrue
  <2>1. CASE c \in done[s]
    BY <1>0, <2>1 DEF CopyInv, ChannelsTrue, TypeOK
  <2>2. CASE c \notin done[s]
    <3>1. PICK t \in Servers, w \in Workers : CloseChannel(t, w)
      <4>1. done' # done
        BY <2>2
      <4>2. ASSUME NEW t \in Servers, Restart(t)
            PROVE  done'[s] \subseteq done[s]
        BY <1>0, <4>2 DEF Restart, TypeOK
      <4>3. ASSUME NEW t \in Servers, NEW w \in Workers, Work(t, w), ~CloseChannel(t, w)
            PROVE  done' = done
        BY <4>3 DEF Work, Dequeue, CheckCache, AcquireLock, GiveUp, RecheckCache, CheckRow,
          CheckStore, RecordExisting, StartCopy, FinishCopy, RecordCopied, ReleaseLock
      <4>4. \E t \in Servers : Restart(t) \/ \E w \in Workers : Work(t, w)
        BY <4>1 DEF StoreNext, Next, Server, Save, Send, CreateBeaconBlock, Stop, StopReturns,
          LockLapses, vars
      <4> QED
        BY <2>2, <4>1, <4>2, <4>3, <4>4
    <3>2. t = s /\ c = job[s][w].copy
      BY <1>0, <2>2, <3>1 DEF CloseChannel, TypeOK
    <3> QED
      BY <1>0, <3>1, <3>2, HasBlock DEF CloseChannel, At, CopyInv, WorkersDone, JobsSubmitted, Submitted
  <2> QED
    BY <2>1, <2>2
<1>6. DeletesSpent'
  <2> SUFFICES ASSUME NEW s \in Servers, step[s] = "deleteObject", item[s] \in Copies
               PROVE  permanent'[BlockOf[item[s]]] = "whole" \/ item[s] \notin stored'
    BY DEF DeletesSpent, Spent
  <2>1. Spent(item[s]) /\ phase[item[s]] \in {"indexed", "purged"}
    BY <1>0 DEF CopyInv, DeletesSpent, PurgeInv, Listed, LoopOK
  <2> QED
    BY <1>1, <2>1 DEF Spent
<1>7. SavedStored'
  BY <1>0, StoreItems DEF CopyInv, SavedStored
<1>8. AtLeastOneCopy'
  <2> SUFFICES ASSUME NEW c \in Copies, phase'[c] \in {"indexed", "purged"}
               PROVE  \/ permanent'[BlockOf[c]] = "whole"
                      \/ \E d \in stored' : d \in Copies /\ BlockOf[d] = BlockOf[c]
    BY DEF AtLeastOneCopy
  <2>1. c \in Items /\ BlockOf[c] \in Blocks
    BY StoreAssumption
  <2>2. stored \subseteq stored' /\ stored \subseteq Items
    BY <1>0, StoreItems DEF TypeOK
  <2>3. CASE phase[c] \in {"indexed", "purged"}
    BY <1>0, <2>1, <2>2, <2>3, PermanentStays DEF CopyInv, AtLeastOneCopy
  <2>4. CASE phase[c] \notin {"indexed", "purged"}
    BY <1>0, <2>1, <2>2, <2>4, StoreItems DEF CopyInv, SavedStored
  <2> QED
    BY <2>3, <2>4
<1> QED
  BY <1>3, <1>4, <1>5, <1>6, <1>7, <1>8

\* What a step of the loop leaves true of the permanent store's jobs.
LEMMA WatcherCopyInv ==
  ASSUME CopiesSucceed, CopyInv, NEW s \in Servers, RetentionWatcher(s)
  PROVE  JobsSubmitted' /\ WorkersDone' /\ ChannelsTrue' /\ DeletesSpent' /\ SavedStored'
           /\ AtLeastOneCopy'
<1> USE DEF world, intake
<1>0. TypeOK /\ LoopOK /\ OfKind
  BY DEF CopyInv, PurgeInv, RTypeInv, RTypeOK, LoopOK
<1>1. CASE UNCHANGED <<phase, stored, permanent, queue, pc, job>>
  <2> SUFFICES /\ \A t \in Servers : \A j \in offers'[t] : Submitted(j)
               /\ \A t \in Servers : done'[t] \subseteq done[t]
               /\ \A t \in Servers : step'[t] = "deleteObject" /\ item'[t] \in Copies =>
                    Spent(item'[t])
    BY <1>1 DEF CopyInv, JobsSubmitted, WorkersDone, ChannelsTrue, DeletesSpent, SavedStored,
      AtLeastOneCopy, Spent, Submitted
  <2>1. CASE List(s) \/ EndOfList(s)
    BY <1>0, <2>1 DEF List, EndOfList, vars, LoopOK, CopyInv, JobsSubmitted, DeletesSpent
  <2>2. CASE QueueOld(s)
    <3>1. PICK c \in todo[s] :
            /\ Pick(s, c, "wait")
            /\ Offer(s, [copy |-> c, waits |-> TRUE])
            /\ done' = [done EXCEPT ![s] = @ \ {c}]
      BY <2>2 DEF QueueOld
    <3>2. ASSUME NEW t \in Servers, NEW j \in offers'[t]
          PROVE  Submitted(j)
      <4>1. j \in offers[t] \/ j = [copy |-> c, waits |-> TRUE]
        BY <1>0, <3>1 DEF Offer, TypeOK
      <4>2. phase[c] \in {"indexed", "purged"}
        BY DEF CopyInv, PurgeInv, Listed
      <4> QED
        BY <4>1, <4>2 DEF CopyInv, JobsSubmitted, Submitted
    <3>3. \A t \in Servers : done'[t] \subseteq done[t]
      BY <1>0, <3>1 DEF TypeOK
    <3>4. \A t \in Servers : step'[t] = "deleteObject" =>
            step[t] = "deleteObject" /\ item'[t] = item[t]
      BY <1>0, <3>1 DEF Pick, LoopOK
    <3> QED
      BY <3>2, <3>3, <3>4 DEF CopyInv, DeletesSpent
  <2>3. CASE Processed(s)
    <3>1. Spent(item[s])
      BY <2>3 DEF Processed, CopyInv, ChannelsTrue
    <3>2. \A t \in Servers : step'[t] = "deleteObject" =>
            (t = s \/ step[t] = "deleteObject") /\ item'[t] = item[t]
      BY <1>0, <2>3 DEF Processed, LoopOK
    <3>3. offers' = offers /\ \A t \in Servers : done'[t] \subseteq done[t]
      BY <1>0, <2>3 DEF Processed, TypeOK
    <3> QED
      BY <3>1, <3>2, <3>3 DEF CopyInv, JobsSubmitted, DeletesSpent
  <2>4. ASSUME NEW i \in todo[s] \ Copies, Pick(s, i, "deleteObject"), UNCHANGED vars
        PROVE  /\ \A t \in Servers : \A j \in offers'[t] : Submitted(j)
               /\ \A t \in Servers : done'[t] \subseteq done[t]
               /\ \A t \in Servers : step'[t] = "deleteObject" /\ item'[t] \in Copies =>
                    Spent(item'[t])
    BY <1>0, <2>4 DEF Pick, vars, LoopOK, CopyInv, JobsSubmitted, DeletesSpent
  <2>5. CASE DeleteObject(s)
    BY <1>0, <1>1, <2>5 DEF DeleteObject, Skip, LoopOK, CopyInv, JobsSubmitted, DeletesSpent
  <2>6. CASE DeleteRecord(s)
    BY <1>0, <1>1, <2>6 DEF DeleteRecord, Skip, LoopOK, CopyInv, JobsSubmitted, DeletesSpent
  <2> QED
    BY <2>1, <2>2, <2>3, <2>4, <2>5, <2>6, WatcherSteps
<1>2. CASE DeleteObject(s)
  <2>1. /\ stored' \in {stored, stored \ {item[s]}}
        /\ UNCHANGED <<phase, permanent, offers, queue, pc, job, done>>
        /\ \A t \in Servers : step'[t] = "deleteObject" =>
             step[t] = "deleteObject" /\ item'[t] = item[t]
    BY <1>0, <1>2 DEF DeleteObject, Skip, LoopOK
  <2>2. item[s] \in Items /\ phase[item[s]] \in {"indexed", "purged"}
    BY <1>0, <1>2 DEF DeleteObject, LoopOK, CopyInv, PurgeInv, Listed
  <2>3. item[s] \in Copies => Spent(item[s])
    BY <1>2 DEF DeleteObject, CopyInv, DeletesSpent
  <2>4. ASSUME NEW c, Spent(c)
        PROVE  permanent'[BlockOf[c]] = "whole" \/ c \notin stored'
    BY <2>1, <2>4 DEF Spent
  <2>5. JobsSubmitted'
    BY <2>1 DEF CopyInv, JobsSubmitted, Submitted
  <2>6. WorkersDone' /\ ChannelsTrue' /\ DeletesSpent'
    BY <2>1, <2>4 DEF CopyInv, WorkersDone, ChannelsTrue, DeletesSpent, Spent
  <2>7. SavedStored'
    BY <2>1, <2>2 DEF CopyInv, SavedStored
  <2>8. AtLeastOneCopy'
    <3> SUFFICES ASSUME NEW c \in Copies, phase[c] \in {"indexed", "purged"},
                        permanent[BlockOf[c]] # "whole"
                 PROVE  \E d \in stored' : d \in Copies /\ BlockOf[d] = BlockOf[c]
      BY <2>1 DEF AtLeastOneCopy
    <3>1. PICK d \in stored : d \in Copies /\ BlockOf[d] = BlockOf[c]
      BY DEF CopyInv, AtLeastOneCopy
    <3>2. d # item[s]
      BY <2>3, <3>1 DEF Spent
    <3> QED
      BY <2>1, <3>1, <3>2
  <2> QED
    BY <2>5, <2>6, <2>7, <2>8
<1>3. CASE DeleteRecord(s)
  <2>1. /\ UNCHANGED <<stored, permanent, offers, queue, pc, job, done>>
        /\ \A t \in Servers : step'[t] = "deleteObject" =>
             step[t] = "deleteObject" /\ item'[t] = item[t]
    BY <1>0, <1>3 DEF DeleteRecord, Skip, LoopOK
  <2>2. phase[item[s]] \in {"indexed", "purged"}
    BY <1>0, <1>3 DEF DeleteRecord, LoopOK, CopyInv, PurgeInv, Listed
  <2>3. \A i \in Items : \/ phase'[i] = phase[i]
                         \/ phase[i] \in {"indexed", "purged"} /\ phase'[i] = "purged"
    BY <1>0, <1>3, <2>2 DEF DeleteRecord, TypeOK
  <2>4. \A i \in Items : phase[i] \in {"indexed", "purged"} <=> phase'[i] \in {"indexed", "purged"}
    BY <2>3
  <2>5. JobsSubmitted'
    <3>1. ASSUME NEW j \in Jobs, Submitted(j)
          PROVE  phase'[j.copy] \in {"indexed", "purged"}
      BY <2>4, <3>1, StoreAssumption DEF Submitted, Jobs
    <3>2. \A t \in Servers :
            /\ offers[t] \subseteq Jobs
            /\ \A n \in 1 .. Len(queue[t]) : queue[t][n] \in Jobs
            /\ \A w \in Workers : pc[t][w] # "idle" => job[t][w] \in Jobs
      BY <1>0 DEF TypeOK
    <3> QED
      BY <2>1, <3>1, <3>2 DEF CopyInv, JobsSubmitted, Submitted
  <2>6. WorkersDone' /\ DeletesSpent'
    BY <2>1 DEF CopyInv, WorkersDone, DeletesSpent, Spent
  <2>7. ChannelsTrue'
    BY <1>0, <2>1, <2>4, StoreAssumption DEF CopyInv, ChannelsTrue, Spent, TypeOK
  <2>8. SavedStored' /\ AtLeastOneCopy'
    BY <2>1, <2>3, StoreAssumption DEF CopyInv, SavedStored, AtLeastOneCopy
  <2> QED
    BY <2>5, <2>6, <2>7, <2>8
<1> QED
  BY <1>1, <1>2, <1>3, WatcherSteps DEF List, EndOfList, QueueOld, Processed, vars

LEMMA RNextCopyInv ==
  ASSUME CopiesSucceed, CopyInv, [RNext]_rvars
  PROVE  CopyInv'
<1> USE DEF world, intake
<1>0. PurgeInv' /\ TypeOK' /\ SoundInv /\ AtomicCopy /\ TypeOK /\ LoopOK
  BY RNextPurgeInv DEF CopyInv, PurgeInv, RTypeInv, RTypeOK, CopiesSucceed, LoopOK
<1>1. CASE [StoreNext]_vars /\ UNCHANGED <<old, loop>>
  BY <1>0, <1>1, StoreNextSound, StoreCopyInv DEF CopyInv, loop
<1>2. ASSUME UNCHANGED <<permanent, permRows, cache, pc, job>>
      PROVE  SoundInv'
  BY <1>0, <1>2, SoundUnchanged DEF SoundInv
<1>3. ASSUME NEW i \in Items, IndexOther(i) \/ GrowOld(i)
      PROVE  CopyInv'
  <2>1. UNCHANGED <<stored, permanent, permRows, lock, epoch, intake, cache, pc, job, loop>>
    BY <1>3 DEF IndexOther, GrowOld, vars
  <2>2. \A j \in Items :
          phase'[j] = phase[j] \/ (j \notin Copies /\ phase[j] = "saved" /\ phase'[j] = "indexed")
    BY <1>0, <1>3 DEF IndexOther, GrowOld, vars, TypeOK
  <2>3. \A c \in Copies : phase'[c] = phase[c]
    BY <2>2, StoreAssumption
  <2>4. JobsSubmitted'
    <3>1. \A t \in Servers :
            /\ offers[t] \subseteq Jobs
            /\ \A n \in 1 .. Len(queue[t]) : queue[t][n] \in Jobs
            /\ \A w \in Workers : pc[t][w] # "idle" => job[t][w] \in Jobs
      BY <1>0 DEF TypeOK
    <3>2. \A j \in Jobs : phase'[j.copy] = phase[j.copy]
      BY <2>3 DEF Jobs
    <3> QED
      BY <2>1, <3>1, <3>2 DEF CopyInv, JobsSubmitted, Submitted
  <2>5. WorkersDone' /\ DeletesSpent'
    BY <2>1 DEF CopyInv, WorkersDone, DeletesSpent, Spent, loop
  <2>6. ChannelsTrue'
    BY <1>0, <2>1, <2>3 DEF CopyInv, ChannelsTrue, Spent, TypeOK
  <2>7. SavedStored' /\ AtLeastOneCopy'
    BY <2>1, <2>2, <2>3 DEF CopyInv, SavedStored, AtLeastOneCopy
  <2> QED
    BY <1>0, <1>2, <2>1, <2>4, <2>5, <2>6, <2>7 DEF CopyInv
<1>4. ASSUME NEW s \in Servers, RetentionWatcher(s)
      PROVE  CopyInv'
  <2>1. UNCHANGED <<permanent, permRows, cache, pc, job>>
    BY <1>4, WatcherSteps DEF List, EndOfList, QueueOld, Processed, DeleteObject, DeleteRecord, vars
  <2> QED
    BY <1>0, <1>2, <1>4, <2>1, WatcherCopyInv DEF CopyInv
<1>5. ASSUME NEW s \in Servers, RestartWatcher(s)
      PROVE  CopyInv'
  <2>1. [StoreNext]_vars
    BY <1>5 DEF RestartWatcher, StoreNext, Next, Server
  <2>2. \A t \in Servers : step'[t] = "deleteObject" =>
          step[t] = "deleteObject" /\ item'[t] = item[t]
    BY <1>0, <1>5 DEF RestartWatcher, LoopOK
  <2> QED
    BY <1>0, <2>1, <2>2, StoreNextSound, StoreCopyInv DEF CopyInv
<1> QED
  BY <1>1, <1>3, <1>4, <1>5, RNextSteps

LEMMA RInitCopyInv == RInit => CopyInv
<1> SUFFICES ASSUME RInit PROVE CopyInv
  OBVIOUS
<1>1. PurgeInv /\ SoundInv
  BY RInitPurgeInv, InitSound DEF RInit
<1>2. \A s \in Servers : Len(queue[s]) = 0
  BY DEF RInit, Init
<1>3. JobsSubmitted
  BY <1>2 DEF RInit, Init, JobsSubmitted
<1> QED
  BY <1>1, <1>3, StoreAssumption DEF RInit, Init, CopyInv, WorkersDone, ChannelsTrue, DeletesSpent,
    SavedStored, AtLeastOneCopy

\* If store.Exists and store.Copy do not fail, copies are atomic and workers
\* get their lock in time, a block that was ever indexed keeps a whole object:
\* the loop deletes an agent's copy only after its channel was closed, and the
\* channel is closed only when the block is permanent or that copy was gone
\* already.  Crashes, failing queries, lost rows, several workers under one
\* owner and stolen locks do not matter (retention.go, permanent_store.go).
THEOREM RetentionKeepsOneCopy == ASSUME CopiesSucceed PROVE RSpec => []AtLeastOneCopy
<1>1. RInit => CopyInv
  BY RInitCopyInv
<1>2. CopyInv /\ [RNext]_rvars => CopyInv'
  BY RNextCopyInv
<1>3. CopyInv => AtLeastOneCopy
  BY DEF CopyInv
<1> QED
  BY <1>1, <1>2, <1>3, PTL DEF RSpec

-----------------------------------------------------------------------------
(* The archive, and the custody of blocks *)

\* The step of one item, and of no other, in any step of the composition: it
\* is uploaded, recorded while it is in the store, discarded while it is
\* recorded, or purged after its object has gone.
UploadedNow(i) == i \in stored' /\ phase[i] = "absent" /\ phase'[i] = "saved"
RecordedNow(i) == i \in stored /\ i \in stored' /\ phase[i] = "saved" /\ phase'[i] = "indexed"
DiscardedNow(i) ==
  /\ i \in stored /\ i \notin stored' /\ phase[i] = "indexed" /\ phase'[i] = "indexed"
  /\ \E s \in Servers : step[s] = "deleteObject" /\ item[s] = i
PurgedNow(i) == i \notin stored /\ i \notin stored' /\ phase'[i] = "purged"

OnlyItem(i) ==
  \A j \in Items \ {i} : phase'[j] = phase[j] /\ (j \in stored' <=> j \in stored)

SameItems == \A j \in Items : phase'[j] = phase[j] /\ (j \in stored' <=> j \in stored)

LEMMA ItemChanges ==
  ASSUME PurgeInv, SavedStored, [RNext]_rvars
  PROVE  \/ SameItems
         \/ \E i \in Items :
              /\ OnlyItem(i)
              /\ UploadedNow(i) \/ RecordedNow(i) \/ DiscardedNow(i) \/ PurgedNow(i)
<1> USE DEF world, intake, loop
<1>0. TypeOK /\ LoopOK
  BY DEF PurgeInv, RTypeInv, RTypeOK, LoopOK
<1>1. ASSUME NEW i \in Items, Save(i)
      PROVE  OnlyItem(i) /\ UploadedNow(i)
  BY <1>0, <1>1 DEF Save, TypeOK, OnlyItem, UploadedNow
<1>2. ASSUME NEW i \in Items, phase[i] = "saved", phase' = [phase EXCEPT ![i] = "indexed"],
             UNCHANGED stored
      PROVE  OnlyItem(i) /\ RecordedNow(i)
  BY <1>0, <1>2 DEF TypeOK, OnlyItem, RecordedNow, SavedStored
<1>3. CASE UNCHANGED <<phase, stored>>
  BY <1>3 DEF SameItems
<1>4. ASSUME NEW s \in Servers, DeleteObject(s)
      PROVE  SameItems \/ (OnlyItem(item[s]) /\ DiscardedNow(item[s]))
  <2>1. phase' = phase /\ stored' \in {stored, stored \ {item[s]}} /\ step[s] = "deleteObject"
    BY <1>4 DEF DeleteObject
  <2>2. item[s] \in Items /\ phase[item[s]] \in {"indexed", "purged"}
    BY <1>0, <2>1 DEF LoopOK, PurgeInv, Listed
  <2>3. item[s] \in stored => phase[item[s]] = "indexed"
    BY <2>2 DEF PurgeInv, NoOrphans
  <2> QED
    BY <2>1, <2>2, <2>3 DEF SameItems, OnlyItem, DiscardedNow
<1>5. ASSUME NEW s \in Servers, DeleteRecord(s)
      PROVE  SameItems \/ (OnlyItem(item[s]) /\ PurgedNow(item[s]))
  <2>1. item[s] \in Items /\ item[s] \notin stored
    BY <1>0, <1>5 DEF DeleteRecord, LoopOK, PurgeInv, ObjectGone
  <2>2. stored' = stored /\ (phase' = phase \/ phase' = [phase EXCEPT ![item[s]] = "purged"])
    BY <1>5 DEF DeleteRecord
  <2> QED
    BY <1>0, <2>1, <2>2 DEF SameItems, OnlyItem, PurgedNow, TypeOK
<1>6. ASSUME NEW s \in Servers, DeleteObject(s) \/ DeleteRecord(s)
      PROVE  item[s] \in Items
  BY <1>0, <1>6 DEF DeleteObject, DeleteRecord, LoopOK
<1>7. CASE [StoreNext]_vars
  <2>1. ASSUME NEW s \in Servers, NEW w \in Workers, Work(s, w)
        PROVE  UNCHANGED <<phase, stored>>
    BY <2>1 DEF Work, Dequeue, CheckCache, AcquireLock, GiveUp, RecheckCache, CheckRow,
      CheckStore, RecordExisting, StartCopy, FinishCopy, RecordCopied, ReleaseLock, CloseChannel
  <2>2. ASSUME NEW s \in Servers, NEW c \in Copies, CreateBeaconBlock(s, c)
        PROVE  OnlyItem(c) /\ RecordedNow(c)
    BY <1>2, <2>2, StoreAssumption DEF CreateBeaconBlock
  <2> QED
    BY <1>1, <1>3, <1>7, <2>1, <2>2, StoreAssumption
    DEF StoreNext, Next, Server, Send, Stop, StopReturns, Restart, LockLapses, vars
<1>8. CASE \E i \in Items : IndexOther(i) \/ GrowOld(i)
  BY <1>2, <1>3, <1>8 DEF IndexOther, GrowOld, vars
<1>9. ASSUME NEW s \in Servers, RetentionWatcher(s)
      PROVE  \/ DeleteObject(s) \/ DeleteRecord(s) \/ UNCHANGED <<phase, stored>>
  BY <1>9, WatcherSteps DEF List, EndOfList, QueueOld, Processed, vars
<1>10. CASE \E s \in Servers : RestartWatcher(s)
  BY <1>3, <1>10 DEF RestartWatcher, Restart
<1> QED
  BY <1>3, <1>4, <1>5, <1>6, <1>7, <1>8, <1>9, <1>10, RNextSteps

LEMMA RNextSavedStored ==
  ASSUME PurgeInv, SavedStored, [RNext]_rvars
  PROVE  SavedStored'
<1>1. CASE SameItems
  BY <1>1 DEF SavedStored, SameItems
<1>2. ASSUME NEW i \in Items, OnlyItem(i),
             UploadedNow(i) \/ RecordedNow(i) \/ DiscardedNow(i) \/ PurgedNow(i)
      PROVE  SavedStored'
  BY <1>2 DEF SavedStored, OnlyItem, UploadedNow, RecordedNow, DiscardedNow, PurgedNow
<1> QED
  BY <1>1, <1>2, ItemChanges

HeldNow == [i \in Items |-> IF i \in stored THEN "object" ELSE "none"]
RowsNow == [i \in Items |-> IF phase[i] = "indexed" THEN 1 ELSE 0]
KeptNow == {b \in Blocks : permanent[b] = "whole"}

\* The steps of the archive, spelt out.
LEMMA ItemArchives ==
  ASSUME NEW i \in Items, OnlyItem(i)
  PROVE  /\ UploadedNow(i) => Custody!Upload(i)
         /\ RecordedNow(i) => Custody!Record(i)
         /\ DiscardedNow(i) => Custody!Discard(i)
         /\ PurgedNow(i) => Custody!Forget(i)
<1>1. /\ i \in stored' => HeldNow' = [HeldNow EXCEPT ![i] = "object"]
      /\ i \notin stored' => HeldNow' = [HeldNow EXCEPT ![i] = "none"]
      /\ (i \in stored' <=> i \in stored) => HeldNow' = HeldNow
      /\ (phase'[i] = "indexed" <=> phase[i] = "indexed") => RowsNow' = RowsNow
      /\ phase'[i] = "indexed" => RowsNow' = [RowsNow EXCEPT ![i] = 1]
      /\ phase'[i] # "indexed" => RowsNow' = [RowsNow EXCEPT ![i] = 0]
  BY DEF OnlyItem, HeldNow, RowsNow
<1>2. /\ HeldNow[i] = (IF i \in stored THEN "object" ELSE "none")
      /\ RowsNow[i] = (IF phase[i] = "indexed" THEN 1 ELSE 0)
  BY DEF HeldNow, RowsNow
<1>3. ASSUME UploadedNow(i)
      PROVE  HeldNow' = [HeldNow EXCEPT ![i] = "object"] /\ RowsNow' = RowsNow
  BY <1>1, <1>3 DEF UploadedNow
<1>4. ASSUME RecordedNow(i)
      PROVE  /\ HeldNow[i] # "none" /\ RowsNow[i] = 0
             /\ RowsNow' = [RowsNow EXCEPT ![i] = IF @ < 2 THEN @ + 1 ELSE @]
             /\ HeldNow' = HeldNow
  BY <1>1, <1>2, <1>4 DEF RecordedNow
<1>5. ASSUME DiscardedNow(i)
      PROVE  RowsNow[i] > 0 /\ HeldNow' = [HeldNow EXCEPT ![i] = "none"] /\ RowsNow' = RowsNow
  BY <1>1, <1>2, <1>5 DEF DiscardedNow
<1>6. ASSUME PurgedNow(i)
      PROVE  HeldNow[i] = "none" /\ RowsNow' = [RowsNow EXCEPT ![i] = 0] /\ HeldNow' = HeldNow
  BY <1>1, <1>2, <1>6 DEF PurgedNow
<1> QED
  BY <1>3, <1>4, <1>5, <1>6
  DEF Custody!Upload, Custody!Record, Custody!Discard, Custody!Forget, HeldNow, RowsNow

LEMMA RNextArchives ==
  PurgeInv /\ SavedStored /\ [RNext]_rvars => [Custody!Next]_<<HeldNow, RowsNow>>
<1> SUFFICES ASSUME PurgeInv, SavedStored, [RNext]_rvars
             PROVE  Custody!Next \/ UNCHANGED <<HeldNow, RowsNow>>
  OBVIOUS
<1>1. CASE SameItems
  BY <1>1 DEF SameItems, HeldNow, RowsNow
<1>2. CASE \E i \in Items : OnlyItem(i) /\ (UploadedNow(i) \/ RecordedNow(i) \/ DiscardedNow(i) \/ PurgedNow(i))
  BY <1>2, ItemArchives DEF Custody!Next
<1> QED
  BY <1>1, <1>2, ItemChanges

\* Objects and records of all six kinds are an archive, for any number of
\* servers purging them at once and every fault: with ArchiveProofs, an item
\* has one record, and no record goes before its object (retention.go).
THEOREM RetentionRefinesArchive == RSpec => ImplementsArchive
<1>1. RInit => PurgeInv /\ SavedStored /\ Custody!Init
  <2> SUFFICES ASSUME RInit PROVE PurgeInv /\ SavedStored /\ Custody!Init
    OBVIOUS
  <2> QED
    BY RInitPurgeInv DEF RInit, Init, SavedStored, Custody!Init
<1>2. PurgeInv /\ SavedStored /\ [RNext]_rvars => PurgeInv' /\ SavedStored'
  BY RNextPurgeInv, RNextSavedStored
<1> QED
  BY <1>1, <1>2, RNextArchives, PTL
  DEF RSpec, ImplementsArchive, Custody!Spec, HeldNow, RowsNow

\* What a worker is writing to the permanent location is a copy still in the
\* store, unless somebody else has made the block permanent meanwhile.
CopyingStored ==
  \A s \in Servers, w \in Workers : pc[s][w] = "write" =>
    permanent[TheBlock(s, w)] = "whole" \/ job[s][w].copy \in stored

CustodyInv == CopyInv /\ CopyingStored

LEMMA RNextCopying ==
  ASSUME CopiesSucceed, CustodyInv, [RNext]_rvars
  PROVE  CopyingStored'
<1> USE DEF world, intake, CustodyInv
<1>0. AtomicCopy /\ SoundInv /\ TypeOK /\ WorkersOK /\ LoopOK
  BY DEF CopiesSucceed, CopyInv, SoundInv, TypeOK, WorkersOK, PurgeInv, RTypeInv, RTypeOK, LoopOK
<1>1. ASSUME [StoreNext]_vars
      PROVE  CopyingStored'
  <2> SUFFICES ASSUME NEW s \in Servers, NEW w \in Workers, pc'[s][w] = "write"
               PROVE  permanent'[TheBlock(s, w)'] = "whole" \/ job'[s][w].copy \in stored'
    BY DEF CopyingStored
  <2>1. stored \subseteq stored'
    BY <1>0, <1>1, StoreItems DEF TypeOK
  <2>2. pc[s][w] # "idle" /\ job'[s][w] = job[s][w]
    BY <1>0, <1>1, StoreJobs
  <2>3. TheBlock(s, w)' = TheBlock(s, w) /\ TheBlock(s, w) \in Blocks
    BY <1>0, <2>2, HasBlock DEF TheBlock
  <2>4. CASE pc[s][w] = "write"
    BY <1>0, <1>1, <2>1, <2>2, <2>3, <2>4, PermanentStays DEF CopyingStored
  <2>5. CASE pc[s][w] # "write"
    <3>1. PICK t \in Servers : Restart(t) \/ \E v \in Workers : Work(t, v)
      BY <1>1, <2>5 DEF StoreNext, Next, Server, Save, Send, CreateBeaconBlock, Stop,
        StopReturns, LockLapses, vars
    <3>2. ~Restart(t)
      BY <1>0, <2>5, RestartWorkers
    <3>3. PICK v \in Workers : Work(t, v)
      BY <3>1, <3>2
    <3>4. t = s /\ v = w
      BY <1>0, <2>5, <3>3, OtherWorkers
    <3>5. StartCopy(s, w)
      BY <1>0, <2>5, <3>3, <3>4
      DEF Work, Dequeue, CheckCache, AcquireLock, GiveUp, RecheckCache, CheckRow, CheckStore,
        RecordExisting, FinishCopy, RecordCopied, ReleaseLock, CloseChannel, At, Goto, TypeOK
    <3> QED
      BY <1>0, <2>1, <2>2, <2>5, <3>5 DEF StartCopy, Goto, TypeOK
  <2> QED
    BY <2>4, <2>5
<1>2. ASSUME NEW s \in Servers, RetentionWatcher(s)
      PROVE  CopyingStored'
  <2>1. UNCHANGED <<permanent, pc, job>>
    BY <1>2, WatcherSteps DEF List, EndOfList, QueueOld, Processed, DeleteObject, DeleteRecord, vars
  <2>2. CASE UNCHANGED stored
    BY <2>1, <2>2 DEF CopyingStored, TheBlock
  <2>3. CASE DeleteObject(s)
    <3>1. stored' \in {stored, stored \ {item[s]}}
      BY <2>3 DEF DeleteObject
    <3>2. item[s] \in Copies => permanent[BlockOf[item[s]]] = "whole" \/ item[s] \notin stored
      BY <2>3 DEF DeleteObject, CopyInv, DeletesSpent, Spent
    <3>3. ASSUME NEW t \in Servers, NEW w \in Workers, pc[t][w] = "write"
          PROVE  permanent[TheBlock(t, w)] = "whole" \/ job[t][w].copy \in stored'
      <4>1. job[t][w].copy \in Copies
        BY <1>0, <3>3, HasBlock
      <4> QED
        BY <3>1, <3>2, <3>3, <4>1 DEF CopyingStored, TheBlock
    <3> QED
      BY <2>1, <3>3 DEF CopyingStored, TheBlock
  <2> QED
    BY <1>2, <2>2, <2>3, WatcherSteps DEF List, EndOfList, QueueOld, Processed, DeleteRecord, vars
<1>3. CASE \E i \in Items : IndexOther(i) \/ GrowOld(i)
  BY <1>3 DEF IndexOther, GrowOld, vars, CopyingStored, TheBlock
<1>4. CASE \E s \in Servers : RestartWatcher(s)
  BY <1>1, <1>4 DEF RestartWatcher, StoreNext, Next, Server
<1> QED
  BY <1>1, <1>2, <1>3, <1>4, RNextSteps

\* A permanent location changes only when a listed copy that is in the store
\* is written to it, and nothing else changes then.
LEMMA KeptChanges ==
  ASSUME CopiesSucceed, CustodyInv, [RNext]_rvars
  PROVE  \/ KeptNow' = KeptNow
         \/ /\ UNCHANGED <<phase, stored>>
            /\ \E c \in Copies :
                 /\ phase[c] = "indexed" /\ c \in stored
                 /\ KeptNow' = KeptNow \cup {BlockOf[c]}
<1> USE DEF world, intake, CustodyInv
<1>0. AtomicCopy /\ TypeOK /\ WorkersOK
  BY DEF CopiesSucceed, CopyInv, SoundInv, TypeOK, WorkersOK
<1>1. ASSUME NEW s \in Servers, NEW w \in Workers, FinishCopy(s, w), permanent' # permanent
      PROVE  /\ UNCHANGED <<phase, stored>>
             /\ \E c \in Copies :
                  /\ phase[c] = "indexed" /\ c \in stored
                  /\ KeptNow' = KeptNow \cup {BlockOf[c]}
  <2> DEFINE c == job[s][w].copy
  <2>1. /\ UNCHANGED <<phase, stored>> /\ pc[s][w] = "write"
        /\ permanent' = [permanent EXCEPT ![BlockOf[c]] = "whole"]
    BY <1>1 DEF FinishCopy, At, TheBlock
  <2>2. c \in Copies /\ BlockOf[c] \in Blocks
    BY <1>0, <2>1, HasBlock, StoreAssumption
  <2>3. permanent[BlockOf[c]] # "whole"
    BY <1>0, <1>1, <2>1, <2>2 DEF TypeOK
  <2>4. c \in stored
    BY <2>1, <2>3 DEF CopyingStored, TheBlock
  <2>5. phase[c] \in {"indexed", "purged"}
    BY <2>1 DEF CopyInv, JobsSubmitted, Submitted
  <2>6. phase[c] = "indexed"
    BY <2>2, <2>4, <2>5, StoreAssumption DEF CopyInv, PurgeInv, NoOrphans
  <2>7. KeptNow' = KeptNow \cup {BlockOf[c]}
    BY <1>0, <2>1, <2>2 DEF KeptNow, TypeOK
  <2> QED
    BY <2>1, <2>2, <2>4, <2>6, <2>7
<1>2. ASSUME NEW s \in Servers, NEW w \in Workers, Work(s, w), ~FinishCopy(s, w)
      PROVE  UNCHANGED permanent
  BY <1>0, <1>2 DEF Work, Dequeue, CheckCache, AcquireLock, GiveUp, RecheckCache, CheckRow,
    CheckStore, RecordExisting, StartCopy, RecordCopied, ReleaseLock, CloseChannel
<1>3. CASE [StoreNext]_vars
  BY <1>1, <1>2, <1>3
  DEF StoreNext, Next, Server, Save, Send, CreateBeaconBlock, Stop, StopReturns, Restart,
    LockLapses, vars, KeptNow
<1>4. CASE \E s \in Servers : RetentionWatcher(s)
  BY <1>4, WatcherSteps
  DEF List, EndOfList, QueueOld, Processed, DeleteObject, DeleteRecord, vars, KeptNow
<1>5. CASE \E i \in Items : IndexOther(i) \/ GrowOld(i)
  BY <1>5 DEF IndexOther, GrowOld, vars, KeptNow
<1>6. CASE \E s \in Servers : RestartWatcher(s)
  BY <1>6 DEF RestartWatcher, Restart, KeptNow
<1> QED
  BY <1>3, <1>4, <1>5, <1>6, RNextSteps

LEMMA RNextCustody ==
  ASSUME CopiesSucceed
  PROVE  CustodyInv /\ [RNext]_rvars => [Custody!CNext]_<<HeldNow, RowsNow, KeptNow>>
<1> SUFFICES ASSUME CustodyInv, [RNext]_rvars
             PROVE  Custody!CNext \/ UNCHANGED <<HeldNow, RowsNow, KeptNow>>
  OBVIOUS
<1> USE DEF CustodyInv
<1>0. PurgeInv /\ SavedStored
  BY DEF CopyInv
<1>1. CASE KeptNow' = KeptNow
  <2>1. CASE SameItems
    BY <1>1, <2>1 DEF SameItems, HeldNow, RowsNow
  <2>2. ASSUME NEW i \in Items, OnlyItem(i), UploadedNow(i) \/ RecordedNow(i) \/ PurgedNow(i)
        PROVE  Custody!CNext
    <3>1. Custody!Upload(i) \/ Custody!Record(i) \/ Custody!Forget(i)
      BY <2>2, ItemArchives
    <3> QED
      BY <1>1, <3>1 DEF Custody!CNext, KeptNow
  <2>3. ASSUME NEW i \in Items, OnlyItem(i), DiscardedNow(i)
        PROVE  Custody!CNext
    <3>1. Custody!Discard(i)
      BY <2>3, ItemArchives
    <3>2. i \in Copies => BlockOf[i] \in KeptNow
      BY <2>3, StoreAssumption DEF DiscardedNow, CopyInv, DeletesSpent, Spent, KeptNow
    <3>3. Custody!DiscardSpare(i)
      BY <3>1, <3>2 DEF Custody!DiscardSpare, KeptNow
    <3> QED
      BY <1>1, <3>3 DEF Custody!CNext, KeptNow
  <2> QED
    BY <1>0, <2>1, <2>2, <2>3, ItemChanges
<1>2. ASSUME UNCHANGED <<phase, stored>>, NEW c \in Copies, phase[c] = "indexed", c \in stored,
             KeptNow' = KeptNow \cup {BlockOf[c]}
      PROVE  Custody!CNext
  <2>1. c \in Items /\ BlockOf[c] \in Blocks
    BY StoreAssumption
  <2>2. HeldNow[c] # "none" /\ RowsNow[c] > 0 /\ HeldNow' = HeldNow /\ RowsNow' = RowsNow
    BY <1>2, <2>1 DEF HeldNow, RowsNow
  <2>3. Custody!Keep(BlockOf[c])
    BY <1>2, <2>2 DEF Custody!Keep, HeldNow, RowsNow, KeptNow
  <2> QED
    BY <2>1, <2>3 DEF Custody!CNext
<1> QED
  BY <1>1, <1>2, KeptChanges

\* Under the conditions of RetentionKeepsOneCopy the system has custody of its
\* blocks: no copy goes before a listed copy was kept, by any of the servers,
\* and what is kept stays; with ArchiveProofs, a block that was ever available
\* stays available through every purge (retention.go, permanent_store.go).
THEOREM RetentionRefinesCustody == ASSUME CopiesSucceed PROVE RSpec => ImplementsCustody
<1>1. RInit => CustodyInv /\ Custody!CInit
  <2> SUFFICES ASSUME RInit PROVE CustodyInv /\ Custody!CInit
    OBVIOUS
  <2>1. CustodyInv
    BY RInitCopyInv DEF CustodyInv, CopyingStored, RInit, Init
  <2>2. Custody!CInit
    BY DEF RInit, Init, Custody!CInit, Custody!Init
  <2> QED
    BY <2>1, <2>2
<1>2. CustodyInv /\ [RNext]_rvars => CustodyInv'
  BY RNextCopyInv, RNextCopying DEF CustodyInv
<1>3. CustodyInv /\ [RNext]_rvars => [Custody!CNext]_<<HeldNow, RowsNow, KeptNow>>
  BY RNextCustody
<1> QED
  BY <1>1, <1>2, <1>3, PTL
  DEF RSpec, ImplementsCustody, Custody!CSpec, Custody!cvars, HeldNow, RowsNow, KeptNow

\* What ArchiveProofs proves of every custody, read for this one.
Facts == INSTANCE ArchiveProofs WITH
  content <- HeldNow,
  rows <- RowsNow,
  kept <- KeptNow,
  Truth <- [i \in Items |-> {"object"}],
  None <- "none",
  Unique <- Items,
  Purgeable <- Items

\* A block of which there was ever an object, kept or some agent's copy, listed
\* yet or not, has one for ever after, through every purge by every server
\* (purgeOldBeaconBlocks with processBlock).
THEOREM BlocksAreNeverLost == ASSUME CopiesSucceed PROVE RSpec => Custody!NeverLost
<1>1. Facts!CSpec => Facts!NeverLost
  <2>1. "none" \notin Facts!Data
    BY DEF Facts!Data
  <2> QED
    BY <2>1, StoreAssumption, Facts!CustodyLosesNothing
<1>2. Custody!CInit => Facts!CInit
  BY DEF Custody!CInit, Custody!Init, Facts!CInit, Facts!Init, HeldNow, RowsNow, KeptNow
<1>3. [Custody!CNext]_<<HeldNow, RowsNow, KeptNow>> => [Facts!CNext]_Facts!cvars
  BY DEF Custody!CNext, Custody!Upload, Custody!Record, Custody!DiscardSpare, Custody!Discard,
    Custody!Forget, Custody!Keep, Facts!CNext, Facts!Upload, Facts!Record, Facts!DiscardSpare,
    Facts!Discard, Facts!Forget, Facts!Keep, Facts!cvars, HeldNow, RowsNow, KeptNow
<1>4. [Facts!StaysAvailable]_Facts!cvars
        => [Custody!StaysAvailable]_<<HeldNow, RowsNow, KeptNow>>
  BY DEF Custody!StaysAvailable, Custody!Available, Facts!StaysAvailable, Facts!Available,
    Facts!cvars, HeldNow, RowsNow, KeptNow
<1> QED
  BY <1>1, <1>2, <1>3, <1>4, RetentionRefinesCustody, PTL
  DEF ImplementsCustody, Custody!CSpec, Custody!NeverLost, Custody!cvars, Facts!CSpec,
    Facts!NeverLost, HeldNow, RowsNow, KeptNow

-----------------------------------------------------------------------------
(* What the store promises alone it promises with the loop, which queues jobs *)
(* and deletes the objects they are to copy                                   *)

\* A step of the composition is the store's, as far as the lock and the
\* permanent locations are concerned, or no step.
LEMMA StoreSteps ==
  ASSUME [RNext]_rvars
  PROVE  [StoreNext]_vars \/ UNCHANGED <<permanent, permRows, lock, epoch, cache, pc, job>>
<1> USE DEF world, intake
<1>1. CASE \E i \in Items : IndexOther(i) \/ GrowOld(i)
  BY <1>1 DEF IndexOther, GrowOld, vars
<1>2. CASE \E s \in Servers : RetentionWatcher(s)
  BY <1>2, WatcherSteps DEF List, EndOfList, QueueOld, Processed, DeleteObject, DeleteRecord, vars
<1>3. CASE \E s \in Servers : RestartWatcher(s)
  BY <1>3 DEF RestartWatcher, StoreNext, Next, Server
<1> QED
  BY <1>1, <1>2, <1>3, RNextSteps

LEMMA RNextSound ==
  ASSUME AtomicCopy, RTypeInv, SoundInv, [RNext]_rvars
  PROVE  RTypeInv' /\ SoundInv'
<1>1. RTypeInv' /\ TypeOK'
  BY RNextTypeInv DEF RTypeInv, RTypeOK
<1>2. CASE [StoreNext]_vars
  BY <1>1, <1>2, StoreNextSound
<1>3. CASE UNCHANGED <<permanent, permRows, cache, pc, job>>
  BY <1>1, <1>3, SoundUnchanged DEF SoundInv
<1> QED
  BY <1>2, <1>3, StoreSteps

\* CacheIsSound and RecordIsSound with the loop: no order of purges and copies
\* puts a block in a cache or in permanent_blocks without a whole object, even
\* when the source of a copy is deleted while it is copied (purgeOldBeaconBlocks
\* and processBlock).
THEOREM PurgeKeepsStoreSound ==
  ASSUME AtomicCopy
  PROVE  RSpec => [](CacheSound /\ RecordSound)
<1>1. RInit => RTypeInv /\ SoundInv
  BY RInitTypeInv, InitSound DEF RInit
<1>2. RTypeInv /\ SoundInv /\ [RNext]_rvars => (RTypeInv /\ SoundInv)'
  BY RNextSound
<1>3. SoundInv => CacheSound /\ RecordSound
  BY DEF SoundInv
<1> QED
  BY <1>1, <1>2, <1>3, PTL DEF RSpec

-----------------------------------------------------------------------------
(* The lock with the loop and any number of workers to a server *)

\* A copy that was ever indexed is in the store until its block is permanent.
GonePermanent ==
  \A c \in Copies : phase[c] \in {"indexed", "purged"} => c \in stored \/ permanent[BlockOf[c]] = "whole"

SharedInv == CopyInv /\ WriterInv /\ GonePermanent

LEMMA RNextGone ==
  ASSUME CopiesSucceed, CopyInv, GonePermanent, [RNext]_rvars
  PROVE  GonePermanent'
<1> USE DEF world, intake
<1>0. AtomicCopy /\ SoundInv /\ TypeOK /\ SavedStored /\ \A c \in Copies : c \in Items /\ BlockOf[c] \in Blocks
  BY StoreAssumption DEF CopiesSucceed, CopyInv, SoundInv
<1>1. CASE [StoreNext]_vars
  BY <1>0, <1>1, StoreItems, PermanentStays DEF GonePermanent, SavedStored
<1>2. ASSUME NEW s \in Servers, RetentionWatcher(s)
      PROVE  GonePermanent'
  <2>1. CASE DeleteObject(s)
    <3>1. UNCHANGED <<phase, permanent>> /\ stored' \in {stored, stored \ {item[s]}}
      BY <2>1 DEF DeleteObject
    <3>2. item[s] \in Copies => Spent(item[s])
      BY <2>1 DEF DeleteObject, CopyInv, DeletesSpent
    <3> QED
      BY <3>1, <3>2 DEF GonePermanent, Spent
  <2>2. CASE DeleteRecord(s)
    <3>1. UNCHANGED <<stored, permanent>>
      BY <2>2 DEF DeleteRecord
    <3>2. phase[item[s]] \in {"indexed", "purged"}
      BY <2>2 DEF DeleteRecord, CopyInv, PurgeInv, Listed, RTypeInv, RTypeOK
    <3>3. \A c \in Copies : phase'[c] # phase[c] => c = item[s]
      BY <1>0, <2>2 DEF DeleteRecord, TypeOK
    <3> QED
      BY <3>1, <3>2, <3>3 DEF GonePermanent
  <2>3. CASE UNCHANGED <<phase, stored, permanent>>
    BY <2>3 DEF GonePermanent
  <2> QED
    BY <1>2, <2>1, <2>2, <2>3, WatcherSteps DEF List, EndOfList, QueueOld, Processed, vars
<1>3. ASSUME NEW i \in Items, IndexOther(i) \/ GrowOld(i)
      PROVE  GonePermanent'
  BY <1>0, <1>3 DEF IndexOther, GrowOld, vars, GonePermanent, TypeOK
<1>4. CASE \E s \in Servers : RestartWatcher(s)
  BY <1>1, <1>4 DEF RestartWatcher, StoreNext, Next, Server
<1> QED
  BY <1>1, <1>2, <1>3, <1>4, RNextSteps

LEMMA RNextShared ==
  ASSUME CopiesSucceed, StoreWorks, SharedInv, [RNext]_rvars
  PROVE  SharedInv'
<1>1. CopyInv' /\ GonePermanent' /\ TypeOK'
  BY RNextCopyInv, RNextGone DEF SharedInv, CopyInv, SoundInv
<1>2. Copyable
  <2> SUFFICES ASSUME NEW s \in Servers, NEW w \in Workers, pc[s][w] = "copy"
               PROVE  job[s][w].copy \in stored \/ permanent[TheBlock(s, w)] # "none"
    BY DEF Copyable
  <2>1. job[s][w].copy \in Copies
    BY HasBlock DEF SharedInv, WriterInv, TypeOK, WorkersOK
  <2>2. Submitted(job[s][w])
    BY DEF SharedInv, CopyInv, JobsSubmitted
  <2> QED
    BY <2>1, <2>2 DEF SharedInv, GonePermanent, Submitted, TheBlock
<1>3. CASE [StoreNext]_vars
  BY <1>1, <1>2, <1>3, StoreNextWriter DEF SharedInv
<1>4. CASE UNCHANGED <<permanent, permRows, lock, epoch, cache, pc, job>>
  <2>1. Present' /\ Guarded' /\ OneWriter'
    BY <1>4 DEF SharedInv, WriterInv, Present, Guarded, OneWriter, TheBlock, Owner
  <2> QED
    BY <1>1, <2>1 DEF SharedInv, WriterInv
<1> QED
  BY <1>3, <1>4, StoreSteps

\* LockProtectsWriters with the loop.  A worker whose copy the loop has deleted
\* releases the lock its colleagues rely on with nothing copied; it does no harm
\* because the loop deletes a copy only when its block is permanent, as long as
\* no worker gives up waiting for the lock (processBlock, purgeOldBeaconBlocks).
THEOREM PurgeKeepsOneWriterOfMany ==
  ASSUME CopiesSucceed, StoreWorks
  PROVE  RSpec => []OneWriter
<1>1. RInit => SharedInv
  BY RInitCopyInv, InitWriter, StoreAssumption DEF RInit, Init, SharedInv, GonePermanent
<1>2. SharedInv /\ [RNext]_rvars => SharedInv'
  BY RNextShared
<1>3. SharedInv => OneWriter
  BY DEF SharedInv, WriterInv
<1> QED
  BY <1>1, <1>2, <1>3, PTL DEF RSpec

-----------------------------------------------------------------------------
(* What becomes of a job *)

InQueue(s, j) == \E n \in 1 .. Len(queue[s]) : queue[s][n] = j

InHand(s, w, j) == pc[s][w] # "idle" /\ job[s][w] = j

\* Server s has the job: on its way to the queue, in the queue, or with a worker.
Held(s, j) == j \in offers[s] \/ InQueue(s, j) \/ \E w \in Workers : InHand(s, w, j)

\* A worker of s is done with the job.
Closed(s, j) == \E w \in Workers : CloseChannel(s, w) /\ InHand(s, w, j)

\* How a server may come to have a job no longer: it ended, the copy had no
\* network, the queue was full, or there is nothing left to copy.
Settled(s, j) == epoch'[s] # epoch[s] \/ MayDrop(s, j) \/ Spent(j.copy)'

JobsSettled == \A s \in Servers, j \in Jobs : Held(s, j) /\ ~Held(s, j)' => Settled(s, j)

\* A step that takes nothing from server s leaves it its jobs.
LEMMA NothingTaken ==
  ASSUME NEW s \in Servers, NEW j \in Jobs, Held(s, j),
         offers[s] \subseteq offers'[s], queue'[s] = queue[s],
         \A w \in Workers : pc'[s][w] = "idle" => pc[s][w] = "idle",
         \A w \in Workers : pc[s][w] # "idle" => job'[s][w] = job[s][w]
  PROVE  Held(s, j)'
<1>1. CASE j \in offers[s] \/ InQueue(s, j)
  BY <1>1 DEF Held, InQueue
<1>2. CASE \E w \in Workers : InHand(s, w, j)
  BY <1>2 DEF Held, InHand
<1> QED
  BY <1>1, <1>2 DEF Held

LEMMA SendLoses ==
  ASSUME TypeOK, NEW t \in Servers, NEW i \in offers[t], Send(t, i),
         NEW s \in Servers, NEW j \in Jobs, Held(s, j), ~Held(s, j)'
  PROVE  MayDrop(s, j)
<1> USE DEF world
<1>0. queue[s] \in Seq(Jobs) /\ Len(queue[s]) \in Nat /\ Len(queue[s]) <= QueueCap
  BY DEF TypeOK
<1>1. UNCHANGED <<pc, job>>
  BY DEF Send
<1>2. t = s
  <2>1. t # s => offers'[s] = offers[s] /\ queue'[s] = queue[s]
    BY DEF Send, TypeOK
  <2> QED
    BY <1>1, <2>1, NothingTaken
<1>3. CASE Len(queue[s]) < QueueCap
  <2>1. queue'[s] = Append(queue[s], i) /\ offers'[s] = offers[s] \ {i} /\ i \in Jobs
    BY <1>2, <1>3 DEF Send, TypeOK
  <2>2. /\ Len(queue'[s]) = Len(queue[s]) + 1
        /\ \A n \in 1 .. Len(queue[s]) : queue'[s][n] = queue[s][n]
        /\ queue'[s][Len(queue[s]) + 1] = i
    BY <1>0, <2>1, AppendProperties
  <2>3. Len(queue[s]) + 1 \in 1 .. Len(queue'[s]) /\ 1 .. Len(queue[s]) \subseteq 1 .. Len(queue'[s])
    BY <1>0, <2>2
  <2>4. InQueue(s, i)' /\ (InQueue(s, j) => InQueue(s, j)')
    BY <2>2, <2>3 DEF InQueue
  <2> QED
    BY <1>1, <2>1, <2>4 DEF Held, InHand
<1>4. CASE ~(Len(queue[s]) < QueueCap)
  <2>1. queue'[s] = queue[s] /\ offers'[s] = offers[s] \ {i}
    BY <1>2, <1>4 DEF Send, TypeOK
  <2>2. j = i
    BY <1>1, <2>1 DEF Held, InQueue, InHand
  <2>3. Len(queue[s]) = QueueCap
    BY <1>0, <1>4, StoreAssumption
  <2> QED
    BY <1>2, <2>2, <2>3 DEF MayDrop
<1> QED
  BY <1>3, <1>4

LEMMA DequeueLoses ==
  ASSUME TypeOK, NEW s \in Servers, NEW w \in Workers, Dequeue(s, w),
         NEW j \in Jobs, Held(s, j), ~Held(s, j)'
  PROVE  MayDrop(s, j)
<1> USE DEF world
<1>1. /\ queue[s] \in Seq(Jobs) /\ queue[s] # <<>> /\ queue'[s] = Tail(queue[s])
      /\ offers' = offers
  BY DEF Dequeue, TypeOK
<1>2. /\ Len(queue[s]) \in Nat /\ Head(queue[s]) = queue[s][1]
      /\ Len(queue'[s]) = Len(queue[s]) - 1
      /\ \A n \in 1 .. Len(queue'[s]) : queue'[s][n] = queue[s][n + 1]
  BY <1>1, HeadTailProperties
<1>3. \A v \in Workers : pc[s][v] # "idle" => pc'[s][v] = pc[s][v] /\ job'[s][v] = job[s][v]
  BY DEF Dequeue, At, Goto, TypeOK
<1>4. InQueue(s, j) /\ ~InQueue(s, j)'
  BY <1>1, <1>3 DEF Held, InHand
<1>5. j = Head(queue[s])
  <2>1. PICK n \in 1 .. Len(queue[s]) : queue[s][n] = j
    BY <1>4 DEF InQueue
  <2>2. CASE n = 1
    BY <1>2, <2>1, <2>2
  <2>3. CASE n # 1
    <3>1. n - 1 \in 1 .. Len(queue'[s]) /\ (n - 1) + 1 = n
      BY <1>2, <2>3
    <3>2. queue'[s][n - 1] = j
      BY <1>2, <2>1, <3>1
    <3> QED
      BY <1>4, <3>1, <3>2 DEF InQueue
  <2> QED
    BY <2>2, <2>3
<1>6. CASE j.copy \in Incomplete
  BY <1>1, <1>5, <1>6 DEF MayDrop
<1>7. CASE j.copy \notin Incomplete
  <2>1. pc'[s][w] = "checkCache" /\ job'[s][w] = j
    BY <1>5, <1>7 DEF Dequeue, Goto, TypeOK
  <2> QED
    BY <2>1 DEF Held, InHand
<1> QED
  BY <1>6, <1>7

LEMMA WorkLoses ==
  ASSUME TypeOK, NEW t \in Servers, NEW w \in Workers, Work(t, w),
         NEW s \in Servers, NEW j \in Jobs, Held(s, j), ~Held(s, j)'
  PROVE  MayDrop(s, j) \/ Closed(s, j)
<1> USE DEF world, intake
<1>0. WorkersOK
  BY DEF TypeOK, WorkersOK
<1>1. \A v \in Workers : t # s \/ v # w => pc'[s][v] = pc[s][v] /\ job'[s][v] = job[s][v]
  BY <1>0, OtherWorkers
<1>2. CASE Dequeue(t, w)
  <2>1. offers' = offers /\ (t # s => queue'[s] = queue[s])
    BY <1>2 DEF Dequeue, TypeOK
  <2>2. t = s
    BY <1>1, <2>1, NothingTaken
  <2> QED
    BY <1>2, <2>2, DequeueLoses
<1>3. CASE CloseChannel(t, w)
  <2>1. UNCHANGED <<offers, queue>>
    BY <1>3 DEF CloseChannel
  <2>2. PICK v \in Workers : InHand(s, v, j)
    BY <2>1 DEF Held, InQueue
  <2>3. t = s /\ v = w
    BY <1>1, <2>2 DEF Held, InHand
  <2> QED
    BY <1>3, <2>2, <2>3 DEF Closed
<1>4. CASE ~Dequeue(t, w) /\ ~CloseChannel(t, w)
  <2>1. UNCHANGED <<offers, queue, job>> /\ (pc'[t][w] = "idle" => pc[t][w] = "idle")
    BY <1>0, <1>4 DEF Work, CheckCache, AcquireLock, GiveUp, RecheckCache, CheckRow, CheckStore,
      RecordExisting, StartCopy, FinishCopy, RecordCopied, ReleaseLock, At, Goto, WorkersOK
  <2> QED
    BY <1>1, <2>1, NothingTaken
<1> QED
  BY <1>2, <1>3, <1>4

LEMMA RNextLoses ==
  ASSUME TypeOK, [RNext]_rvars, NEW s \in Servers, NEW j \in Jobs, Held(s, j), ~Held(s, j)'
  PROVE  epoch'[s] # epoch[s] \/ MayDrop(s, j) \/ Closed(s, j)
<1> DEFINE Lost == epoch'[s] # epoch[s] \/ MayDrop(s, j) \/ Closed(s, j)
<1> USE DEF world, intake
<1>1. ASSUME [StoreNext]_vars
      PROVE  Lost
  <2>1. CASE \E t \in Servers : \E i \in offers[t] : Send(t, i)
    BY <2>1, SendLoses
  <2>2. CASE \E t \in Servers, w \in Workers : Work(t, w)
    BY <2>2, WorkLoses
  <2>3. ASSUME NEW t \in Servers, Restart(t)
        PROVE  Lost
    <3>1. t # s => UNCHANGED <<offers[s], queue[s], pc[s], job[s]>>
      BY <2>3 DEF Restart, TypeOK
    <3>2. t = s => epoch'[s] = epoch[s] + 1 /\ epoch[s] \in Nat
      BY <2>3, StoreAssumption DEF Restart, TypeOK
    <3> QED
      BY <3>1, <3>2, NothingTaken
  <2>4. CASE (\A t \in Servers : offers[t] \subseteq offers'[t]) /\ UNCHANGED <<queue, pc, job>>
    BY <2>4, NothingTaken
  <2>5. ASSUME NEW t \in Servers, NEW c \in Copies, CreateBeaconBlock(t, c)
        PROVE  (\A u \in Servers : offers[u] \subseteq offers'[u]) /\ UNCHANGED <<queue, pc, job>>
    BY <2>5 DEF CreateBeaconBlock, Offer, TypeOK
  <2> QED
    BY <1>1, <2>1, <2>2, <2>3, <2>4, <2>5
    DEF StoreNext, Next, Server, Save, Stop, StopReturns, LockLapses, vars
<1>2. CASE (\A t \in Servers : offers[t] \subseteq offers'[t]) /\ UNCHANGED <<queue, pc, job>>
  BY <1>2, NothingTaken
<1>3. ASSUME NEW t \in Servers, RetentionWatcher(t)
      PROVE  (\A u \in Servers : offers[u] \subseteq offers'[u]) /\ UNCHANGED <<queue, pc, job>>
  <2>1. CASE QueueOld(t)
    BY <2>1 DEF QueueOld, Offer, TypeOK
  <2>2. CASE ~QueueOld(t)
    BY <1>3, <2>2, WatcherSteps DEF List, EndOfList, Processed, DeleteObject, DeleteRecord, vars
  <2> QED
    BY <2>1, <2>2
<1>4. CASE \E i \in Items : IndexOther(i) \/ GrowOld(i)
  BY <1>2, <1>4 DEF IndexOther, GrowOld, vars
<1>5. CASE \E t \in Servers : RestartWatcher(t)
  BY <1>1, <1>5 DEF RestartWatcher, StoreNext, Next, Server
<1> QED
  BY <1>1, <1>2, <1>3, <1>4, <1>5, RNextSteps

LEMMA RNextSettles ==
  ASSUME CopyInv, [RNext]_rvars
  PROVE  JobsSettled
<1> SUFFICES ASSUME NEW s \in Servers, NEW j \in Jobs, Held(s, j), ~Held(s, j)'
             PROVE  Settled(s, j)
  BY DEF JobsSettled
<1>0. TypeOK /\ WorkersDone
  BY DEF CopyInv, PurgeInv, RTypeInv, RTypeOK
<1>1. CASE Closed(s, j)
  <2>1. UNCHANGED <<stored, permanent>> /\ Spent(j.copy)
    BY <1>0, <1>1 DEF Closed, CloseChannel, At, InHand, WorkersDone, world
  <2> QED
    BY <2>1 DEF Settled, Spent
<1> QED
  BY <1>0, <1>1, RNextLoses DEF Settled

\* A job that a server has is not lost on the way, in whatever order servers,
\* workers and loops take their steps: unless the server ends or its queue is
\* full, the server puts the job down when the block is permanent or that copy
\* is gone, or at once if it has no network (QueueBlock, processQueue and
\* processBlock).
THEOREM JobsAreKept == ASSUME CopiesSucceed PROVE RSpec => [][JobsSettled]_rvars
<1>1. RInit => CopyInv
  BY RInitCopyInv
<1>2. CopyInv /\ [RNext]_rvars => CopyInv' /\ [JobsSettled]_rvars
  BY RNextCopyInv, RNextSettles
<1> QED
  BY <1>1, <1>2, PTL DEF RSpec

-----------------------------------------------------------------------------
(* When the loop waits for a channel nobody will close *)

WaitsForBlock == \A s \in Servers : step[s] = "wait" => item[s] \in Copies

WaitInv == RTypeInv /\ WaitsForBlock

\* What a step does to the loop of s.
LEMMA WaitSteps ==
  ASSUME RTypeInv, [RNext]_rvars, NEW s \in Servers, step'[s] = "wait"
  PROVE  \/ /\ step[s] = "wait" /\ item'[s] = item[s]
            /\ epoch'[s] = epoch[s] /\ done[s] \subseteq done'[s]
         \/ QueueOld(s)
<1> USE DEF world, intake
<1>0. TypeOK /\ LoopOK
  BY DEF RTypeInv, RTypeOK, LoopOK
<1>1. CASE \E i \in Items : Save(i) /\ UNCHANGED <<old, loop>>
  BY <1>1 DEF Save, loop
<1>2. CASE \E i \in Items : IndexOther(i) \/ GrowOld(i)
  BY <1>2 DEF IndexOther, GrowOld, vars, loop
<1>3. CASE \E t \in Servers : StoreStep(t) /\ UNCHANGED <<old, loop>>
  <2>1. PICK t \in Servers : StoreStep(t) /\ UNCHANGED loop
    BY <1>3
  <2>2. epoch' = epoch /\ done[s] \subseteq done'[s]
    <3>1. ASSUME NEW w \in Workers, CloseChannel(t, w)
          PROVE  epoch' = epoch /\ done[s] \subseteq done'[s]
      BY <1>0, <3>1 DEF CloseChannel, TypeOK
    <3>2. ASSUME NEW w \in Workers, Work(t, w), ~CloseChannel(t, w)
          PROVE  epoch' = epoch /\ done' = done
      BY <3>2 DEF Work, Dequeue, CheckCache, AcquireLock, GiveUp, RecheckCache, CheckRow, CheckStore,
        RecordExisting, StartCopy, FinishCopy, RecordCopied, ReleaseLock
    <3>3. CASE ~(\E w \in Workers : Work(t, w))
      BY <2>1, <3>3 DEF StoreStep, Send, Stop, StopReturns, CreateBeaconBlock
    <3> QED
      BY <3>1, <3>2, <3>3
  <2> QED
    BY <2>1, <2>2 DEF loop
<1>4. ASSUME NEW t \in Servers, RetentionWatcher(t)
      PROVE  \/ /\ step[s] = "wait" /\ item'[s] = item[s]
                /\ epoch'[s] = epoch[s] /\ done[s] \subseteq done'[s]
             \/ QueueOld(s)
  <2>1. CASE List(t) \/ EndOfList(t) \/ DeleteObject(t) \/ DeleteRecord(t)
    BY <1>0, <2>1 DEF List, EndOfList, DeleteObject, DeleteRecord, Skip, LoopOK, vars
  <2>2. CASE Processed(t)
    BY <1>0, <2>2 DEF Processed, LoopOK, TypeOK
  <2>4. CASE QueueOld(t) /\ t # s
    <3>1. epoch' = epoch /\ UNCHANGED <<step[s], item[s], done[s]>>
      BY <1>0, <2>4 DEF QueueOld, Pick, LoopOK, TypeOK
    <3> QED
      BY <3>1
  <2>3. ASSUME NEW i \in todo[t] \ Copies, Pick(t, i, "deleteObject"), UNCHANGED vars
        PROVE  /\ step[s] = "wait" /\ item'[s] = item[s]
               /\ epoch'[s] = epoch[s] /\ done[s] \subseteq done'[s]
    BY <1>0, <2>3 DEF Pick, LoopOK, vars
  <2> QED
    BY <1>4, <2>1, <2>2, <2>3, <2>4, WatcherSteps
<1>5. ASSUME NEW t \in Servers, RestartWatcher(t)
      PROVE  /\ step[s] = "wait" /\ item'[s] = item[s]
             /\ epoch'[s] = epoch[s] /\ done[s] \subseteq done'[s]
  BY <1>0, <1>5 DEF RestartWatcher, Restart, LoopOK, TypeOK
<1>6. CASE (\E b \in Blocks : LockLapses(b) /\ UNCHANGED <<old, loop>>) \/ UNCHANGED rvars
  BY <1>6 DEF LockLapses, loop, rvars, vars
<1> QED
  BY <1>1, <1>2, <1>3, <1>4, <1>5, <1>6 DEF RNext

LEMMA RNextWaitInv ==
  ASSUME WaitInv, [RNext]_rvars
  PROVE  WaitInv'
<1>1. RTypeInv'
  BY RNextTypeInv DEF WaitInv
<1> SUFFICES ASSUME NEW s \in Servers, step'[s] = "wait"
             PROVE  item'[s] \in Copies
  BY <1>1 DEF WaitInv, WaitsForBlock
<1>2. CASE step[s] = "wait" /\ item'[s] = item[s]
  BY <1>2 DEF WaitInv, WaitsForBlock
<1>3. CASE QueueOld(s)
  <2>1. PICK c \in todo[s] : Pick(s, c, "wait") /\ kind[s] = "beacon_block"
    BY <1>3 DEF QueueOld
  <2>2. c \in Copies
    BY <2>1, RetentionAssumption DEF WaitInv, RTypeInv, RTypeOK, OfKind
  <2> QED
    BY <2>1, <2>2 DEF Pick, WaitInv, RTypeInv, RTypeOK
<1> QED
  BY <1>2, <1>3, WaitSteps DEF WaitInv

LEMMA RNextHangs ==
  ASSUME WaitInv, [RNext]_rvars, NEW s \in Servers, ChannelHeld(s), ~ChannelHeld(s)'
  PROVE  \/ step[s] = "next" /\ (~Enabled \/ stop[s] # "running")
         \/ MayDrop(s, OwnJob(s))
<1> USE DEF world, intake
<1>0. TypeOK /\ LoopOK /\ step'[s] = "wait"
  BY DEF WaitInv, RTypeInv, RTypeOK, LoopOK, ChannelHeld
<1>1. CASE /\ step[s] = "wait" /\ item'[s] = item[s]
           /\ epoch'[s] = epoch[s] /\ done[s] \subseteq done'[s]
  <2>0. OwnJob(s) \in Jobs
    BY <1>1 DEF WaitInv, WaitsForBlock, OwnJob, Jobs
  <2> PICK j \in Jobs : j = OwnJob(s)
    BY <2>0
  <2>1. j.copy = item[s] /\ j.waits
    BY DEF OwnJob
  <2>2. OwnJob(s)' = j
    BY <1>1 DEF OwnJob
  <2>3. \A w \in Workers : job[s][w] = j <=> InHand(s, w, j)
    BY <1>0, <2>1, NoJobAssumption DEF TypeOK, InHand
  <2>4. ~Held(s, j)' /\ item[s] \notin done'[s]
    BY <1>0, <1>1, <2>2 DEF ChannelHeld, Held, InQueue, InHand
  <2>5. Held(s, j)
    BY <1>1, <2>3, <2>4 DEF ChannelHeld, Held, InQueue
  <2>6. ~Closed(s, j)
    BY <1>0, <2>1, <2>4 DEF Closed, CloseChannel, InHand, TypeOK
  <2>7. MayDrop(s, j)
    BY <1>0, <1>1, <2>1, <2>4, <2>5, <2>6, RNextLoses
  <2> QED
    BY <2>7
<1>2. CASE QueueOld(s)
  <2>1. PICK c \in todo[s] :
          Pick(s, c, "wait") /\ Offer(s, [copy |-> c, waits |-> TRUE])
    BY <1>2 DEF QueueOld
  <2>2. item'[s] = c /\ step[s] = "next"
    BY <1>0, <2>1 DEF Pick, LoopOK
  <2>3. OwnJob(s)' \notin offers'[s]
    BY <1>0 DEF ChannelHeld
  <2>4. Enabled /\ stop[s] = "running" => [copy |-> c, waits |-> TRUE] \in offers'[s]
    BY <1>0, <2>1 DEF Offer, TypeOK
  <2> QED
    BY <2>2, <2>3, <2>4 DEF OwnJob
<1> QED
  BY <1>0, <1>1, <1>2, WaitSteps DEF WaitInv

\* A retention loop comes to wait for a channel nobody will close in three ways
\* only: the store is disabled or stopped, its queue is full, or the block has no
\* network.  For any number of servers, workers and blocks, any queue and every
\* fault (QueueBlock, processQueue and processBlock, purgeOldBeaconBlocks).
THEOREM LoopHangsOnlyIfDropped == RSpec => HangsOnlyIfDropped
<1>1. RInit => WaitInv
  BY RInitTypeInv DEF RInit, WaitInv, WaitsForBlock
<1>2. WaitInv /\ [RNext]_rvars => WaitInv'
  BY RNextWaitInv
<1>3. WaitInv /\ [RNext]_rvars =>
        [\A s \in Servers : ChannelHeld(s) /\ ~ChannelHeld(s)' =>
           \/ step[s] = "next" /\ (~Enabled \/ stop[s] # "running")
           \/ MayDrop(s, OwnJob(s))]_rvars
  BY RNextHangs
<1> QED
  BY <1>1, <1>2, <1>3, PTL DEF RSpec, HangsOnlyIfDropped
=============================================================================
